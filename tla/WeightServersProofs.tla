-------------------------- MODULE WeightServersProofs --------------------------
(***************************************************************************)
(* For any number of servers, clients, epochs and workers:                 *)
(* acknowledgements are counted exactly (AcksCounted), the logged sums     *)
(* have each report once (ReportedOnce), no gradient is applied to the     *)
(* weights twice (GradientsAppliedOnce), and with BLOCK every pull gets    *)
(* the updates of the epochs before, and no others (PullsAreExact).        *)
(*                                                                         *)
(* The invariant of the first, AckInv, has two halves.  Until the master   *)
(* is up, nothing counts acknowledgements: all queues hold only requests   *)
(* that come with a start, and the channels only the messages of the       *)
(* handshakes, so that the master goes up when all ACK messages of the     *)
(* start are read.  From then on every step keeps the count of each        *)
(* server.  The second, RepInv, says that a report is at one place at a    *)
(* time (Apart), and that a sum that is made has one of each client of its *)
(* server (SumOK).  The third, AppInv, says the same of gradients on their *)
(* ways to the weights of each server.  The fourth, PullInv, counts the    *)
(* epochs that the weights of a layer have.                                *)
(***************************************************************************)
EXTENDS WeightServers, ChannelsProofs

Threads == Worker \cup {Receiver}

-----------------------------------------------------------------------------
(***************************************************************************)
(* Acknowledgements.  Until the master is up no server does anything but   *)
(* start, and serve early pulls: nothing is pushed before graph server 0   *)
(* has heard of all servers.  The master is up when each of the others has *)
(* acknowledged the weights, so that then none of their start is left on   *)
(* the way.  From then on ackCnt counts.                                   *)
(***************************************************************************)
Unanswered == {s \in Others(0) : boot[s] # "up" \/ Places(net[s][0], "ACK") # {}}

\* What the master has sent to s and s has not read.
MasterSent(s) ==
  LET q == net[0][s] IN
  /\ boot[0] \in {"polls", "sleeps"} =>
       boot[s] \in {"waits", "ready"} /\ \A i \in 1..Len(q) : q[i].kind = "MASTERUP"
  /\ boot[0] = "acks" =>
       \/ /\ boot[s] \in {"waits", "ready"}
          /\ Len(q) >= 2 /\ q[Len(q) - 1].kind = "INITDONE"
          /\ \A i \in 1..Len(q) - 2 : q[i].kind = "MASTERUP"
       \/ boot[s] = "weights" /\ Len(q) = 1
       \/ boot[s] = "up" /\ Len(q) = 0

\* And the other way.
MasterHears(s) ==
  /\ Places(net[s][0], "DATA") = {}
  /\ Cardinality(Places(net[s][0], "ACK")) <= 1
  /\ boot[s] # "up" => Places(net[s][0], "ACK") = {}

\* The other channels are not used.
Unused(s, t) == (s # 0 /\ t # 0) \/ s = t

StartNet ==
  /\ \A s \in Server, t \in Server : Unused(s, t) => Len(net[s][t]) = 0
  /\ \A s \in Others(0) : MasterSent(s) /\ MasterHears(s)
  /\ boot[0] \in {"polls", "sleeps", "acks"}
  /\ boot[0] = "acks" => remaining = Cardinality(Unanswered)

EarlyQueue(q, s) ==
  /\ IsQueue(q)
  /\ \A i \in 1..Len(q) : q[i].op = "PULL" \/ (q[i].op = "INFO" /\ s = 0)

EarlyAll(q) ==
  /\ DOMAIN q = Server
  /\ \A s \in Server : DOMAIN q[s] = Worker /\ \A w \in Worker : EarlyQueue(q[s][w], s)

EarlyQueues == EarlyAll(queue)

EarlyClients ==
  /\ informed \in {0, 1}
  /\ DOMAIN main = Client /\ main[0] = -1
  /\ \A c \in Client : main[c] \in {-1, 0} /\ snd[c] = -1

AllIdle ==
  \A s \in Server : ackCnt[s] = 0 /\ \A t \in Threads : busy[s][t].at = "idle"

Early == StartNet /\ EarlyQueues /\ EarlyClients /\ AllIdle

Acked(s) == ackCnt[s] = Cardinality(SentBy(net, s, "DATA")) + Cardinality(SentTo(net, s, "ACK"))

Counting == \A s \in Server : boot[s] = "up" /\ Acked(s)

Base == conf \in Confs /\ Wired(net, Server) /\ ackCnt \in [Server -> Int] /\ DOMAIN boot = Server

AckInv ==
  /\ Base
  /\ boot[0] # "up" => Early
  /\ boot[0] = "up" => Counting

-----------------------------------------------------------------------------
LEMMA ServerFacts ==
  ASSUME conf \in Confs
  PROVE  /\ conf.servers \in Nat \ {0} /\ conf.clients \in Nat \ {0}
         /\ 0 \in Server /\ 0 \in Client
         /\ IsFiniteSet(Server) /\ Server \subseteq Nat
         /\ Cardinality(Others(0)) = conf.servers - 1 /\ IsFiniteSet(Others(0))
<1>1. conf.servers \in Nat \ {0} /\ conf.clients \in Nat \ {0}
  BY ServersOK
<1>2. 0 \in Server /\ 0 \in Client /\ Server \subseteq Nat
  BY <1>1 DEF Server, Client
<1>3. IsFiniteSet(Server) /\ Cardinality(Server) = conf.servers
  <2>1. 0 \in Int /\ conf.servers - 1 \in Int /\ 0 <= conf.servers - 1
    BY <1>1
  <2>2. IsFiniteSet(0..conf.servers - 1)
        /\ Cardinality(0..conf.servers - 1) = (conf.servers - 1) - 0 + 1
    BY <2>1, FS_Interval
  <2> QED BY <1>1, <2>2 DEF Server
<1>4. IsFiniteSet(Others(0)) /\ Cardinality(Others(0)) = conf.servers - 1
  BY <1>2, <1>3, FS_RemoveElement DEF Others
<1> QED BY <1>1, <1>2, <1>3, <1>4

LEMMA AckInit == Init => AckInv
<1> SUFFICES ASSUME Init PROVE AckInv
  OBVIOUS
<1>1. conf \in Confs
  BY DEF Init
<1>2. /\ conf.servers \in Nat \ {0} /\ 0 \in Server /\ 0 \in Client
      /\ IsFiniteSet(Server)
  BY <1>1, ServerFacts
<1>3. \A s \in Server, t \in Server : net[s][t] = <<>>
  BY DEF Init
<1>4. IsQueue(<<>>) /\ Len(<<>>) = 0 /\ \A k : Places(<<>>, k) = {}
  <2>1. Len(<<>>) = 0 /\ DOMAIN <<>> = {}
    OBVIOUS
  <2> QED BY <2>1, QueueEmpty DEF Places
<1>5. Wired(net, Server)
  BY <1>2, <1>3, <1>4 DEF Init, Wired
<1>6. Base
  BY <1>1, <1>5 DEF Init, Base
<1>7. boot[0] = "polls" /\ \A s \in Others(0) : boot[s] = "waits"
  BY <1>2 DEF Init, Others
<1>8. StartNet
  <2>1. ASSUME NEW s \in Others(0)
        PROVE  MasterSent(s) /\ MasterHears(s)
    <3>1. s \in Server /\ net[0][s] = <<>> /\ net[s][0] = <<>>
      BY <1>2, <1>3 DEF Others
    <3>2. Cardinality({}) = 0
      BY FS_EmptySet
    <3> QED BY <1>4, <1>7, <3>1, <3>2 DEF MasterSent, MasterHears
  <2> QED BY <1>3, <1>4, <1>7, <2>1 DEF StartNet
<1>9. EarlyQueues
  BY <1>4 DEF Init, EarlyQueues, EarlyAll, EarlyQueue
<1>10. EarlyClients /\ AllIdle
  BY <1>2 DEF Init, EarlyClients, AllIdle, Threads
<1> QED BY <1>6, <1>7, <1>8, <1>9, <1>10 DEF AckInv, Early

-----------------------------------------------------------------------------
(* The start.                                                              *)

LEMMA EarlyServed ==
  ASSUME AckInv, boot[0] # "up", EarlyQueues', EarlyClients', AllIdle',
         UNCHANGED <<conf, boot, remaining, net, ackCnt>>
  PROVE  AckInv'
<1>1. Server' = Server /\ Others(0)' = Others(0)
  BY DEF Server, Others
<1>2. Base' /\ boot'[0] # "up"
  BY <1>1 DEF AckInv, Base, Wired
<1>3. StartNet'
  <2>1. Unanswered' = Unanswered
    BY <1>1 DEF Unanswered
  <2>2. StartNet /\ UNCHANGED <<boot, net, remaining>>
    BY DEF AckInv, Early
  <2>3. ASSUME NEW s \in Others(0)
        PROVE  MasterSent(s)' /\ MasterHears(s)'
    <3>1. MasterSent(s) /\ MasterHears(s)
      BY <2>2 DEF StartNet
    <3>2. MasterSent(s)'
      BY <2>2, <3>1 DEF MasterSent
    <3>3. MasterHears(s)'
      BY <2>2, <3>1 DEF MasterHears
    <3> QED BY <3>2, <3>3
  <2> HIDE DEF Unanswered
  <2> QED BY <1>1, <2>1, <2>2, <2>3 DEF StartNet, Unused
<1> QED BY <1>2, <1>3 DEF AckInv, Early

LEMMA AppendEarly ==
  ASSUME NEW q, EarlyAll(q), NEW s \in Server, NEW w, NEW req,
         req.op = "PULL" \/ (req.op = "INFO" /\ s = 0),
         NEW r, r = [q EXCEPT ![s][w] = Append(@, req)]
  PROVE  EarlyAll(r)
<1>1. DOMAIN r = Server /\ \A u \in Server : DOMAIN r[u] = Worker
  BY DEF EarlyAll
<1>2. ASSUME NEW u \in Server, NEW v \in Worker
      PROVE  EarlyQueue(r[u][v], u)
  <2>1. EarlyQueue(q[u][v], u)
    BY DEF EarlyAll
  <2>2. CASE u = s /\ v = w
    <3>1. r[u][v] = Append(q[u][v], req)
      BY <2>2 DEF EarlyAll
    <3>2. IsQueue(q[u][v]) /\ Len(q[u][v]) \in Nat
      BY <2>1, QueueLen DEF EarlyQueue
    <3>3. /\ IsQueue(r[u][v]) /\ Len(r[u][v]) = Len(q[u][v]) + 1
          /\ \A i \in 1..Len(q[u][v]) : r[u][v][i] = q[u][v][i]
          /\ r[u][v][Len(q[u][v]) + 1] = req
      BY <3>1, <3>2, QueueAppend
    <3>4. ASSUME NEW i \in 1..Len(r[u][v])
          PROVE  r[u][v][i].op = "PULL" \/ (r[u][v][i].op = "INFO" /\ u = 0)
      <4>1. i \in 1..Len(q[u][v]) \/ i = Len(q[u][v]) + 1
        BY <3>2, <3>3
      <4> QED BY <2>1, <2>2, <3>3, <4>1 DEF EarlyQueue
    <3> QED BY <3>3, <3>4 DEF EarlyQueue
  <2>3. CASE ~(u = s /\ v = w)
    <3>1. r[u][v] = q[u][v]
      BY <2>3 DEF EarlyAll
    <3> QED BY <2>1, <3>1
  <2> QED BY <2>2, <2>3
<1> QED BY <1>1, <1>2 DEF EarlyAll

\* A request is taken from a queue.
LEMMA PopEarly ==
  ASSUME NEW q, EarlyAll(q), NEW s \in Server, NEW w \in Worker, q[s][w] # <<>>,
         NEW r, r = [q EXCEPT ![s][w] = Tail(@)]
  PROVE  EarlyAll(r)
<1>1. DOMAIN r = Server /\ \A u \in Server : DOMAIN r[u] = Worker
  BY DEF EarlyAll
<1>2. ASSUME NEW u \in Server, NEW v \in Worker
      PROVE  EarlyQueue(r[u][v], u)
  <2>1. EarlyQueue(q[u][v], u)
    BY DEF EarlyAll
  <2>2. CASE u = s /\ v = w
    <3>1. r[u][v] = Tail(q[u][v])
      BY <2>2 DEF EarlyAll
    <3>2. IsQueue(q[u][v]) /\ q[u][v] # <<>> /\ Len(q[u][v]) \in Nat
      BY <2>1, <2>2, QueueLen DEF EarlyQueue
    <3>3. /\ IsQueue(r[u][v]) /\ Len(r[u][v]) = Len(q[u][v]) - 1
          /\ \A i \in 1..Len(q[u][v]) - 1 : r[u][v][i] = q[u][v][i + 1]
      BY <3>1, <3>2, QueueTail
    <3>4. ASSUME NEW i \in 1..Len(r[u][v])
          PROVE  r[u][v][i].op = "PULL" \/ (r[u][v][i].op = "INFO" /\ u = 0)
      <4>1. i \in 1..Len(q[u][v]) - 1 /\ i + 1 \in 1..Len(q[u][v])
        BY <3>2, <3>3
      <4> QED BY <2>1, <3>3, <4>1 DEF EarlyQueue
    <3> QED BY <3>3, <3>4 DEF EarlyQueue
  <2>3. CASE ~(u = s /\ v = w)
    <3>1. r[u][v] = q[u][v]
      BY <2>3 DEF EarlyAll
    <3> QED BY <2>1, <3>1
  <2> QED BY <2>2, <2>3
<1> QED BY <1>1, <1>2 DEF EarlyAll

LEMMA EarlyAllSame ==
  ASSUME conf' = conf, EarlyAll(queue')
  PROVE  EarlyQueues'
BY DEF EarlyQueues, EarlyAll, Server, Worker

LEMMA RequestEarly ==
  ASSUME EarlyQueues, conf' = conf, NEW s \in Server, NEW req, Request(s, req),
         req.op = "PULL" \/ (req.op = "INFO" /\ s = 0)
  PROVE  EarlyQueues'
BY AppendEarly, EarlyAllSame DEF Request, EarlyQueues

\* While servers start nothing else happens to them.
LEMMA SetUpKeeps ==
  ASSUME Early, SetUp
  PROVE  conf' = conf /\ ackCnt' = ackCnt /\ EarlyQueues' /\ EarlyClients' /\ AllIdle'
<1>1. UNCHANGED <<conf, queue, main, snd, informed, busy, ackCnt>>
  BY DEF SetUp, clients, requests
<1>2. EarlyQueues'
  BY <1>1 DEF Early, EarlyQueues, EarlyAll, Server, Worker
<1>3. EarlyClients'
  BY <1>1 DEF Early, EarlyClients, Client
<1>4. AllIdle'
  BY <1>1 DEF Early, AllIdle, Server, Threads, Worker, Receiver
<1> QED BY <1>1, <1>2, <1>3, <1>4

\* What a step of the start has to show.
LEMMA EarlyStep ==
  ASSUME AckInv, boot[0] # "up", SetUp, Wired(net', Server), DOMAIN boot' = Server,
         boot'[0] # "up", StartNet'
  PROVE  AckInv'
<1>1. conf' = conf /\ ackCnt' = ackCnt /\ EarlyQueues' /\ EarlyClients' /\ AllIdle'
  BY SetUpKeeps DEF AckInv
<1>2. Server' = Server
  BY <1>1 DEF Server
<1>3. Base'
  BY <1>1, <1>2 DEF AckInv, Base
<1> QED BY <1>1, <1>3 DEF AckInv, Early

LEMMA EarlyFacts ==
  ASSUME AckInv, boot[0] # "up"
  PROVE  /\ conf \in Confs /\ 0 \in Server /\ Others(0) = Server \ {0} /\ Server \subseteq Nat
         /\ Wired(net, Server) /\ DOMAIN boot = Server /\ StartNet
         /\ \A s \in Server, t \in Server : IsQueue(net[s][t]) /\ Len(net[s][t]) \in Nat
<1>1. conf \in Confs /\ Wired(net, Server) /\ DOMAIN boot = Server /\ StartNet
  BY DEF AckInv, Base, Early
<1>2. 0 \in Server /\ Others(0) = Server \ {0} /\ Server \subseteq Nat
  BY <1>1, ServerFacts DEF Others
<1>3. \A s \in Server, t \in Server : IsQueue(net[s][t])
  BY <1>1 DEF Wired
<1> QED BY <1>1, <1>2, <1>3, QueueLen

LEMMA PollKeeps ==
  ASSUME AckInv, boot[0] # "up", PollServers
  PROVE  AckInv'
<1>1. /\ 0 \in Server /\ Others(0) = Server \ {0} /\ Wired(net, Server)
      /\ DOMAIN boot = Server /\ StartNet
      /\ \A s \in Server, t \in Server : IsQueue(net[s][t]) /\ Len(net[s][t]) \in Nat
  BY EarlyFacts
<1>2. SetUp /\ boot[0] = "polls" /\ boot' = [boot EXCEPT ![0] = "sleeps"]
  BY DEF PollServers, Boots, Booted
<1>3. DOMAIN boot' = Server /\ boot'[0] = "sleeps" /\ \A s \in Others(0) : boot'[s] = boot[s]
  BY <1>1, <1>2
<1>4. PICK m : m = [kind |-> "MASTERUP"]
  OBVIOUS
<1>5. m.kind = "MASTERUP" /\ IsQueue(<<m>>) /\ Len(<<m>>) = 1 /\ <<m>>[1] = m
  BY <1>4, QueueOne
<1>6. net' = [net EXCEPT ![0] = [t \in Server |-> IF t # 0 /\ @[t] = <<>> THEN <<m>> ELSE @[t]]]
  BY <1>4 DEF PollServers
<1>7. /\ DOMAIN net' = Server /\ (\A s \in Server : DOMAIN net'[s] = Server)
      /\ \A s \in Others(0) : net'[s] = net[s]
      /\ net'[0][0] = net[0][0]
      /\ \A t \in Others(0) : net'[0][t] = <<m>> \/ net'[0][t] = net[0][t]
  BY <1>1, <1>6 DEF Wired
<1>8. Wired(net', Server)
  BY <1>1, <1>5, <1>7 DEF Wired
<1>9. conf' = conf
  BY <1>2 DEF SetUp
<1>10. Server' = Server /\ Others(0)' = Others(0)
  BY <1>9 DEF Server, Others
<1>11. ASSUME NEW s \in Others(0)
       PROVE  MasterSent(s)' /\ MasterHears(s)'
  <2>1. MasterSent(s) /\ MasterHears(s)
    BY <1>1 DEF StartNet
  <2>2. MasterSent(s)'
    BY <1>2, <1>3, <1>5, <1>7, <2>1 DEF MasterSent
  <2>3. MasterHears(s)'
    BY <1>3, <1>7, <2>1 DEF MasterHears
  <2> QED BY <2>2, <2>3
<1>12. ASSUME NEW s \in Server, NEW t \in Server, Unused(s, t)
       PROVE  Len(net'[s][t]) = 0
  BY <1>1, <1>7, <1>12 DEF StartNet, Unused
<1>13. StartNet'
  BY <1>3, <1>10, <1>11, <1>12 DEF StartNet, Unused
<1> QED BY <1>2, <1>3, <1>8, <1>13, EarlyStep

\* Server s, not the master, takes a step of its start.
LEMMA StarterStep ==
  ASSUME AckInv, boot[0] # "up", SetUp, remaining' = remaining,
         NEW s \in Others(0), NEW b, boot' = [boot EXCEPT ![s] = b],
         Square(net', Server), IsQueue(net'[0][s]), IsQueue(net'[s][0]),
         \A u \in Server, v \in Server : <<u, v>> \notin {<<0, s>>, <<s, 0>>} => net'[u][v] = net[u][v],
         MasterSent(s)', MasterHears(s)',
         s \in Unanswered, b # "up" \/ Places(net'[s][0], "ACK") # {}
  PROVE  AckInv'
<1>1. /\ 0 \in Server /\ Others(0) = Server \ {0} /\ Wired(net, Server)
      /\ DOMAIN boot = Server /\ StartNet
      /\ \A u \in Server, v \in Server : IsQueue(net[u][v]) /\ Len(net[u][v]) \in Nat
  BY EarlyFacts
<1>2. conf' = conf
  BY DEF SetUp
<1>3. Server' = Server /\ Others(0)' = Others(0)
  BY <1>2 DEF Server, Others
<1>4. /\ s \in Server /\ s # 0 /\ DOMAIN boot' = Server /\ boot'[0] = boot[0] /\ boot'[s] = b
      /\ \A u \in Others(0) \ {s} : boot'[u] = boot[u]
  BY <1>1
<1>5. \A u \in Server, v \in Server : IsQueue(net'[u][v])
  <2>1. ASSUME NEW u \in Server, NEW v \in Server
        PROVE  IsQueue(net'[u][v])
    <3>1. CASE <<u, v>> = <<0, s>> \/ <<u, v>> = <<s, 0>>
      BY <3>1
    <3>2. CASE <<u, v>> # <<0, s>> /\ <<u, v>> # <<s, 0>>
      BY <1>1, <3>2
    <3> QED BY <3>1, <3>2
  <2> QED BY <2>1
<1>6. Wired(net', Server)
  BY <1>1, <1>5 DEF Wired, Square
<1>7. \A u \in Others(0) \ {s} : net'[0][u] = net[0][u] /\ net'[u][0] = net[u][0]
  BY <1>1, <1>4
<1>8. ASSUME NEW u \in Others(0)
      PROVE  MasterSent(u)' /\ MasterHears(u)'
  <2>1. CASE u = s
    BY <2>1
  <2>2. CASE u # s
    <3>1. MasterSent(u) /\ MasterHears(u)
      BY <1>1 DEF StartNet
    <3>2. u \in Others(0) \ {s}
      BY <2>2
    <3>a. boot'[u] = boot[u] /\ boot'[0] = boot[0] /\ net'[0][u] = net[0][u]
      BY <1>4, <1>7, <3>2
    <3>3. MasterSent(u)'
      <4>1. PICK q : q = net[0][u]
        OBVIOUS
      <4>2. PICK x : x = boot[u]
        OBVIOUS
      <4>3. PICK y : y = boot[0]
        OBVIOUS
      <4>4. q = net'[0][u] /\ x = boot'[u] /\ y = boot'[0]
        BY <3>a, <4>1, <4>2, <4>3
      <4> QED BY <3>1, <4>1, <4>2, <4>3, <4>4 DEF MasterSent
    <3>4. MasterHears(u)'
      BY <1>4, <1>7, <3>1, <3>2 DEF MasterHears
    <3> QED BY <3>3, <3>4
  <2> QED BY <2>1, <2>2
<1>9. ASSUME NEW u \in Server, NEW v \in Server, Unused(u, v)
      PROVE  Len(net'[u][v]) = 0
  <2>1. <<u, v>> # <<0, s>> /\ <<u, v>> # <<s, 0>>
    BY <1>4, <1>9 DEF Unused
  <2> QED BY <1>1, <1>9, <2>1 DEF StartNet
<1>10. Unanswered' = Unanswered
  <2>1. ASSUME NEW u \in Others(0)
        PROVE  u \in Unanswered' <=> u \in Unanswered
    <3>1. CASE u = s
      BY <1>3, <1>4, <3>1 DEF Unanswered
    <3>2. CASE u # s
      <4>1. boot'[u] = boot[u] /\ net'[u][0] = net[u][0]
        BY <1>4, <1>7, <3>2
      <4> QED BY <1>3, <4>1 DEF Unanswered
    <3> QED BY <3>1, <3>2
  <2>2. Unanswered \subseteq Others(0) /\ Unanswered' \subseteq Others(0)
    BY <1>3 DEF Unanswered
  <2> HIDE DEF Unanswered
  <2> QED BY <2>1, <2>2
<1>11. StartNet'
  <2> HIDE DEF Unanswered, MasterSent, MasterHears
  <2>1. boot'[0] \in {"polls", "sleeps", "acks"} /\ (boot'[0] = "acks" => remaining' = Cardinality(Unanswered'))
    BY <1>1, <1>4, <1>10 DEF StartNet
  <2>2. \A u \in Server', v \in Server' : Unused(u, v)' => Len(net'[u][v]) = 0
    BY <1>3, <1>9 DEF Unused
  <2> QED BY <1>3, <1>8, <2>1, <2>2 DEF StartNet
<1>12. boot'[0] # "up"
  BY <1>4
<1> QED BY <1>4, <1>6, <1>11, <1>12, EarlyStep

\* It has read a message, of the master, and sent m back.
LEMMA AnswerNet ==
  ASSUME AckInv, boot[0] # "up", NEW s \in Others(0), NEW t \in Others(s), Hears(s, t), NEW m,
         Answers(s, t, m)
  PROVE  /\ t = 0 /\ Square(net', Server) /\ net[0][s] # <<>>
         /\ net'[0][s] = Tail(net[0][s]) /\ net'[s][0] = net[s][0] \o m
         /\ \A u \in Server, v \in Server :
              <<u, v>> \notin {<<0, s>>, <<s, 0>>} => net'[u][v] = net[u][v]
<1>1. /\ 0 \in Server /\ Others(0) = Server \ {0} /\ Wired(net, Server) /\ StartNet
      /\ \A u \in Server, v \in Server : IsQueue(net[u][v]) /\ Len(net[u][v]) \in Nat
  BY EarlyFacts
<1>2. s \in Server /\ s # 0 /\ t \in Server
  BY <1>1 DEF Others
<1>3. t = 0
  <2>1. IsQueue(net[t][s]) /\ net[t][s] # <<>>
    BY <1>1, <1>2 DEF Hears
  <2>2. Len(net[t][s]) # 0
    BY <2>1, QueueNone
  <2> QED BY <1>1, <1>2, <2>2 DEF StartNet, Unused
<1>4. net' = [net EXCEPT ![0][s] = Tail(@), ![s][0] = @ \o m] /\ net[0][s] # <<>>
  BY <1>3 DEF Answers, Hears
<1>5. Square(net, Server)
  BY <1>1 DEF Wired, Square
<1>6. /\ Square(net', Server)
      /\ net'[0][s] = Tail(net[0][s]) /\ net'[s][0] = net[s][0] \o m
      /\ \A u \in Server, v \in Server :
              <<u, v>> # <<0, s>> /\ <<u, v>> # <<s, 0>> => net'[u][v] = net[u][v]
  BY <1>1, <1>2, <1>4, <1>5 DEF Square
<1> QED BY <1>3, <1>4, <1>6

LEMMA HearMasterKeeps ==
  ASSUME AckInv, boot[0] # "up", NEW s \in Others(0), NEW t \in Others(s), HearMaster(s, t)
  PROVE  AckInv'
<1>0. /\ SetUp /\ remaining' = remaining /\ boot[s] = "waits" /\ Hears(s, t)
      /\ Head(net[t][s]).kind = "MASTERUP" /\ boot' = [boot EXCEPT ![s] = "ready"]
  BY DEF HearMaster, Boots, Booted
<1>1. PICK m : (m = <<>> \/ m = <<[kind |-> "WORKERUP"]>>) /\ Answers(s, t, m)
  BY DEF HearMaster
<1>2. /\ t = 0 /\ Square(net', Server) /\ net[0][s] # <<>>
      /\ net'[0][s] = Tail(net[0][s]) /\ net'[s][0] = net[s][0] \o m
      /\ \A u \in Server, v \in Server :
           <<u, v>> \notin {<<0, s>>, <<s, 0>>} => net'[u][v] = net[u][v]
  BY <1>0, <1>1, AnswerNet
<1>3. /\ s \in Server /\ s # 0 /\ 0 \in Server /\ DOMAIN boot = Server /\ StartNet
      /\ IsQueue(net[0][s]) /\ IsQueue(net[s][0])
  BY EarlyFacts
<1>4. MasterSent(s) /\ MasterHears(s)
  BY <1>3 DEF StartNet
<1>5. boot'[s] = "ready" /\ boot'[0] = boot[0]
  BY <1>0, <1>3
<1>6. /\ IsQueue(Tail(net[0][s])) /\ Len(net[0][s]) \in Nat /\ Len(net[0][s]) >= 1
      /\ Len(Tail(net[0][s])) = Len(net[0][s]) - 1
      /\ \A i \in 1..Len(net[0][s]) - 1 : Tail(net[0][s])[i] = net[0][s][i + 1]
      /\ Head(net[0][s]) = net[0][s][1]
  BY <1>2, <1>3, RestOfQueue
<1>7. MasterSent(s)'
  <2>1. PICK q : q = net[0][s]
    OBVIOUS
  <2>2. PICK r : r = net'[0][s]
    OBVIOUS
  <2>3. /\ Len(q) \in Nat /\ Len(q) >= 1 /\ Len(r) = Len(q) - 1
        /\ (\A i \in 1..Len(q) - 1 : r[i] = q[i + 1]) /\ q[1].kind = "MASTERUP"
    BY <1>0, <1>2, <1>6, <2>1, <2>2
  <2>4. CASE boot[0] \in {"polls", "sleeps"}
    <3>1. \A i \in 1..Len(q) : q[i].kind = "MASTERUP"
      BY <1>4, <2>1, <2>4 DEF MasterSent
    <3>2. \A i \in 1..Len(r) : r[i].kind = "MASTERUP"
      BY <2>3, <3>1
    <3> QED BY <1>5, <2>2, <2>4, <3>2 DEF MasterSent
  <2>5. CASE boot[0] = "acks"
    <3>1. /\ Len(q) >= 2 /\ q[Len(q) - 1].kind = "INITDONE"
          /\ \A i \in 1..Len(q) - 2 : q[i].kind = "MASTERUP"
      BY <1>0, <1>4, <2>1, <2>5 DEF MasterSent
    <3>2. Len(q) # 2
      BY <2>3, <3>1
    <3>3. Len(r) >= 2 /\ r[Len(r) - 1] = q[Len(q) - 1]
      BY <2>3, <3>1, <3>2
    <3>4. \A i \in 1..Len(r) - 2 : r[i].kind = "MASTERUP"
      BY <2>3, <3>1
    <3> QED BY <1>5, <2>2, <2>5, <3>1, <3>3, <3>4 DEF MasterSent
  <2> QED BY <1>3, <1>5, <2>4, <2>5 DEF StartNet
<1>8. IsQueue(net'[s][0]) /\ MasterHears(s)'
  <2>1. CASE m = <<>>
    <3>1. net'[s][0] = net[s][0]
      BY <1>2, <1>3, <2>1, QueueConcat
    <3> QED BY <1>0, <1>3, <1>4, <1>5, <3>1 DEF MasterHears
  <2>2. CASE m = <<[kind |-> "WORKERUP"]>>
    <3>1. PICK x : x = [kind |-> "WORKERUP"]
      OBVIOUS
    <3>2. net'[s][0] = Append(net[s][0], x) /\ x.kind = "WORKERUP"
      BY <1>2, <1>3, <2>2, <3>1, QueueConcat
    <3>3. IsQueue(net'[s][0])
      BY <1>3, <3>2, QueueAppend
    <3>4. Places(net'[s][0], "DATA") = Places(net[s][0], "DATA")
      <4>1. Places(Append(net[s][0], x), "DATA")
              = Places(net[s][0], "DATA") \cup (IF x.kind = "DATA" THEN {Len(net[s][0]) + 1} ELSE {})
        BY <1>3, PlacesAppend
      <4> QED BY <3>2, <4>1
    <3>5. Places(net'[s][0], "ACK") = Places(net[s][0], "ACK")
      <4>1. Places(Append(net[s][0], x), "ACK")
              = Places(net[s][0], "ACK") \cup (IF x.kind = "ACK" THEN {Len(net[s][0]) + 1} ELSE {})
        BY <1>3, PlacesAppend
      <4> QED BY <3>2, <4>1
    <3> QED BY <1>0, <1>4, <1>5, <3>3, <3>4, <3>5 DEF MasterHears
  <2> QED BY <1>1, <2>1, <2>2
<1>9. s \in Unanswered
  BY <1>0 DEF Unanswered
<1> QED BY <1>0, <1>2, <1>6, <1>7, <1>8, <1>9, StarterStep

LEMMA HearDoneKeeps ==
  ASSUME AckInv, boot[0] # "up", NEW s \in Others(0), NEW t \in Others(s), HearDone(s, t)
  PROVE  AckInv'
<1>0. /\ SetUp /\ remaining' = remaining /\ boot[s] = "ready" /\ Hears(s, t)
      /\ Answers(s, t, <<>>)
  BY DEF HearDone, Boots
<1>2. /\ t = 0 /\ Square(net', Server) /\ net[0][s] # <<>>
      /\ net'[0][s] = Tail(net[0][s]) /\ net'[s][0] = net[s][0] \o <<>>
      /\ \A u \in Server, v \in Server :
           <<u, v>> \notin {<<0, s>>, <<s, 0>>} => net'[u][v] = net[u][v]
  BY <1>0, AnswerNet
<1>3. /\ s \in Server /\ s # 0 /\ 0 \in Server /\ DOMAIN boot = Server /\ StartNet
      /\ IsQueue(net[0][s]) /\ IsQueue(net[s][0])
  BY EarlyFacts
<1>4. MasterSent(s) /\ MasterHears(s)
  BY <1>3 DEF StartNet
<1>1. PICK b : /\ boot' = [boot EXCEPT ![s] = b]
               /\ b = IF Head(net[t][s]).kind = "INITDONE" THEN "weights" ELSE "ready"
  <2>1. CASE Head(net[t][s]).kind = "INITDONE"
    BY <2>1 DEF HearDone, Booted
  <2>2. CASE Head(net[t][s]).kind # "INITDONE"
    <3>1. boot' = [boot EXCEPT ![s] = "ready"]
      <4>1. boot' = boot
        BY <2>2 DEF HearDone
      <4> QED BY <1>0, <1>3, <4>1
    <3> QED BY <2>2, <3>1
  <2> QED BY <2>1, <2>2
<1>5. boot'[s] = b /\ boot'[0] = boot[0] /\ b \in {"weights", "ready"}
  BY <1>1, <1>3
<1>6. /\ IsQueue(Tail(net[0][s])) /\ Len(net[0][s]) \in Nat /\ Len(net[0][s]) >= 1
      /\ Len(Tail(net[0][s])) = Len(net[0][s]) - 1
      /\ \A i \in 1..Len(net[0][s]) - 1 : Tail(net[0][s])[i] = net[0][s][i + 1]
      /\ Head(net[0][s]) = net[0][s][1]
  BY <1>2, <1>3, RestOfQueue
<1>7. MasterSent(s)'
  <2>1. PICK q : q = net[0][s]
    OBVIOUS
  <2>2. PICK r : r = net'[0][s]
    OBVIOUS
  <2>3. /\ Len(q) \in Nat /\ Len(q) >= 1 /\ Len(r) = Len(q) - 1
        /\ (\A i \in 1..Len(q) - 1 : r[i] = q[i + 1])
        /\ b = IF q[1].kind = "INITDONE" THEN "weights" ELSE "ready"
    BY <1>1, <1>2, <1>6, <2>1, <2>2
  <2>4. CASE boot[0] \in {"polls", "sleeps"}
    <3>1. \A i \in 1..Len(q) : q[i].kind = "MASTERUP"
      BY <1>4, <2>1, <2>4 DEF MasterSent
    <3>2. \A i \in 1..Len(r) : r[i].kind = "MASTERUP"
      BY <2>3, <3>1
    <3>3. q[1].kind = "MASTERUP"
      BY <2>3, <3>1
    <3>4. b = "ready"
      BY <2>3, <3>3
    <3> QED BY <1>5, <2>2, <2>4, <3>2, <3>4 DEF MasterSent
  <2>5. CASE boot[0] = "acks"
    <3>1. /\ Len(q) >= 2 /\ q[Len(q) - 1].kind = "INITDONE"
          /\ \A i \in 1..Len(q) - 2 : q[i].kind = "MASTERUP"
      BY <1>0, <1>4, <2>1, <2>5 DEF MasterSent
    <3>2. CASE Len(q) = 2
      <4>1. q[1].kind = "INITDONE" /\ Len(r) = 1
        BY <2>3, <3>1, <3>2
      <4>2. b = "weights"
        BY <2>3, <4>1
      <4> QED BY <1>5, <2>2, <2>5, <4>1, <4>2 DEF MasterSent
    <3>3. CASE Len(q) # 2
      <4>1. Len(r) >= 2 /\ r[Len(r) - 1] = q[Len(q) - 1]
        BY <2>3, <3>1, <3>3
      <4>2. \A i \in 1..Len(r) - 2 : r[i].kind = "MASTERUP"
        BY <2>3, <3>1
      <4>3. q[1].kind = "MASTERUP"
        BY <2>3, <3>1, <3>3
      <4>4. b = "ready"
        BY <2>3, <4>3
      <4> QED BY <1>5, <2>2, <2>5, <3>1, <4>1, <4>2, <4>4 DEF MasterSent
    <3> QED BY <3>2, <3>3
  <2> QED BY <1>3, <1>5, <2>4, <2>5 DEF StartNet
<1>8. net'[s][0] = net[s][0]
  BY <1>2, <1>3, QueueConcat
<1>9. MasterHears(s)'
  BY <1>0, <1>4, <1>5, <1>8 DEF MasterHears
<1>10. s \in Unanswered
  BY <1>0 DEF Unanswered
<1>11. b # "up"
  BY <1>5
<1> QED BY <1>0, <1>1, <1>2, <1>3, <1>6, <1>7, <1>8, <1>9, <1>10, <1>11, StarterStep

LEMMA TakeWeightsKeeps ==
  ASSUME AckInv, boot[0] # "up", NEW s \in Others(0), NEW t \in Others(s), TakeWeights(s, t)
  PROVE  AckInv'
<1>1. PICK x : x = [kind |-> "ACK"]
  OBVIOUS
<1>0. /\ SetUp /\ remaining' = remaining /\ boot[s] = "weights" /\ Hears(s, t)
      /\ Answers(s, t, <<x>>) /\ boot' = [boot EXCEPT ![s] = "up"]
  BY <1>1 DEF TakeWeights, Boots, Booted
<1>2. /\ t = 0 /\ Square(net', Server) /\ net[0][s] # <<>>
      /\ net'[0][s] = Tail(net[0][s]) /\ net'[s][0] = net[s][0] \o <<x>>
      /\ \A u \in Server, v \in Server :
           <<u, v>> \notin {<<0, s>>, <<s, 0>>} => net'[u][v] = net[u][v]
  BY <1>0, AnswerNet
<1>3. /\ s \in Server /\ s # 0 /\ 0 \in Server /\ DOMAIN boot = Server /\ StartNet
      /\ IsQueue(net[0][s]) /\ IsQueue(net[s][0])
  BY EarlyFacts
<1>4. MasterSent(s) /\ MasterHears(s)
  BY <1>3 DEF StartNet
<1>5. boot'[s] = "up" /\ boot'[0] = boot[0]
  BY <1>0, <1>3
<1>6. /\ IsQueue(Tail(net[0][s])) /\ Len(net[0][s]) \in Nat /\ Len(net[0][s]) >= 1
      /\ Len(Tail(net[0][s])) = Len(net[0][s]) - 1
  BY <1>2, <1>3, RestOfQueue
<1>7. boot[0] = "acks" /\ Len(net[0][s]) = 1
  BY <1>0, <1>3, <1>4 DEF MasterSent, StartNet
<1>8. MasterSent(s)'
  <2>1. Len(net'[0][s]) = 0
    BY <1>2, <1>6, <1>7
  <2> QED BY <1>5, <1>7, <2>1 DEF MasterSent
<1>9. net'[s][0] = Append(net[s][0], x) /\ x.kind = "ACK"
  BY <1>1, <1>2, <1>3, QueueConcat
<1>10. IsQueue(net'[s][0]) /\ Len(net[s][0]) \in Nat
  BY <1>3, <1>9, QueueAppend, QueueLen
<1>11. Places(net'[s][0], "DATA") = {}
  <2>1. Places(Append(net[s][0], x), "DATA")
          = Places(net[s][0], "DATA") \cup (IF x.kind = "DATA" THEN {Len(net[s][0]) + 1} ELSE {})
    BY <1>3, PlacesAppend
  <2>2. Places(net[s][0], "DATA") = {}
    BY <1>4 DEF MasterHears
  <2> QED BY <1>9, <2>1, <2>2
<1>12. Places(net'[s][0], "ACK") = {Len(net[s][0]) + 1}
  <2>1. Places(Append(net[s][0], x), "ACK")
          = Places(net[s][0], "ACK") \cup (IF x.kind = "ACK" THEN {Len(net[s][0]) + 1} ELSE {})
    BY <1>3, PlacesAppend
  <2>2. Places(net[s][0], "ACK") = {}
    BY <1>0, <1>4 DEF MasterHears
  <2> QED BY <1>9, <2>1, <2>2
<1>13. MasterHears(s)'
  <2>1. Cardinality(Places(net'[s][0], "ACK")) = 1
    BY <1>12, FS_Singleton
  <2> QED BY <1>5, <1>11, <2>1 DEF MasterHears
<1>14. s \in Unanswered /\ Places(net'[s][0], "ACK") # {}
  BY <1>0, <1>12 DEF Unanswered
<1> QED BY <1>0, <1>2, <1>6, <1>8, <1>10, <1>13, <1>14, StarterStep

\* What a step of the master before the last one has to show.
LEMMA MasterStep ==
  ASSUME AckInv, boot[0] # "up", SetUp, NEW b \in {"polls", "sleeps", "acks"},
         DOMAIN boot' = Server, boot'[0] = b, Wired(net', Server),
         \A s \in Server, t \in Server : Unused(s, t) => Len(net'[s][t]) = 0,
         \A s \in Others(0) : MasterSent(s)' /\ MasterHears(s)',
         b = "acks" => remaining' = Cardinality(Unanswered')
  PROVE  AckInv'
<1>1. 0 \in Server /\ DOMAIN boot = Server
  BY EarlyFacts
<1>2. conf' = conf
  BY DEF SetUp
<1>3. Server' = Server /\ Others(0)' = Others(0)
  BY <1>2 DEF Server, Others
<1>4. DOMAIN boot' = Server /\ boot'[0] = b /\ b # "up"
  OBVIOUS
<1>5. StartNet'
  <2> HIDE DEF Unanswered, MasterSent, MasterHears
  <2>1. \A s \in Server', t \in Server' : Unused(s, t)' => Len(net'[s][t]) = 0
    BY <1>3 DEF Unused
  <2> QED BY <1>3, <1>4, <2>1 DEF StartNet
<1> QED BY <1>4, <1>5, EarlyStep

LEMMA CountServersKeeps ==
  ASSUME AckInv, boot[0] # "up", CountServers
  PROVE  AckInv'
<1>1. /\ conf \in Confs /\ 0 \in Server /\ Others(0) = Server \ {0} /\ Wired(net, Server)
      /\ DOMAIN boot = Server /\ StartNet
      /\ \A s \in Server, t \in Server : IsQueue(net[s][t]) /\ Len(net[s][t]) \in Nat
  BY EarlyFacts
<1>2. SetUp /\ boot[0] = "sleeps"
  BY DEF CountServers, Boots
<1>3. conf' = conf
  BY <1>2 DEF SetUp
<1>4. Server' = Server /\ Others(0)' = Others(0)
  BY <1>3 DEF Server, Others
<1>5. \A s \in Others(0) : MasterSent(s) /\ MasterHears(s)
  BY <1>1 DEF StartNet
<1>6. \A s \in Others(0) : boot[s] \in {"waits", "ready"}
                           /\ \A i \in 1..Len(net[0][s]) : net[0][s][i].kind = "MASTERUP"
  BY <1>2, <1>5 DEF MasterSent
<1>7. IsQueue(<<>>) /\ Len(<<>>) = 0 /\ \A k : Places(<<>>, k) = {}
  <2>1. Len(<<>>) = 0 /\ DOMAIN <<>> = {}
    OBVIOUS
  <2> QED BY <2>1, QueueEmpty DEF Places
<1>8. CASE remaining > Cardinality(SentTo(net, 0, "WORKERUP"))
  <2>1. /\ boot' = [boot EXCEPT ![0] = "polls"]
        /\ net' = [t \in Server |-> [net[t] EXCEPT ![0] = <<>>]]
    BY <1>8 DEF CountServers, Booted
  <2>2. /\ DOMAIN net' = Server /\ \A s \in Server : DOMAIN net'[s] = Server
        /\ \A s \in Server : net'[s][0] = <<>>
        /\ \A s \in Server, t \in Others(0) : net'[s][t] = net[s][t]
    BY <1>1, <2>1 DEF Wired
  <2>3. Wired(net', Server)
    BY <1>1, <1>7, <2>2 DEF Wired
  <2>4. ASSUME NEW s \in Server, NEW t \in Server, Unused(s, t)
        PROVE  Len(net'[s][t]) = 0
    BY <1>1, <1>7, <2>2, <2>4 DEF StartNet
  <2>5. ASSUME NEW s \in Others(0)
        PROVE  MasterSent(s)' /\ MasterHears(s)'
    <3>1. boot'[s] = boot[s] /\ boot'[0] = "polls" /\ net'[0][s] = net[0][s] /\ net'[s][0] = <<>>
      BY <1>1, <2>1, <2>2
    <3>2. MasterSent(s)'
      BY <1>6, <3>1 DEF MasterSent
    <3>3. MasterHears(s)'
      <4>1. \A k : Places(net'[s][0], k) = {}
        BY <1>7, <3>1
      <4>2. Cardinality({}) = 0
        BY FS_EmptySet
      <4> QED BY <4>1, <4>2 DEF MasterHears
    <3> QED BY <3>2, <3>3
  <2>6. DOMAIN boot' = Server /\ boot'[0] = "polls"
    BY <1>1, <2>1
  <2> QED BY <1>2, <2>3, <2>4, <2>5, <2>6, MasterStep
<1>9. CASE ~(remaining > Cardinality(SentTo(net, 0, "WORKERUP")))
  <2>0. PICK a, d : a = [kind |-> "INITDONE"] /\ d = [kind |-> "DATA", layer |-> 0, upd |-> {}]
    OBVIOUS
  <2>1. /\ boot' = [boot EXCEPT ![0] = "acks"] /\ remaining' = conf.servers - 1
        /\ net' = [t \in Server |-> [u \in Server |->
               IF u = 0 THEN <<>>
               ELSE IF t = 0 THEN net[t][u] \o <<a>> \o <<d>> ELSE net[t][u]]]
    BY <1>9, <2>0 DEF CountServers, Booted, FirstWeights
  <2>2. /\ DOMAIN net' = Server /\ \A s \in Server : DOMAIN net'[s] = Server
        /\ \A s \in Server : net'[s][0] = <<>>
        /\ \A s \in Others(0), t \in Others(0) : net'[s][t] = net[s][t]
        /\ \A t \in Others(0) : net'[0][t] = net[0][t] \o <<a>> \o <<d>>
    BY <1>1, <2>1
  <2>3. ASSUME NEW t \in Others(0)
        PROVE  /\ IsQueue(net'[0][t]) /\ Len(net'[0][t]) = Len(net[0][t]) + 2
               /\ \A i \in 1..Len(net[0][t]) : net'[0][t][i] = net[0][t][i]
               /\ net'[0][t][Len(net[0][t]) + 1] = a
    <3>1. PICK q : q = net[0][t]
      OBVIOUS
    <3>2. IsQueue(q)
      BY <1>1, <3>1
    <3>3. PICK r : r = q \o <<a>> \o <<d>>
      OBVIOUS
    <3>4. /\ IsQueue(r) /\ Len(r) = Len(q) + 2
          /\ \A i \in 1..Len(q) : r[i] = q[i]
          /\ r[Len(q) + 1] = a
      <4>1. Joined(q, a, d, r)
        BY <3>3 DEF Joined
      <4> QED BY <3>2, <4>1, QueueTwo
    <3>5. net'[0][t] = r
      BY <2>2, <3>1, <3>3
    <3> QED BY <3>1, <3>4, <3>5
  <2>4. Wired(net', Server)
    <3>1. ASSUME NEW s \in Server, NEW t \in Server
          PROVE  IsQueue(net'[s][t])
      BY <1>1, <1>7, <2>2, <2>3
    <3> QED BY <1>1, <2>2, <3>1 DEF Wired
  <2>5. ASSUME NEW s \in Server, NEW t \in Server, Unused(s, t)
        PROVE  Len(net'[s][t]) = 0
    BY <1>1, <1>7, <2>2, <2>5 DEF StartNet, Unused
  <2>6. ASSUME NEW s \in Others(0)
        PROVE  MasterSent(s)' /\ MasterHears(s)' /\ boot'[s] # "up"
    <3>1. boot'[s] = boot[s] /\ boot'[0] = "acks" /\ net'[s][0] = <<>>
      BY <1>1, <2>1, <2>2
    <3>2. boot'[s] \in {"waits", "ready"}
      BY <1>6, <3>1
    <3>3. PICK q, r : q = net[0][s] /\ r = net'[0][s]
      OBVIOUS
    <3>4. /\ Len(r) >= 2 /\ r[Len(r) - 1].kind = "INITDONE"
          /\ \A i \in 1..Len(r) - 2 : r[i].kind = "MASTERUP"
      <4>1. /\ Len(q) \in Nat /\ Len(r) = Len(q) + 2
            /\ (\A i \in 1..Len(q) : r[i] = q[i] /\ q[i].kind = "MASTERUP")
            /\ r[Len(q) + 1] = a /\ a.kind = "INITDONE"
        BY <1>1, <1>6, <2>0, <2>3, <3>3
      <4>2. Len(r) - 2 = Len(q) /\ Len(r) - 1 = Len(q) + 1
        BY <4>1
      <4> QED BY <4>1, <4>2
    <3>5. MasterSent(s)'
      BY <3>1, <3>2, <3>3, <3>4 DEF MasterSent
    <3>6. MasterHears(s)'
      <4>1. \A k : Places(net'[s][0], k) = {}
        BY <1>7, <3>1
      <4>2. Cardinality({}) = 0
        BY FS_EmptySet
      <4> QED BY <4>1, <4>2 DEF MasterHears
    <3> QED BY <3>2, <3>5, <3>6
  <2>7. Unanswered' = Others(0)
    BY <1>4, <2>6 DEF Unanswered
  <2>8. remaining' = Cardinality(Unanswered')
    BY <1>1, <2>1, <2>7, ServerFacts
  <2>9. \A s \in Others(0) : MasterSent(s)' /\ MasterHears(s)'
    BY <2>6
  <2>10. DOMAIN boot' = Server /\ boot'[0] = "acks"
    BY <1>1, <2>1
  <2> QED BY <1>2, <2>4, <2>5, <2>8, <2>9, <2>10, MasterStep
<1> QED BY <1>8, <1>9

\* All servers are up, and have read what was sent.
LEMMA AllAnswered ==
  ASSUME AckInv, boot[0] = "acks", remaining = 0
  PROVE  /\ \A s \in Others(0) : boot[s] = "up"
         /\ \A s \in Server, t \in Server : \A k \in {"DATA", "ACK"} : Places(net[s][t], k) = {}
<1>1. /\ conf \in Confs /\ 0 \in Server /\ Others(0) = Server \ {0} /\ Wired(net, Server)
      /\ DOMAIN boot = Server /\ StartNet
      /\ \A s \in Server, t \in Server : IsQueue(net[s][t]) /\ Len(net[s][t]) \in Nat
  BY EarlyFacts
<1>2. Unanswered = {}
  <2>1. Unanswered \subseteq Others(0)
    BY DEF Unanswered
  <2>2. IsFiniteSet(Unanswered)
    BY <1>1, <2>1, ServerFacts, FS_Subset
  <2> QED BY <1>1, <2>2, FS_EmptySet DEF StartNet
<1>3. \A s \in Others(0) : boot[s] = "up" /\ Places(net[s][0], "ACK") = {}
  BY <1>2 DEF Unanswered
<1>4. \A s \in Others(0) : Len(net[0][s]) = 0 /\ Places(net[s][0], "DATA") = {}
  BY <1>1, <1>3 DEF StartNet, MasterSent, MasterHears
<1>5. \A q, k : IsQueue(q) /\ Len(q) = 0 => Places(q, k) = {}
  <2>1. ASSUME NEW q, NEW k, IsQueue(q), Len(q) = 0
        PROVE  Places(q, k) = {}
    BY <2>1, QueueLen DEF Places
  <2> QED BY <2>1
<1>6. ASSUME NEW s \in Server, NEW t \in Server, NEW k \in {"DATA", "ACK"}
      PROVE  Places(net[s][t], k) = {}
  <2>1. CASE Unused(s, t)
    BY <1>1, <1>5, <2>1 DEF StartNet
  <2>2. CASE s = 0 /\ t # 0
    BY <1>1, <1>4, <1>5, <2>2
  <2>3. CASE s # 0 /\ t = 0
    BY <1>1, <1>3, <1>4, <2>3
  <2> QED BY <2>1, <2>2, <2>3 DEF Unused
<1> QED BY <1>3, <1>6

LEMMA LastAck ==
  ASSUME AckInv, boot[0] = "acks", remaining = 0, boot' = [boot EXCEPT ![0] = "up"],
         UNCHANGED <<conf, net, ackCnt>>
  PROVE  AckInv'
<1>1. /\ 0 \in Server /\ Others(0) = Server \ {0} /\ Wired(net, Server) /\ DOMAIN boot = Server
  BY EarlyFacts
<1>2. \A s \in Others(0) : boot[s] = "up"
  BY AllAnswered
<1>3. \A s \in Server, t \in Server : \A k \in {"DATA", "ACK"} : Places(net[s][t], k) = {}
  BY AllAnswered
<1>4. Server' = Server
  BY DEF Server
<1>5. ASSUME NEW s \in Server
      PROVE  boot'[s] = "up" /\ Acked(s)'
  <2>1. boot'[s] = "up"
    BY <1>1, <1>2
  <2>2. Cardinality(SentBy(net, s, "DATA")) = 0
    <3>1. \A t \in Server : Places(net[s][t], "DATA") = {}
      BY <1>3
    <3> QED BY <1>1, <3>1, CountsZero
  <2>3. Cardinality(SentTo(net, s, "ACK")) = 0
    <3>1. \A t \in Server : Places(net[t][s], "ACK") = {}
      BY <1>3
    <3> QED BY <1>1, <3>1, CountsZero
  <2>4. ackCnt[s] = 0
    BY DEF AckInv, Early, AllIdle
  <2> QED BY <2>1, <2>2, <2>3, <2>4 DEF Acked
<1>6. Base'
  BY <1>1, <1>4 DEF AckInv, Base
<1>7. boot'[0] = "up"
  BY <1>1
<1>8. Counting'
  BY <1>4, <1>5 DEF Counting
<1> QED BY <1>6, <1>7, <1>8 DEF AckInv

LEMMA CountAcksKeeps ==
  ASSUME AckInv, boot[0] # "up", CountAcks
  PROVE  AckInv'
<1>1. /\ conf \in Confs /\ 0 \in Server /\ Others(0) = Server \ {0} /\ Wired(net, Server)
      /\ DOMAIN boot = Server /\ StartNet
      /\ \A s \in Server, t \in Server : IsQueue(net[s][t]) /\ Len(net[s][t]) \in Nat
  BY EarlyFacts
<1>2. SetUp /\ boot[0] = "acks"
  BY DEF CountAcks, Boots
<1>3. CASE remaining = 0 /\ Booted(0, "up") /\ UNCHANGED <<remaining, net>>
  <2>1. boot' = [boot EXCEPT ![0] = "up"] /\ UNCHANGED <<conf, net, ackCnt>>
    BY <1>2, <1>3 DEF Booted, SetUp
  <2> QED BY <1>2, <1>3, <2>1, LastAck
<1>4. ASSUME NEW t \in Server, net[t][0] # <<>>, net' = [net EXCEPT ![t][0] = Tail(@)],
             remaining' = IF Head(net[t][0]).kind = "ACK" THEN remaining - 1 ELSE remaining,
             UNCHANGED boot
      PROVE  AckInv'
  <2>1. conf' = conf
    BY <1>2 DEF SetUp
  <2>2. Server' = Server /\ Others(0)' = Others(0)
    BY <2>1 DEF Server, Others
  <2>3. t \in Others(0)
    <3>1. Len(net[t][0]) # 0
      BY <1>1, <1>4, QueueNone
    <3> QED BY <1>1, <3>1 DEF StartNet, Unused
  <2>4. Wired(net', Server)
    BY <1>1, <1>4, ReadsExcept, ReadCounts
  <2>5. /\ net'[t][0] = Tail(net[t][0])
        /\ \A u \in Server, v \in Server : <<u, v>> # <<t, 0>> => net'[u][v] = net[u][v]
    BY <1>1, <1>4 DEF Wired
  <2>6. \A s \in Others(0) : MasterSent(s) /\ MasterHears(s)
    BY <1>1 DEF StartNet
  <2>7. PICK q : q = net[t][0]
    OBVIOUS
  <2>8. IsQueue(q) /\ q # <<>>
    BY <1>1, <1>4, <2>7
  <2>9. /\ Head(q).kind # "ACK" => (Places(Tail(q), "ACK") = {} <=> Places(q, "ACK") = {})
        /\ Head(q).kind = "ACK" => Places(q, "ACK") # {} /\ Places(Tail(q), "ACK") = {}
        /\ Cardinality(Places(Tail(q), "ACK")) <= 1
        /\ Places(q, "ACK") = {} => Places(Tail(q), "ACK") = {}
        /\ Places(Tail(q), "DATA") = {}
    <3>1. Places(q, "DATA") = {} /\ Cardinality(Places(q, "ACK")) <= 1
      BY <2>3, <2>6, <2>7 DEF MasterHears
    <3>2. Cardinality(Places(q, "ACK")) \in Nat /\ Cardinality(Places(Tail(q), "ACK")) \in Nat
      BY <2>8, QueueTail, PlacesFinite
    <3>3. /\ Head(q).kind # "ACK" => (Places(Tail(q), "ACK") = {} <=> Places(q, "ACK") = {})
          /\ Head(q).kind = "ACK" => Places(q, "ACK") # {}
          /\ Cardinality(Places(Tail(q), "ACK")) <= Cardinality(Places(q, "ACK"))
          /\ Places(q, "ACK") = {} => Places(Tail(q), "ACK") = {}
          /\ (Head(q).kind = "ACK" /\ Cardinality(Places(q, "ACK")) <= 1) => Places(Tail(q), "ACK") = {}
      BY <2>8, TailPlaces
    <3>4. Places(Tail(q), "DATA") = {}
      BY <2>8, <3>1, TailPlaces
    <3>5. Cardinality(Places(Tail(q), "ACK")) <= 1
      BY <3>1, <3>2, <3>3
    <3> QED BY <3>1, <3>3, <3>4, <3>5
  <2>10. ASSUME NEW s \in Others(0)
         PROVE  MasterSent(s)' /\ MasterHears(s)'
    <3>1. boot'[s] = boot[s] /\ boot'[0] = boot[0] /\ net'[0][s] = net[0][s]
      BY <1>1, <1>4, <2>3, <2>5
    <3>2. MasterSent(s)'
      <4>1. PICK r : r = net[0][s]
        OBVIOUS
      <4>2. PICK x : x = boot[s]
        OBVIOUS
      <4>3. PICK y : y = boot[0]
        OBVIOUS
      <4>4. r = net'[0][s] /\ x = boot'[s] /\ y = boot'[0]
        BY <3>1, <4>1, <4>2, <4>3
      <4>5. MasterSent(s)
        BY <2>6
      <4> HIDE DEF Places
      <4> QED BY <4>1, <4>2, <4>3, <4>4, <4>5 DEF MasterSent
    <3>3. CASE s = t
      <4>1. boot'[s] # "up" => Places(q, "ACK") = {}
        BY <2>6, <2>7, <3>1, <3>3 DEF MasterHears
      <4> QED BY <2>5, <2>7, <2>9, <3>2, <3>3, <4>1 DEF MasterHears
    <3>4. CASE s # t
      <4>1. net'[s][0] = net[s][0]
        BY <1>1, <2>5, <3>4
      <4> QED BY <2>6, <3>1, <3>2, <4>1 DEF MasterHears
    <3> QED BY <3>3, <3>4
  <2>11. ASSUME NEW u \in Server, NEW v \in Server, Unused(u, v)
         PROVE  Len(net'[u][v]) = 0
    <3>1. <<u, v>> # <<t, 0>>
      BY <1>1, <2>3, <2>11 DEF Unused
    <3> QED BY <1>1, <2>5, <2>11, <3>1 DEF StartNet
  <2>12. \A s \in Others(0) \ {t} : s \in Unanswered' <=> s \in Unanswered
    <3>1. ASSUME NEW s \in Others(0) \ {t}
          PROVE  s \in Unanswered' <=> s \in Unanswered
      <4>1. net'[s][0] = net[s][0] /\ boot'[s] = boot[s]
        BY <1>1, <1>4, <2>5
      <4> QED BY <2>2, <4>1 DEF Unanswered
    <3> QED BY <3>1
  <2>13. Unanswered \subseteq Others(0) /\ Unanswered' \subseteq Others(0)
    BY <2>2 DEF Unanswered
  <2>14. IsFiniteSet(Unanswered) /\ Cardinality(Unanswered) \in Nat
    BY <1>1, <2>13, ServerFacts, FS_Subset, FS_CardinalityType
  <2>15. remaining = Cardinality(Unanswered)
    BY <1>1, <1>2 DEF StartNet
  <2>16. CASE Head(q).kind = "ACK"
    <3>1. t \in Unanswered
      BY <2>3, <2>7, <2>9, <2>16 DEF Unanswered
    <3>2. t \notin Unanswered'
      <4>1. boot'[t] = "up"
        BY <1>4, <2>3, <2>6, <2>7, <2>9, <2>16 DEF MasterHears
      <4> QED BY <2>5, <2>7, <2>9, <2>16, <4>1 DEF Unanswered
    <3> HIDE DEF Unanswered
    <3>3. Unanswered' = Unanswered \ {t}
      BY <2>12, <2>13, <3>1, <3>2
    <3>4. Cardinality(Unanswered') = Cardinality(Unanswered) - 1
      BY <2>14, <3>1, <3>3, FS_RemoveElement
    <3>5. remaining' = remaining - 1
      BY <1>4, <2>7, <2>16
    <3>6. remaining' = Cardinality(Unanswered')
      BY <2>15, <3>4, <3>5
    <3>7. DOMAIN boot' = Server /\ boot'[0] = "acks"
      BY <1>1, <1>2, <1>4
    <3> QED BY <1>2, <2>4, <2>10, <2>11, <3>6, <3>7, MasterStep
  <2>17. CASE Head(q).kind # "ACK"
    <3>1. t \in Unanswered' <=> t \in Unanswered
      <4>1. Places(net'[t][0], "ACK") = {} <=> Places(net[t][0], "ACK") = {}
        BY <2>5, <2>7, <2>9, <2>17
      <4> QED BY <1>4, <2>2, <2>3, <4>1 DEF Unanswered
    <3> HIDE DEF Unanswered
    <3>2. Unanswered' = Unanswered
      BY <2>12, <2>13, <3>1
    <3>3. remaining' = remaining
      BY <1>4, <2>7, <2>17
    <3>4. remaining' = Cardinality(Unanswered')
      BY <2>15, <3>2, <3>3
    <3>5. DOMAIN boot' = Server /\ boot'[0] = "acks"
      BY <1>1, <1>2, <1>4
    <3> QED BY <1>2, <2>4, <2>10, <2>11, <3>4, <3>5, MasterStep
  <2> QED BY <2>16, <2>17
<1> QED BY <1>3, <1>4 DEF CountAcks

LEMMA EarlyStartKeeps ==
  ASSUME AckInv, boot[0] # "up", MasterStarts \/ (\E s \in Others(0) : Starts(s))
  PROVE  AckInv'
<1>1. CASE MasterStarts
  BY <1>1, PollKeeps, CountServersKeeps, CountAcksKeeps DEF MasterStarts
<1>2. ASSUME NEW s \in Others(0), Starts(s)
      PROVE  AckInv'
  <2>1. PICK t \in Others(s) : HearMaster(s, t) \/ HearDone(s, t) \/ TakeWeights(s, t)
    BY <1>2 DEF Starts
  <2> QED BY <2>1, HearMasterKeeps, HearDoneKeeps, TakeWeightsKeeps
<1> QED BY <1>1, <1>2

LEMMA Phases ==
  ASSUME NEW c, main[c] \in {-1, 0}
  PROVE  /\ main[c] = -1 => Phase(c) = 3
         /\ main[c] = 0 => Phase(c) = 0
<1>1. ASSUME NEW m \in Int, m + 1 = 0
      PROVE  m % 4 = 3
  BY <1>1, Z3
<1>2. ASSUME NEW m \in Int, m = 0
      PROVE  m % 4 = 0
  BY <1>2, Z3
<1>3. main[c] = -1 => main[c] \in Int /\ main[c] + 1 = 0
  OBVIOUS
<1>4. main[c] = 0 => main[c] \in Int
  OBVIOUS
<1> QED BY <1>1, <1>2, <1>3, <1>4 DEF Phase

LEMMA ClientServer ==
  ASSUME conf \in Confs, NEW c \in Client
  PROVE  ServerOf(c) \in Server
<1>1. conf.servers \in Nat \ {0} /\ conf.clients \in Nat \ {0}
  BY ServerFacts
<1>2. c \in Nat
  BY <1>1 DEF Client
<1>3. ASSUME NEW n \in Nat \ {0}, NEW d \in Nat
      PROVE  d % n \in 0..n - 1
  OBVIOUS
<1> QED BY <1>1, <1>2, <1>3 DEF ServerOf, Server

\* Graph server 0 tells the master about the totals; the others may prefetch.
LEMMA EarlyClientKeeps ==
  ASSUME AckInv, boot[0] # "up", SendInfo \/ Shutdown \/ (\E c \in Client : Train(c))
  PROVE  AckInv'
<1>1. /\ conf \in Confs /\ 0 \in Server /\ 0 \in Client /\ conf.servers \in Nat \ {0}
      /\ EarlyQueues /\ EarlyClients /\ AllIdle
  BY ServerFacts DEF AckInv, Base, Early
<1>2. informed \in {0, 1} /\ main[0] = -1
      /\ \A c \in Client : main[c] \in {-1, 0} /\ snd[c] = -1
  BY <1>1 DEF EarlyClients
<1>3. informed # 2 * conf.servers
  BY <1>1, <1>2
<1>4. CASE SendInfo
  <2>1. informed = 0
    <3>1. PICK s \in Server : informed = 2 * s
      BY <1>4 DEF SendInfo
    <3>2. s \in Nat
      BY <1>1 DEF Server
    <3> QED BY <1>2, <3>1, <3>2
  <2>2. UNCHANGED <<conf, boot, remaining, net, ackCnt, main, snd, busy>> /\ informed' = 1
    BY <1>4, <2>1 DEF SendInfo, started, peers
  <2>3. informed \div 2 = 0
    BY <2>1
  <2>4. PICK r : /\ r = [op |-> "INFO", cnt |-> SplitTot(0, conf.clients, conf.servers)]
                 /\ Request(0, r)
    BY <1>4, <2>3 DEF SendInfo
  <2>5. EarlyQueues'
    <3>1. r.op = "INFO"
      BY <2>4
    <3> QED BY <1>1, <2>2, <2>4, <3>1, RequestEarly
  <2>6. EarlyClients'
    BY <1>1, <2>2 DEF EarlyClients, Client
  <2>7. AllIdle'
    BY <1>1, <2>2 DEF AllIdle, Server, Threads, Worker, Receiver
  <2> QED BY <2>2, <2>5, <2>6, <2>7, EarlyServed
<1>5. CASE Shutdown
  BY <1>3, <1>5 DEF Shutdown
<1>6. ASSUME NEW c \in Client, Train(c)
      PROVE  AckInv'
  <2>1. /\ main[c] \in {-1, 0} /\ snd[c] = -1
        /\ main[c] = -1 => Phase(c) = 3
        /\ main[c] = 0 => Phase(c) = 0
    BY <1>2, Phases
  <2>2. ~Forward(c)
    <3>1. InStep(c) => main[0] >= main[c]
      BY <1>1 DEF InStep
    <3> QED BY <1>2, <2>1, <3>1 DEF Forward
  <2>3. ~LastLayer(c) /\ ~Backward(c)
    BY <2>1 DEF LastLayer, Backward
  <2>4. ~SendPush(c)
    BY <2>1 DEF SendPush
  <2>5. CASE Prefetch(c)
    <3>1. main[c] = -1 /\ c # 0
      BY <1>3, <2>1, <2>5 DEF Prefetch
    <3>2. UNCHANGED <<conf, boot, remaining, net, ackCnt, snd, informed, busy>>
      BY <2>5 DEF Prefetch, started, peers
    <3>3. main' = [main EXCEPT ![c] = 0]
      <4>1. main' = [main EXCEPT ![c] = @ + 1]
        BY <2>5 DEF Prefetch
      <4> QED BY <3>1, <4>1
    <3>4. PICK r : /\ r = [op |-> "PULL", client |-> c, epoch |-> EpochOf(c) + 1, layer |-> 0]
                   /\ Request(ServerOf(c), r)
      BY <2>5 DEF Prefetch
    <3>5. EarlyQueues'
      <4>1. r.op = "PULL"
        BY <3>4
      <4>2. ServerOf(c) \in Server
        BY <1>1, ClientServer
      <4> QED BY <1>1, <3>2, <3>4, <4>1, <4>2, RequestEarly
    <3>6. EarlyClients'
      <4>1. DOMAIN main = Client /\ informed \in {0, 1}
        BY <1>1 DEF EarlyClients
      <4>2. Client' = Client
        BY <3>2 DEF Client
      <4>3. DOMAIN main' = Client /\ main'[0] = -1
        BY <1>1, <1>2, <3>1, <3>3, <4>1
      <4>4. \A d \in Client : main'[d] \in {-1, 0} /\ snd'[d] = -1
        BY <1>2, <3>2, <3>3, <4>1
      <4> QED BY <3>2, <4>1, <4>2, <4>3, <4>4 DEF EarlyClients
    <3>7. AllIdle'
      BY <1>1, <3>2 DEF AllIdle, Server, Threads, Worker, Receiver
    <3> QED BY <3>2, <3>5, <3>6, <3>7, EarlyServed
  <2> QED BY <1>6, <2>2, <2>3, <2>4, <2>5 DEF Train
<1> QED BY <1>4, <1>5, <1>6

\* A server that is up before the master serves pulls, and nothing else.
LEMMA EarlyWorkKeeps ==
  ASSUME AckInv, boot[0] # "up", NEW s \in Server, NEW w \in Worker, Work(s, w)
  PROVE  AckInv'
<1>1. /\ conf \in Confs /\ EarlyQueues /\ EarlyClients /\ AllIdle /\ EarlyAll(queue)
  BY DEF AckInv, Base, Early, EarlyQueues
<1>2. busy[s][w].at = "idle"
  BY <1>1 DEF AllIdle, Threads
<1>3. ASSUME NEW op, Serves(s, w, op)
      PROVE  op = "PULL" /\ queue[s][w] # <<>>
  <2>1. s # 0 /\ queue[s][w] # <<>> /\ Head(queue[s][w]).op = op
    BY <1>3 DEF Serves, Boots
  <2>2. EarlyQueue(queue[s][w], s)
    BY <1>1 DEF EarlyAll
  <2>3. /\ IsQueue(queue[s][w])
        /\ \A i \in 1..Len(queue[s][w]) :
             queue[s][w][i].op = "PULL" \/ (queue[s][w][i].op = "INFO" /\ s = 0)
    BY <2>2 DEF EarlyQueue
  <2>4. Len(queue[s][w]) \in Nat /\ Len(queue[s][w]) >= 1 /\ Head(queue[s][w]) = queue[s][w][1]
    BY <2>1, <2>3, RestOfQueue
  <2> QED BY <2>1, <2>3, <2>4
<1>4. CASE Pull(s, w)
  <2>1. Serves(s, w, "PULL")
    BY <1>4 DEF Pull
  <2>2. queue[s][w] # <<>> /\ Head(queue[s][w]).op = "PULL"
    BY <2>1 DEF Serves
  <2>3. UNCHANGED <<conf, boot, remaining, net, ackCnt, main, snd, informed, busy>>
    BY <1>4 DEF Pull, started, peers
  <2>4. PICK q : q = [queue EXCEPT ![s][w] = Tail(@)]
    OBVIOUS
  <2>5. EarlyAll(q)
    BY <1>1, <2>2, <2>4, PopEarly
  <2>6. EarlyAll(queue')
    <3>1. PICK h : h = Head(queue[s][w])
      OBVIOUS
    <3>2. PICK r : r = [h EXCEPT !.layer = @ + 1]
      OBVIOUS
    <3>3. CASE h.layer + 1 \in Layer
      <4>1. queue' = [q EXCEPT ![s][rr[s]] = Append(@, r)]
        BY <1>4, <2>4, <3>1, <3>2, <3>3 DEF Pull
      <4>2. r.op = "PULL"
        <5>1. h.op = "PULL"
          BY <2>2, <3>1
        <5> QED BY <3>2, <5>1
      <4> QED BY <2>5, <4>1, <4>2, AppendEarly
    <3>4. CASE h.layer + 1 \notin Layer
      <4>1. queue' = q
        BY <1>4, <2>4, <3>1, <3>4 DEF Pull
      <4> QED BY <2>5, <4>1
    <3> QED BY <3>3, <3>4
  <2>7. EarlyQueues'
    BY <2>3, <2>6, EarlyAllSame
  <2>8. EarlyClients'
    BY <1>1, <2>3 DEF EarlyClients, Client
  <2>9. AllIdle'
    BY <1>1, <2>3 DEF AllIdle, Server, Threads, Worker, Receiver
  <2> QED BY <2>3, <2>7, <2>8, <2>9, EarlyServed
<1>5. ~Info(s, w) /\ ~Terminate(s, w) /\ ~Push(s, w) /\ ~Eval(s, w)
  <2>1. ~Serves(s, w, "INFO") /\ ~Serves(s, w, "TERM") /\ ~Serves(s, w, "PUSH") /\ ~Serves(s, w, "EVAL")
    BY <1>3
  <2> QED BY <2>1 DEF Info, Terminate, Push, Eval
<1>6. ~SetTotals(s, w) /\ ~ApplyUpdate(s, w) /\ ~AcksWait(s, w) /\ ~Report(s, w)
  BY <1>2 DEF SetTotals, ApplyUpdate, AcksWait, Report, At
<1> QED BY <1>4, <1>5, <1>6 DEF Work

LEMMA EarlyReceiveNone ==
  ASSUME AckInv, boot[0] # "up", NEW s \in Server
  PROVE  ~Receive(s)
<1>1. /\ 0 \in Server /\ Others(0) = Server \ {0} /\ Wired(net, Server) /\ StartNet
      /\ \A u \in Server, v \in Server : IsQueue(net[u][v]) /\ Len(net[u][v]) \in Nat
  BY EarlyFacts
<1>2. ASSUME NEW t \in Others(s), NEW kind, Receives(s, t, kind)
      PROVE  FALSE
  <2>1. boot[s] = "up" /\ net[t][s] # <<>>
    BY <1>2 DEF Receives, Boots
  <2>2. t \in Server /\ t # s
    BY DEF Others
  <2>3. s # 0
    BY <2>1
  <2>4. Len(net[t][s]) # 0
    BY <1>1, <2>1, <2>2, QueueNone
  <2>5. t = 0
    BY <1>1, <2>2, <2>3, <2>4 DEF StartNet, Unused
  <2>6. MasterSent(s) /\ boot[0] \in {"polls", "sleeps", "acks"}
    BY <1>1, <2>3 DEF StartNet
  <2>7. Len(net[0][s]) = 0
    BY <2>1, <2>6 DEF MasterSent
  <2> QED BY <2>4, <2>5, <2>7
<1> QED BY <1>2 DEF Receive, RecvData, RecvAck, RecvAccLoss

LEMMA EarlyStopNone ==
  ASSUME AckInv, boot[0] # "up", NEW t \in Threads
  PROVE  ~EarlyStop(t) /\ ~Switch(t)
<1>1. 0 \in Server /\ AllIdle
  BY ServerFacts DEF AckInv, Base, Early
<1>2. busy[0][t].at = "idle"
  BY <1>1 DEF AllIdle
<1> QED BY <1>2 DEF EarlyStop, Switch, At

LEMMA EarlyKeeps ==
  ASSUME AckInv, boot[0] # "up", [Next]_vars
  PROVE  AckInv'
<1>1. CASE UNCHANGED vars
  <2>1. UNCHANGED <<conf, boot, remaining, net, ackCnt, main, snd, informed, busy, queue>>
    BY <1>1 DEF vars, started, clients, requests, peers
  <2>2. EarlyQueues /\ EarlyClients /\ AllIdle
    BY DEF AckInv, Early
  <2>3. EarlyQueues'
    BY <2>1, <2>2 DEF EarlyQueues, EarlyAll, Server, Worker
  <2>4. EarlyClients' /\ AllIdle'
    BY <2>1, <2>2 DEF EarlyClients, Client, AllIdle, Server, Threads, Worker, Receiver
  <2> QED BY <2>1, <2>3, <2>4, EarlyServed
<1>2. CASE Next
  BY <1>2, EarlyStartKeeps, EarlyClientKeeps, EarlyWorkKeeps, EarlyReceiveNone, EarlyStopNone
     DEF Next, Threads
<1> QED BY <1>1, <1>2

-----------------------------------------------------------------------------
(* After the start.                                                        *)

LEMMA CountingFacts ==
  ASSUME AckInv, boot[0] = "up"
  PROVE  /\ conf \in Confs /\ 0 \in Server /\ Wired(net, Server) /\ ackCnt \in [Server -> Int]
         /\ \A s \in Server : /\ boot[s] = "up" /\ Acked(s)
                              /\ Cardinality(SentBy(net, s, "DATA")) \in Nat
                              /\ Cardinality(SentTo(net, s, "ACK")) \in Nat
<1>1. /\ conf \in Confs /\ Wired(net, Server) /\ ackCnt \in [Server -> Int]
      /\ \A s \in Server : boot[s] = "up" /\ Acked(s)
  BY DEF AckInv, Base, Counting
<1>2. 0 \in Server
  BY <1>1, ServerFacts
<1>3. ASSUME NEW s \in Server
      PROVE  /\ Cardinality(SentBy(net, s, "DATA")) \in Nat
             /\ Cardinality(SentTo(net, s, "ACK")) \in Nat
  BY <1>1, CountsNat
<1> QED BY <1>1, <1>2, <1>3

LEMMA CountingStep ==
  ASSUME AckInv, boot[0] = "up", UNCHANGED <<conf, boot>>, Wired(net', Server),
         ackCnt' \in [Server -> Int], \A s \in Server : Acked(s)'
  PROVE  AckInv'
<1>1. Server' = Server
  BY DEF Server
<1>2. Base'
  BY <1>1 DEF AckInv, Base
<1>3. Counting'
  BY <1>1, CountingFacts DEF Counting
<1> QED BY <1>2, <1>3 DEF AckInv

LEMMA QuietKeeps ==
  ASSUME AckInv, boot[0] = "up", UNCHANGED <<conf, boot, net, ackCnt>>
  PROVE  AckInv'
<1>1. \A s \in Server : Acked(s)'
  BY CountingFacts DEF Acked
<1> QED BY <1>1, CountingFacts, CountingStep

\* A message that is neither an update nor an ack is sent or read.
LEMMA OtherMessage ==
  ASSUME AckInv, boot[0] = "up", UNCHANGED <<conf, boot, ackCnt>>, Wired(net', Server),
         NEW a \in Server, NEW b \in Server,
         Counts(Server, net, net', a, b, "DATA", 0), Counts(Server, net, net', a, b, "ACK", 0)
  PROVE  AckInv'
<1>1. /\ ackCnt \in [Server -> Int]
      /\ \A s \in Server : /\ Acked(s)
                           /\ Cardinality(SentBy(net, s, "DATA")) \in Nat
                           /\ Cardinality(SentTo(net, s, "ACK")) \in Nat
  BY CountingFacts
<1>2. ASSUME NEW s \in Server
      PROVE  Acked(s)'
  <2>1. Cardinality(SentBy(net', s, "DATA")) = Cardinality(SentBy(net, s, "DATA"))
    BY <1>1 DEF Counts
  <2>2. Cardinality(SentTo(net', s, "ACK")) = Cardinality(SentTo(net, s, "ACK"))
    BY <1>1 DEF Counts
  <2> QED BY <1>1, <2>1, <2>2 DEF Acked
<1> QED BY <1>1, <1>2, CountingStep

LEMMA ApplyUpdateKeeps ==
  ASSUME AckInv, boot[0] = "up", NEW s \in Server, NEW w \in Worker, ApplyUpdate(s, w)
  PROVE  AckInv'
<1>1. /\ Wired(net, Server) /\ ackCnt \in [Server -> Int] /\ conf \in Confs
      /\ \A u \in Server : /\ Acked(u)
                           /\ Cardinality(SentBy(net, u, "DATA")) \in Nat
                           /\ Cardinality(SentTo(net, u, "ACK")) \in Nat
  BY CountingFacts
<1>2. UNCHANGED <<conf, boot>> /\ ackCnt' = [ackCnt EXCEPT ![s] = @ + Cardinality(Others(s))]
  BY DEF ApplyUpdate, started, AcksToCome
<1>3. PICK m : /\ m.kind = "DATA"
               /\ net' = [net EXCEPT ![s] = [t \in Server |-> IF t = s THEN @[t] ELSE Append(@[t], m)]]
  <2>1. PICK l, copy : net' = [net EXCEPT ![s] = [t \in Server |->
          IF t = s THEN @[t] ELSE Append(@[t], [kind |-> "DATA", layer |-> l, upd |-> copy])]]
    BY DEF ApplyUpdate
  <2>2. PICK m : m = [kind |-> "DATA", layer |-> l, upd |-> copy]
    OBVIOUS
  <2>3. m.kind = "DATA"
    BY <2>2
  <2> QED BY <2>1, <2>2, <2>3
<1>4. Broadcasting(Server, net, net', s, m)
  BY <1>1, <1>3, BroadcastsExcept
<1>5. Wired(net', Server) /\ BroadcastCounted(Server, net, net', s, "DATA")
  <2>1. Wired(net', Server) /\ BroadcastCounted(Server, net, net', s, m.kind)
    BY <1>1, <1>4, BroadcastCounts
  <2> QED BY <1>3, <2>1
<1>6. Cardinality(Server \ {s}) \in Nat
  BY <1>1, ServerFacts, FS_Subset, FS_CardinalityType
<1>7. /\ Cardinality(SentBy(net', s, "DATA"))
           = Cardinality(SentBy(net, s, "DATA")) + Cardinality(Server \ {s})
      /\ \A u \in Server \ {s} : SentBy(net', u, "DATA") = SentBy(net, u, "DATA")
      /\ \A u \in Server : SentTo(net', u, "ACK") = SentTo(net, u, "ACK")
  BY <1>5 DEF BroadcastCounted
<1>8. ackCnt' \in [Server -> Int]
  BY <1>1, <1>2, <1>6 DEF Others
<1>9. ASSUME NEW u \in Server
      PROVE  Acked(u)'
  <2>1. CASE u = s
    <3>1. ackCnt'[u] = ackCnt[u] + Cardinality(Server \ {s}) /\ ackCnt[u] \in Int
      BY <1>1, <1>2, <2>1 DEF Others
    <3>2. Acked(u) /\ Cardinality(SentBy(net, u, "DATA")) \in Nat
          /\ Cardinality(SentTo(net, u, "ACK")) \in Nat
      BY <1>1
    <3>3. Cardinality(SentBy(net', u, "DATA"))
            = Cardinality(SentBy(net, u, "DATA")) + Cardinality(Server \ {s})
      BY <1>7, <2>1
    <3>4. Cardinality(SentTo(net', u, "ACK")) = Cardinality(SentTo(net, u, "ACK"))
      BY <1>7
    <3> QED BY <1>6, <3>1, <3>2, <3>3, <3>4 DEF Acked
  <2>2. CASE u # s
    <3>1. ackCnt'[u] = ackCnt[u]
      BY <1>1, <1>2, <2>2
    <3>2. Acked(u)
      BY <1>1
    <3>3. SentBy(net', u, "DATA") = SentBy(net, u, "DATA")
          /\ SentTo(net', u, "ACK") = SentTo(net, u, "ACK")
      BY <1>7, <2>2
    <3> QED BY <3>1, <3>2, <3>3 DEF Acked
  <2> QED BY <2>1, <2>2
<1> QED BY <1>2, <1>5, <1>8, <1>9, CountingStep

\* The server's own count of acks does not change: one update less is on its way, and one
\* ack more.
LEMMA RecvDataKeeps ==
  ASSUME AckInv, boot[0] = "up", NEW s \in Server, NEW t \in Others(s), RecvData(s, t)
  PROVE  AckInv'
<1>1. /\ Wired(net, Server) /\ ackCnt \in [Server -> Int]
      /\ \A u \in Server : /\ Acked(u)
                           /\ Cardinality(SentBy(net, u, "DATA")) \in Nat
                           /\ Cardinality(SentTo(net, u, "ACK")) \in Nat
  BY CountingFacts
<1>2. t \in Server /\ t # s
  BY DEF Others
<1>3. UNCHANGED <<conf, boot, ackCnt>> /\ net[t][s] # <<>> /\ Head(net[t][s]).kind = "DATA"
  BY DEF RecvData, started, Receives
<1>4. PICK x : x = [kind |-> "ACK"]
  OBVIOUS
<1>5. PICK mid : mid = [net EXCEPT ![t][s] = Tail(@)]
  OBVIOUS
<1>6. x.kind = "ACK"
  BY <1>4
<1>7. Reading(Server, net, mid, t, s)
  BY <1>1, <1>2, <1>3, <1>5, ReadsExcept
<1>8. Wired(mid, Server)
      /\ \A k : Counts(Server, net, mid, t, s, k, -One(Head(net[t][s]).kind = k))
  BY <1>1, <1>2, <1>7, ReadCounts
<1>9. Sending(Server, mid, net', s, t, x)
  <2>1. net' = [net EXCEPT ![t][s] = Tail(@), ![s][t] = Append(@, x)]
    BY <1>4 DEF RecvData
  <2>2. /\ DOMAIN net = Server /\ (\A u \in Server : DOMAIN net[u] = Server)
        /\ DOMAIN mid = Server /\ (\A u \in Server : DOMAIN mid[u] = Server)
    BY <1>1, <1>8 DEF Wired
  <2>3. Square(net', Server) /\ net'[s][t] = Append(net[s][t], x) /\ mid[s][t] = net[s][t]
    BY <1>2, <1>5, <2>1, <2>2 DEF Square
  <2>4. net'[t][s] = Tail(net[t][s]) /\ mid[t][s] = Tail(net[t][s])
    BY <1>2, <1>5, <2>1, <2>2
  <2>5. \A u \in Server, v \in Server :
          <<u, v>> # <<s, t>> /\ <<u, v>> # <<t, s>> => net'[u][v] = net[u][v] /\ mid[u][v] = net[u][v]
    BY <1>2, <1>5, <2>1, <2>2
  <2>6. OneChannel(mid, net', s, t)
    BY <2>2, <2>4, <2>5 DEF OneChannel
  <2> QED BY <2>3, <2>6 DEF Sending
<1>10. Wired(net', Server)
       /\ \A k : Counts(Server, mid, net', s, t, k, One(x.kind = k))
  BY <1>2, <1>8, <1>9, SendCounts
<1>11. /\ Counts(Server, net, mid, t, s, "DATA", -1) /\ Counts(Server, net, mid, t, s, "ACK", 0)
       /\ Counts(Server, mid, net', s, t, "DATA", 0) /\ Counts(Server, mid, net', s, t, "ACK", 1)
  <2>1. -One(Head(net[t][s]).kind = "DATA") = -1 /\ -One(Head(net[t][s]).kind = "ACK") = 0
    <3>1. One(Head(net[t][s]).kind = "DATA") = 1 /\ One(Head(net[t][s]).kind = "ACK") = 0
      BY <1>3 DEF One
    <3> QED BY <3>1
  <2>2. One(x.kind = "DATA") = 0 /\ One(x.kind = "ACK") = 1
    BY <1>6 DEF One
  <2>3. Counts(Server, net, mid, t, s, "DATA", -One(Head(net[t][s]).kind = "DATA"))
        /\ Counts(Server, net, mid, t, s, "ACK", -One(Head(net[t][s]).kind = "ACK"))
    BY <1>8
  <2>4. Counts(Server, mid, net', s, t, "DATA", One(x.kind = "DATA"))
        /\ Counts(Server, mid, net', s, t, "ACK", One(x.kind = "ACK"))
    BY <1>10
  <2> QED BY <2>1, <2>2, <2>3, <2>4
<1>12. ASSUME NEW u \in Server
       PROVE  Cardinality(SentBy(net', u, "DATA"))
                = Cardinality(SentBy(net, u, "DATA")) - (IF u = t THEN 1 ELSE 0)
  <2>1. Cardinality(SentBy(mid, u, "DATA")) \in Nat /\ Cardinality(SentBy(net, u, "DATA")) \in Nat
    BY <1>1, <1>8, CountsNat
  <2>2. Cardinality(SentBy(net', u, "DATA")) = Cardinality(SentBy(mid, u, "DATA"))
    BY <1>11, <2>1 DEF Counts
  <2>3. u = t => Cardinality(SentBy(mid, u, "DATA")) = Cardinality(SentBy(net, u, "DATA")) - 1
    BY <1>11, <2>1 DEF Counts
  <2>4. u # t => Cardinality(SentBy(mid, u, "DATA")) = Cardinality(SentBy(net, u, "DATA"))
    BY <1>11, <2>1 DEF Counts
  <2> QED BY <2>1, <2>2, <2>3, <2>4
<1>13. ASSUME NEW u \in Server
       PROVE  Cardinality(SentTo(net', u, "ACK"))
                = Cardinality(SentTo(net, u, "ACK")) + (IF u = t THEN 1 ELSE 0)
  <2>1. Cardinality(SentTo(mid, u, "ACK")) \in Nat /\ Cardinality(SentTo(net, u, "ACK")) \in Nat
    BY <1>1, <1>8, CountsNat
  <2>2. Cardinality(SentTo(mid, u, "ACK")) = Cardinality(SentTo(net, u, "ACK"))
    BY <1>11, <2>1 DEF Counts
  <2>3. u = t => Cardinality(SentTo(net', u, "ACK")) = Cardinality(SentTo(mid, u, "ACK")) + 1
    BY <1>11, <2>1 DEF Counts
  <2>4. u # t => Cardinality(SentTo(net', u, "ACK")) = Cardinality(SentTo(mid, u, "ACK"))
    BY <1>11, <2>1 DEF Counts
  <2> QED BY <2>1, <2>2, <2>3, <2>4
<1>14. ASSUME NEW u \in Server
       PROVE  Acked(u)'
  <2>1. /\ ackCnt'[u] = ackCnt[u] /\ Acked(u)
        /\ Cardinality(SentBy(net, u, "DATA")) \in Nat /\ Cardinality(SentTo(net, u, "ACK")) \in Nat
    BY <1>1, <1>3
  <2> QED BY <1>12, <1>13, <2>1 DEF Acked
<1> QED BY <1>1, <1>3, <1>10, <1>14, CountingStep

LEMMA RecvAckKeeps ==
  ASSUME AckInv, boot[0] = "up", NEW s \in Server, NEW t \in Others(s), RecvAck(s, t)
  PROVE  AckInv'
<1>1. /\ Wired(net, Server) /\ ackCnt \in [Server -> Int]
      /\ \A u \in Server : /\ Acked(u)
                           /\ Cardinality(SentBy(net, u, "DATA")) \in Nat
                           /\ Cardinality(SentTo(net, u, "ACK")) \in Nat
  BY CountingFacts
<1>2. t \in Server /\ t # s
  BY DEF Others
<1>3. /\ UNCHANGED <<conf, boot>> /\ net[t][s] # <<>> /\ Head(net[t][s]).kind = "ACK"
      /\ net' = [net EXCEPT ![t][s] = Tail(@)] /\ ackCnt' = [ackCnt EXCEPT ![s] = @ - 1]
  BY DEF RecvAck, started, Receives
<1>4. Reading(Server, net, net', t, s)
  BY <1>1, <1>2, <1>3, ReadsExcept
<1>5. Wired(net', Server)
      /\ \A k : Counts(Server, net, net', t, s, k, -One(Head(net[t][s]).kind = k))
  BY <1>1, <1>2, <1>4, ReadCounts
<1>6. Counts(Server, net, net', t, s, "DATA", 0) /\ Counts(Server, net, net', t, s, "ACK", -1)
  <2>1. -One(Head(net[t][s]).kind = "DATA") = 0 /\ -One(Head(net[t][s]).kind = "ACK") = -1
    <3>1. One(Head(net[t][s]).kind = "DATA") = 0 /\ One(Head(net[t][s]).kind = "ACK") = 1
      BY <1>3 DEF One
    <3> QED BY <3>1
  <2>2. Counts(Server, net, net', t, s, "DATA", -One(Head(net[t][s]).kind = "DATA"))
        /\ Counts(Server, net, net', t, s, "ACK", -One(Head(net[t][s]).kind = "ACK"))
    BY <1>5
  <2> QED BY <2>1, <2>2
<1>7. ackCnt' \in [Server -> Int]
  BY <1>1, <1>3
<1>8. ASSUME NEW u \in Server
      PROVE  Acked(u)'
  <2>1. /\ Acked(u) /\ ackCnt[u] \in Int
        /\ Cardinality(SentBy(net, u, "DATA")) \in Nat /\ Cardinality(SentTo(net, u, "ACK")) \in Nat
    BY <1>1
  <2>2. Cardinality(SentBy(net', u, "DATA")) = Cardinality(SentBy(net, u, "DATA"))
    BY <1>6, <2>1 DEF Counts
  <2>3. u = s => Cardinality(SentTo(net', u, "ACK")) = Cardinality(SentTo(net, u, "ACK")) - 1
    BY <1>6, <2>1 DEF Counts
  <2>4. u # s => Cardinality(SentTo(net', u, "ACK")) = Cardinality(SentTo(net, u, "ACK"))
    BY <1>6, <2>1 DEF Counts
  <2>5. ackCnt'[u] = ackCnt[u] - (IF u = s THEN 1 ELSE 0)
    BY <1>1, <1>3
  <2> QED BY <2>1, <2>2, <2>3, <2>4, <2>5 DEF Acked
<1> QED BY <1>3, <1>5, <1>7, <1>8, CountingStep

LEMMA RecvAccLossKeeps ==
  ASSUME AckInv, boot[0] = "up", NEW s \in Server, NEW t \in Others(s), RecvAccLoss(s, t)
  PROVE  AckInv'
<1>1. Wired(net, Server)
  BY CountingFacts
<1>2. t \in Server /\ t # s
  BY DEF Others
<1>3. /\ UNCHANGED <<conf, boot, ackCnt>> /\ net[t][s] # <<>> /\ Head(net[t][s]).kind = "ACCLOSS"
      /\ net' = [net EXCEPT ![t][s] = Tail(@)]
  BY DEF RecvAccLoss, started, Receives
<1>4. Reading(Server, net, net', t, s)
  BY <1>1, <1>2, <1>3, ReadsExcept
<1>5. Wired(net', Server)
      /\ \A k : Counts(Server, net, net', t, s, k, -One(Head(net[t][s]).kind = k))
  BY <1>1, <1>2, <1>4, ReadCounts
<1>6. Counts(Server, net, net', t, s, "DATA", 0) /\ Counts(Server, net, net', t, s, "ACK", 0)
  <2>1. -One(Head(net[t][s]).kind = "DATA") = 0 /\ -One(Head(net[t][s]).kind = "ACK") = 0
    <3>1. One(Head(net[t][s]).kind = "DATA") = 0 /\ One(Head(net[t][s]).kind = "ACK") = 0
      BY <1>3 DEF One
    <3> QED BY <3>1
  <2>2. Counts(Server, net, net', t, s, "DATA", -One(Head(net[t][s]).kind = "DATA"))
        /\ Counts(Server, net, net', t, s, "ACK", -One(Head(net[t][s]).kind = "ACK"))
    BY <1>5
  <2> QED BY <2>1, <2>2
<1> QED BY <1>2, <1>3, <1>5, <1>6, OtherMessage

LEMMA ReportKeeps ==
  ASSUME AckInv, boot[0] = "up", NEW s \in Server, NEW w \in Worker, Report(s, w)
  PROVE  AckInv'
<1>1. Wired(net, Server) /\ 0 \in Server
  BY CountingFacts
<1>2. UNCHANGED <<conf, boot, ackCnt>>
  BY DEF Report, started
<1>3. CASE s = 0
  <2>1. net' = net
    BY <1>3 DEF Report
  <2> QED BY <1>2, <2>1, QuietKeeps
<1>4. CASE s # 0
  <2>1. PICK x : x = [kind |-> "ACCLOSS", sum |-> busy[s][w].sum]
    OBVIOUS
  <2>2. net' = [net EXCEPT ![s][0] = Append(@, x)] /\ x.kind = "ACCLOSS"
    BY <1>4, <2>1 DEF Report
  <2>3. Sending(Server, net, net', s, 0, x)
    BY <1>1, <2>2, SendsExcept
  <2>4. Wired(net', Server) /\ \A k : Counts(Server, net, net', s, 0, k, One(x.kind = k))
    BY <1>1, <2>3, SendCounts
  <2>5. Counts(Server, net, net', s, 0, "DATA", 0) /\ Counts(Server, net, net', s, 0, "ACK", 0)
    <3>1. One(x.kind = "DATA") = 0 /\ One(x.kind = "ACK") = 0
      BY <2>2 DEF One
    <3>2. Counts(Server, net, net', s, 0, "DATA", One(x.kind = "DATA"))
          /\ Counts(Server, net, net', s, 0, "ACK", One(x.kind = "ACK"))
      BY <2>4
    <3> QED BY <3>1, <3>2
  <2> QED BY <1>1, <1>2, <2>4, <2>5, OtherMessage
<1> QED BY <1>3, <1>4

LEMMA StartedNoStart ==
  ASSUME AckInv, boot[0] = "up"
  PROVE  ~MasterStarts /\ ~\E s \in Others(0) : Starts(s)
<1>1. \A s \in Server : boot[s] = "up"
  BY CountingFacts
<1>2. 0 \in Server
  BY CountingFacts
<1>3. ~MasterStarts
  BY DEF MasterStarts, PollServers, CountServers, CountAcks, Boots
<1>4. ASSUME NEW s \in Others(0), Starts(s)
      PROVE  FALSE
  <2>1. boot[s] = "up"
    BY <1>1 DEF Others
  <2> QED BY <1>4, <2>1 DEF Starts, HearMaster, HearDone, TakeWeights, Boots
<1> QED BY <1>3, <1>4

LEMMA CountingKeeps ==
  ASSUME AckInv, boot[0] = "up", [Next]_vars
  PROVE  AckInv'
<1>1. CASE UNCHANGED vars
  BY <1>1, QuietKeeps DEF vars, started, peers
<1>2. CASE MasterStarts \/ (\E s \in Others(0) : Starts(s))
  BY <1>2, StartedNoStart
<1>3. CASE SendInfo \/ Shutdown \/ (\E c \in Client : Train(c))
  <2>1. UNCHANGED <<conf, started, peers>>
    BY <1>3 DEF SendInfo, Shutdown, Train, Prefetch, Forward, LastLayer, Backward, SendPush
  <2> QED BY <2>1, QuietKeeps DEF started, peers
<1>4. ASSUME NEW s \in Server, Receive(s)
      PROVE  AckInv'
  BY <1>4, RecvDataKeeps, RecvAckKeeps, RecvAccLossKeeps DEF Receive
<1>5. ASSUME NEW s \in Server, NEW w \in Worker, Work(s, w)
      PROVE  AckInv'
  <2>1. CASE ApplyUpdate(s, w) \/ Report(s, w)
    BY <2>1, ApplyUpdateKeeps, ReportKeeps
  <2>2. CASE ~(ApplyUpdate(s, w) \/ Report(s, w))
    <3>1. UNCHANGED <<conf, started, peers>>
      BY <1>5, <2>2 DEF Work, Info, SetTotals, Pull, Terminate, Push, AcksWait, Eval
    <3> QED BY <3>1, QuietKeeps DEF started, peers
  <2> QED BY <2>1, <2>2
<1>6. CASE \E t \in Worker \cup {Receiver} : EarlyStop(t) \/ Switch(t)
  <2>1. UNCHANGED <<conf, started, peers>>
    BY <1>6 DEF EarlyStop, Switch
  <2> QED BY <2>1, QuietKeeps DEF started, peers
<1> QED BY <1>1, <1>2, <1>3, <1>4, <1>5, <1>6 DEF Next

\* ackCnt is the number of the server's updates and of its acks that are on their way, once
\* all servers have started (recvData and applyUpdate, weightserver.cpp).
THEOREM AcksCounted == Spec => []AcksExact
<1>1. AckInv /\ [Next]_vars => AckInv'
  BY EarlyKeeps, CountingKeeps
<1>2. AckInv => AcksExact
  <2> SUFFICES ASSUME AckInv, \A s \in Server : Boots(s, "up"), NEW s \in Server
               PROVE  Acked(s)
    BY DEF AcksExact, Acked
  <2>1. 0 \in Server
    BY ServerFacts DEF AckInv, Base
  <2>2. boot[0] = "up"
    BY <2>1 DEF Boots
  <2> QED BY <2>2 DEF AckInv, Counting
<1> QED BY <1>1, <1>2, AckInit, PTL DEF Spec

-----------------------------------------------------------------------------
(***************************************************************************)
(* Loss reports.  A report is at one place at a time: in a request, in the *)
(* table of its server, in a sum that a worker has made, in a message, in  *)
(* server 0's table, or logged (Spot, At).  So none is logged twice.  And  *)
(* a sum has a report of each client of its server, as setLocalUpdTot's    *)
(* number is that of these clients (Split).                                *)
(***************************************************************************)
ClientsOf(s) == {c \in Client : ServerOf(c) = s}
TotOf(s) == SplitTot(s, conf.clients, conf.servers)

\* A server serves as many clients as it is told, every servers-th one.
LEMMA Split ==
  ASSUME conf \in Confs, NEW s \in Server
  PROVE  IsFiniteSet(ClientsOf(s)) /\ Cardinality(ClientsOf(s)) = TotOf(s) /\ TotOf(s) \in Nat
<1>1. PICK S : S = conf.servers
  OBVIOUS
<1>2. PICK C : C = conf.clients
  OBVIOUS
<1>3. S \in Nat \ {0} /\ C \in Nat \ {0} /\ s \in 0..S - 1
  BY <1>1, <1>2, ServerFacts DEF Server
<1>4. PICK q, r : q = C \div S /\ r = C % S
  OBVIOUS
<1>5. q \in Nat /\ r \in 0..S - 1 /\ C = S * q + r
  BY <1>3, <1>4, DivMod
<1>6. PICK k : k = IF s < r THEN q + 1 ELSE q
  OBVIOUS
<1>7. k \in Nat /\ TotOf(s) = k
  <2>1. TotOf(s) = (C \div S) + (IF s < C % S THEN 1 ELSE 0)
    BY <1>1, <1>2 DEF TotOf, SplitTot
  <2>2. TotOf(s) = q + (IF s < r THEN 1 ELSE 0)
    BY <1>4, <2>1
  <2>3. s \in Int /\ r \in Int
    BY <1>3, <1>5
  <2> QED BY <1>5, <1>6, <2>2, <2>3
<1>8. ASSUME NEW i \in Int
      PROVE  S * i + s < S * q + r <=> i < k
  <2>1. S * i \in Int /\ S * q \in Int
    BY <1>3, <1>5
  <2>2. CASE i < q
    <3>1. S * i + S <= S * q
      BY <1>3, <1>5, <2>2, Times
    <3> QED BY <1>3, <1>5, <1>6, <2>1, <2>2, <3>1
  <2>3. CASE i = q
    BY <1>3, <1>5, <1>6, <2>1, <2>3
  <2>4. CASE i > q
    <3>1. S * q + S <= S * i
      BY <1>3, <1>5, <2>4, Times
    <3> QED BY <1>3, <1>5, <1>6, <2>1, <2>4, <3>1
  <2> QED BY <1>5, <2>2, <2>3, <2>4
<1>9. ASSUME NEW c
      PROVE  c \in ClientsOf(s) <=> \E i \in 0..k - 1 : c = S * i + s
  <2>1. c \in ClientsOf(s) <=> c \in 0..C - 1 /\ c % S = s
    BY <1>1, <1>2 DEF ClientsOf, Client, ServerOf
  <2>2. ASSUME c \in 0..C - 1, c % S = s
        PROVE  \E i \in 0..k - 1 : c = S * i + s
    <3>1. PICK i : i = c \div S
      OBVIOUS
    <3>2. c \in Nat /\ c < C
      BY <1>3, <2>2
    <3>3. i \in Nat /\ c = S * i + s
      BY <1>3, <2>2, <3>1, <3>2, DivMod
    <3>4. i < k
      BY <1>5, <1>8, <3>2, <3>3
    <3> QED BY <1>7, <3>3, <3>4
  <2>3. ASSUME NEW i \in 0..k - 1, c = S * i + s
        PROVE  c \in 0..C - 1 /\ c % S = s
    <3>1. i \in Nat /\ i < k
      BY <1>7
    <3>2. S * i \in Nat
      BY <1>3, <3>1
    <3>3. c \in Nat /\ c < C
      BY <1>3, <1>5, <1>8, <2>3, <3>1, <3>2
    <3>4. c \div S \in Nat /\ c % S \in 0..S - 1 /\ c = S * (c \div S) + (c % S)
      BY <1>3, <3>3, DivMod
    <3>5. c % S = s
      <4>1. PICK d, e : d = c \div S /\ e = c % S
        OBVIOUS
      <4>2. d \in Nat /\ e \in 0..S - 1 /\ S * i + s = S * d + e
        BY <2>3, <3>4, <4>1
      <4>3. i \in Int /\ d \in Int
        BY <3>1, <4>2
      <4>4. s = e
        BY <1>3, <4>2, <4>3, Division
      <4> QED BY <4>1, <4>4
    <3> QED BY <1>3, <3>3, <3>5
  <2> QED BY <2>1, <2>2, <2>3
<1> DEFINE f == [i \in 0..k - 1 |-> S * i + s]
<1>10. f \in Bijection(0..k - 1, ClientsOf(s))
  <2>1. f \in [0..k - 1 -> ClientsOf(s)] /\ \A c \in ClientsOf(s) : \E i \in 0..k - 1 : f[i] = c
    BY <1>9
  <2>2. ASSUME NEW i \in 0..k - 1, NEW j \in 0..k - 1, f[i] = f[j]
        PROVE  i = j
    <3>1. S * i + s = S * j + s /\ i \in Int /\ j \in Int
      BY <1>7, <2>2
    <3> QED BY <1>3, <3>1, Division
  <2> HIDE DEF f
  <2> QED BY <2>1, <2>2 DEF Bijection, Injection, Surjection, IsInjective
<1> HIDE DEF f
<1>11. IsFiniteSet(0..k - 1) /\ Cardinality(0..k - 1) = k
  <2>1. 0 \in Int /\ k - 1 \in Int
    BY <1>7
  <2>2. IsFiniteSet(0..k - 1) /\ Cardinality(0..k - 1) = IF 0 > k - 1 THEN 0 ELSE k - 1 - 0 + 1
    BY <2>1, FS_Interval
  <2> QED BY <1>7, <2>2
<1>12. IsFiniteSet(ClientsOf(s)) /\ Cardinality(ClientsOf(s)) = k
  BY <1>10, <1>11, FS_Bijection DEF ExistsBijection
<1> QED BY <1>7, <1>12

-----------------------------------------------------------------------------
(* The requests of one worker, and what it does: x is its queue, y is busy.*)

\* The report of a client that is past the last layer of the epoch.
Known(r) == r[1] \in Client /\ r[2] \in Int /\ 4 * r[2] + 1 < main[r[1]]
ReportOf(req) == <<req.client, req.epoch>>

RequestOK(s, req) ==
  /\ req.op = "INFO" => req.cnt = TotOf(s)
  /\ req.op = "EVAL" => ServerOf(req.client) = s /\ Known(ReportOf(req))

\* The reports that are not taken out of their requests yet.
Live(x, y) == {i \in 1..Len(x) : x[i].op = "EVAL" /\ (i = 1 => y.at = "idle")}
Waiting(x, y) == {ReportOf(x[i]) : i \in Live(x, y)}

QueueOK(s, x, y) ==
  /\ IsQueue(x)
  /\ y.at # "idle" => Len(x) > 0
  /\ y.at = "totals" => x[1].op = "INFO"
  /\ \A i \in 1..Len(x) : RequestOK(s, x[i])
  /\ \A i \in Live(x, y), j \in Live(x, y) : ReportOf(x[i]) = ReportOf(x[j]) => i = j

LEMMA QueueGets ==
  ASSUME NEW s, NEW x, NEW y, QueueOK(s, x, y), NEW m, RequestOK(s, m),
         m.op = "EVAL" => ReportOf(m) \notin Waiting(x, y)
  PROVE  /\ QueueOK(s, Append(x, m), y)
         /\ \A r \in Waiting(Append(x, m), y) : r \in Waiting(x, y) \/ (m.op = "EVAL" /\ r = ReportOf(m))
<1>1. PICK z : z = Append(x, m)
  OBVIOUS
<1>2. PICK n : n = Len(x)
  OBVIOUS
<1>3. /\ IsQueue(x) /\ n \in Nat /\ IsQueue(z) /\ Len(z) = n + 1
      /\ \A i \in 1..n : z[i] = x[i]
      /\ z[n + 1] = m
  BY <1>1, <1>2, QueueLen, QueueAppend DEF QueueOK
<1>4. ASSUME NEW i \in 1..Len(z)
      PROVE  i \in 1..n \/ i = n + 1
  BY <1>3
<1>5. \A i \in 1..Len(z) : RequestOK(s, z[i])
  BY <1>2, <1>3, <1>4 DEF QueueOK
<1>6. ASSUME NEW i \in Live(z, y)
      PROVE  (i \in Live(x, y) /\ z[i] = x[i]) \/ (i = n + 1 /\ z[i] = m /\ m.op = "EVAL")
  <2>1. i \in 1..Len(z) /\ z[i].op = "EVAL" /\ (i = 1 => y.at = "idle")
    BY DEF Live
  <2>2. CASE i \in 1..n
    BY <1>2, <1>3, <2>1, <2>2 DEF Live
  <2>3. CASE i = n + 1
    BY <1>3, <2>1, <2>3
  <2> QED BY <1>4, <2>1, <2>2, <2>3
<1>7. ASSUME NEW i \in Live(z, y), NEW j \in Live(z, y), ReportOf(z[i]) = ReportOf(z[j])
      PROVE  i = j
  <2>1. CASE i \in Live(x, y) /\ z[i] = x[i] /\ j \in Live(x, y) /\ z[j] = x[j]
    BY <1>7, <2>1 DEF QueueOK
  <2>2. CASE i \in Live(x, y) /\ z[i] = x[i] /\ j = n + 1 /\ z[j] = m /\ m.op = "EVAL"
    BY <1>7, <2>2 DEF Waiting
  <2>3. CASE j \in Live(x, y) /\ z[j] = x[j] /\ i = n + 1 /\ z[i] = m /\ m.op = "EVAL"
    BY <1>7, <2>3 DEF Waiting
  <2> QED BY <1>6, <2>1, <2>2, <2>3
<1>8. y.at # "idle" => Len(z) > 0
  BY <1>3
<1>9. y.at = "totals" => z[1].op = "INFO"
  <2> SUFFICES ASSUME y.at = "totals" PROVE z[1].op = "INFO"
    OBVIOUS
  <2>1. n > 0 /\ x[1].op = "INFO"
    BY <1>2 DEF QueueOK
  <2> QED BY <1>3, <2>1
<1>10. QueueOK(s, z, y)
  BY <1>3, <1>5, <1>7, <1>8, <1>9 DEF QueueOK
<1>11. \A r \in Waiting(z, y) : r \in Waiting(x, y) \/ (m.op = "EVAL" /\ r = ReportOf(m))
  <2>1. ASSUME NEW r \in Waiting(z, y)
        PROVE  r \in Waiting(x, y) \/ (m.op = "EVAL" /\ r = ReportOf(m))
    <3>1. PICK i \in Live(z, y) : r = ReportOf(z[i])
      BY DEF Waiting
    <3> QED BY <1>6, <3>1 DEF Waiting
  <2> QED BY <2>1
<1> QED BY <1>1, <1>10, <1>11

\* The worker is done with its request.
LEMMA QueueLoses ==
  ASSUME NEW s, NEW x, NEW y, QueueOK(s, x, y), x # <<>>, NEW z, z.at = "idle"
  PROVE  /\ QueueOK(s, Tail(x), z) /\ Waiting(Tail(x), z) \subseteq Waiting(x, y)
         /\ x[1].op = "EVAL" /\ y.at = "idle" => ReportOf(x[1]) \notin Waiting(Tail(x), z)
<1>1. PICK u : u = Tail(x)
  OBVIOUS
<1>2. PICK n : n = Len(x)
  OBVIOUS
<1>3. /\ IsQueue(x) /\ n \in Nat /\ n >= 1 /\ IsQueue(u) /\ Len(u) = n - 1
      /\ \A i \in 1..n - 1 : u[i] = x[i + 1]
  BY <1>1, <1>2, QueueLen, QueueTail DEF QueueOK
<1>4. \A i \in 1..Len(u) : i + 1 \in 1..n /\ i + 1 # 1 /\ u[i] = x[i + 1]
  BY <1>3
<1>5. \A i \in 1..Len(u) : RequestOK(s, u[i])
  BY <1>2, <1>4 DEF QueueOK
<1>6. \A i \in Live(u, z) : i \in Nat /\ i + 1 \in Live(x, y) /\ i + 1 # 1 /\ u[i] = x[i + 1]
  BY <1>2, <1>3, <1>4 DEF Live
<1>7. ASSUME NEW i \in Live(u, z), NEW j \in Live(u, z), ReportOf(u[i]) = ReportOf(u[j])
      PROVE  i = j
  <2>1. ReportOf(x[i + 1]) = ReportOf(x[j + 1])
    BY <1>6, <1>7
  <2>2. i + 1 = j + 1
    BY <1>6, <2>1 DEF QueueOK
  <2> QED BY <1>6, <2>2
<1>8. QueueOK(s, u, z)
  BY <1>3, <1>5, <1>7 DEF QueueOK
<1>9. Waiting(u, z) \subseteq Waiting(x, y)
  <2>1. ASSUME NEW r \in Waiting(u, z)
        PROVE  r \in Waiting(x, y)
    <3>1. PICK i \in Live(u, z) : r = ReportOf(u[i])
      BY DEF Waiting
    <3> QED BY <1>6, <3>1 DEF Waiting
  <2> QED BY <2>1
<1>10. x[1].op = "EVAL" /\ y.at = "idle" => ReportOf(x[1]) \notin Waiting(u, z)
  <2> SUFFICES ASSUME x[1].op = "EVAL", y.at = "idle", ReportOf(x[1]) \in Waiting(u, z) PROVE FALSE
    OBVIOUS
  <2>1. PICK i \in Live(u, z) : ReportOf(x[1]) = ReportOf(u[i])
    BY DEF Waiting
  <2>2. 1 \in Live(x, y)
    BY <1>2, <1>3 DEF Live
  <2>3. ReportOf(x[1]) = ReportOf(x[i + 1]) /\ i + 1 \in Live(x, y) /\ i + 1 # 1
    BY <1>6, <2>1
  <2> QED BY <2>2, <2>3 DEF QueueOK
<1> QED BY <1>1, <1>8, <1>9, <1>10

\* The worker goes on with its request.
LEMMA QueueServed ==
  ASSUME NEW s, NEW x, NEW y, QueueOK(s, x, y), x # <<>>, NEW z, z.at # "idle",
         z.at = "totals" => x[1].op = "INFO"
  PROVE  /\ QueueOK(s, x, z) /\ Waiting(x, z) \subseteq Waiting(x, y)
         /\ x[1].op = "EVAL" /\ y.at = "idle" => ReportOf(x[1]) \notin Waiting(x, z)
<1>1. IsQueue(x) /\ Len(x) \in Nat /\ Len(x) >= 1
  BY QueueLen, QueueTail DEF QueueOK
<1>2. \A i \in Live(x, z) : i \in Live(x, y) /\ i # 1
  BY DEF Live
<1>3. QueueOK(s, x, z)
  BY <1>1, <1>2 DEF QueueOK
<1>4. Waiting(x, z) \subseteq Waiting(x, y)
  BY <1>2 DEF Waiting
<1>5. x[1].op = "EVAL" /\ y.at = "idle" => ReportOf(x[1]) \notin Waiting(x, z)
  <2> SUFFICES ASSUME x[1].op = "EVAL", y.at = "idle", ReportOf(x[1]) \in Waiting(x, z) PROVE FALSE
    OBVIOUS
  <2>1. PICK i \in Live(x, z) : ReportOf(x[1]) = ReportOf(x[i])
    BY DEF Waiting
  <2>2. 1 \in Live(x, y)
    BY <1>1 DEF Live
  <2> QED BY <1>2, <2>1, <2>2 DEF QueueOK
<1> QED BY <1>3, <1>4, <1>5

-----------------------------------------------------------------------------
(* The places of reports, and the invariant.                               *)

\* A sum of s has one report of each of its clients, and no others.
Own(s, S) == \A r \in S : r[1] \in ClientsOf(s) /\ \A q \in S : q[1] = r[1] => q = r
Full(s, S) == \A c \in ClientsOf(s) : \E r \in S : r[1] = c
SumOK(s, S) == Own(s, S) /\ ("early" \notin flaws => Full(s, S))

\* The sums on the way in q, a channel from s to server 0.
Sums(q) == {i \in 1..Len(q) : q[i].kind = "ACCLOSS"}
Underway(q) == UNION {q[i].sum : i \in Sums(q)}
ChanOK(s, q) ==
  /\ \A i \in Sums(q) : SumOK(s, q[i].sum)
  /\ \A i \in Sums(q), j \in Sums(q) : i # j => q[i].sum \cap q[j].sum = {}

Gathered(T) == UNION {x.sum : x \in T}
TableOK(T) ==
  \A x \in T : x.node \in Server /\ SumOK(x.node, x.sum) /\ \A y \in T : y.node = x.node => x = y

Whole(S) == \A c \in Client : Cardinality({r \in S : r[1] = c}) = 1
LoggedIn(L) == UNION {L[i] : i \in 1..Len(L)}
LogOK(L) ==
  /\ IsQueue(L)
  /\ \A i \in 1..Len(L) : "early" \notin flaws => Whole(L[i])
  /\ \A i \in 1..Len(L), j \in 1..Len(L) : i # j => L[i] \cap L[j] = {}

\* The sum that a worker has made.
SumOf(b) == IF b.at = "report" THEN b.sum ELSE {}
ThreadOK(s, b) == b.at = "report" => SumOK(s, b.sum)

Spot ==
  ({"queue"} \X Server \X Worker) \cup ({"sum"} \X Server \X Threads)
    \cup ({"acc", "net"} \X Server \X {0}) \cup {<<"ws", 0, 0>>, <<"log", 0, 0>>}

Reports(p) ==
  IF p[1] = "queue" THEN Waiting(queue[p[2]][p[3]], busy[p[2]][p[3]])
  ELSE IF p[1] = "sum" THEN SumOf(busy[p[2]][p[3]])
  ELSE IF p[1] = "acc" THEN accTable[p[2]]
  ELSE IF p[1] = "net" THEN Underway(net[p[2]][0])
  ELSE IF p[1] = "ws" THEN Gathered(wsAccTable)
  ELSE LoggedIn(logged)

\* No report is in two places, and all have been sent.
Apart ==
  \A p \in Spot : \A r \in Reports(p) : Known(r) /\ \A q \in Spot : r \in Reports(q) => q = p

QueueTypes == DOMAIN queue = Server /\ \A s \in Server : DOMAIN queue[s] = Worker
BusyTypes == DOMAIN busy = Server /\ \A s \in Server : DOMAIN busy[s] = Threads
RestTypes == DOMAIN accTable = Server /\ DOMAIN tot = Server /\ main \in [Client -> Int]

QueuesOK == QueueTypes /\ \A s \in Server : \A w \in Worker : QueueOK(s, queue[s][w], busy[s][w])
ThreadsOK == BusyTypes /\ \A s \in Server : \A t \in Threads : ThreadOK(s, busy[s][t])
TotsOK == \A s \in Server : tot[s] \in {Unset, TotOf(s)}
AccOK == \A s \in Server : Own(s, accTable[s])
ChansOK == \A s \in Server : ChanOK(s, net[s][0])

RepInv ==
  /\ RestTypes
  /\ QueuesOK /\ ThreadsOK /\ TotsOK /\ AccOK /\ ChansOK /\ TableOK(wsAccTable) /\ LogOK(logged)
  /\ Apart

\* What every step does.
Onward ==
  /\ conf' = conf /\ flaws \subseteq flaws' /\ main' \in [Client -> Int]
  /\ \A c \in Client : main[c] <= main'[c]

LEMMA ReportsAt ==
  ASSUME NEW s, NEW w
  PROVE  /\ Reports(<<"queue", s, w>>) = Waiting(queue[s][w], busy[s][w])
         /\ Reports(<<"sum", s, w>>) = SumOf(busy[s][w])
         /\ Reports(<<"acc", s, w>>) = accTable[s]
         /\ Reports(<<"net", s, w>>) = Underway(net[s][0])
         /\ Reports(<<"ws", s, w>>) = Gathered(wsAccTable)
         /\ Reports(<<"log", s, w>>) = LoggedIn(logged)
BY DEF Reports

LEMMA ReportsAtNext ==
  ASSUME NEW s, NEW w
  PROVE  /\ Reports(<<"queue", s, w>>)' = Waiting(queue'[s][w], busy'[s][w])
         /\ Reports(<<"sum", s, w>>)' = SumOf(busy'[s][w])
         /\ Reports(<<"acc", s, w>>)' = accTable'[s]
         /\ Reports(<<"net", s, w>>)' = Underway(net'[s][0])
         /\ Reports(<<"ws", s, w>>)' = Gathered(wsAccTable')
         /\ Reports(<<"log", s, w>>)' = LoggedIn(logged')
BY DEF Reports

LEMMA SpotsAre ==
  ASSUME NEW p \in Spot
  PROVE  \/ \E s \in Server, w \in Worker : p = <<"queue", s, w>>
         \/ \E s \in Server, t \in Threads : p = <<"sum", s, t>>
         \/ \E s \in Server : p = <<"acc", s, 0>> \/ p = <<"net", s, 0>>
         \/ p = <<"ws", 0, 0>> \/ p = <<"log", 0, 0>>
BY DEF Spot

LEMMA SpotsIn ==
  /\ \A s \in Server, w \in Worker : <<"queue", s, w>> \in Spot
  /\ \A s \in Server, t \in Threads : <<"sum", s, t>> \in Spot
  /\ \A s \in Server : <<"acc", s, 0>> \in Spot /\ <<"net", s, 0>> \in Spot
  /\ <<"ws", 0, 0>> \in Spot /\ <<"log", 0, 0>> \in Spot
BY DEF Spot

LEMMA KnownStays ==
  ASSUME Onward, main \in [Client -> Int], NEW r, Known(r)
  PROVE  Known(r)'
<1>1. r[1] \in Client /\ r[2] \in Int /\ Client' = Client
  BY DEF Known, Onward, Client
<1>2. PICK e : e = r[2]
  OBVIOUS
<1>3. PICK m, n : m = main[r[1]] /\ n = main'[r[1]]
  OBVIOUS
<1>4. m \in Int /\ n \in Int /\ m <= n
  BY <1>1, <1>3 DEF Onward
<1>5. 4 * e + 1 < m
  BY <1>2, <1>3 DEF Known
<1>6. 4 * e + 1 < n
  BY <1>1, <1>2, <1>4, <1>5
<1> QED BY <1>1, <1>2, <1>3, <1>6 DEF Known

\* The clients and servers are those of the configuration.
LEMMA SameConf ==
  ASSUME conf' = conf
  PROVE  /\ Server' = Server /\ Client' = Client /\ Spot' = Spot
         /\ \A s : ClientsOf(s)' = ClientsOf(s) /\ TotOf(s)' = TotOf(s)
         /\ \A c : ServerOf(c)' = ServerOf(c)
<1>1. Server' = Server /\ Client' = Client
  BY DEF Server, Client
<1>2. Spot' = Spot
  BY <1>1 DEF Spot, Threads, Worker, Receiver
<1>3. \A c : ServerOf(c)' = ServerOf(c)
  BY DEF ServerOf
<1>4. \A s : TotOf(s)' = TotOf(s)
  BY DEF TotOf, SplitTot
<1>5. ASSUME NEW s PROVE ClientsOf(s)' = ClientsOf(s)
  BY <1>1, <1>3 DEF ClientsOf
<1> QED BY <1>1, <1>2, <1>3, <1>4, <1>5

LEMMA QueueStays ==
  ASSUME Onward, main \in [Client -> Int], NEW s, NEW x, NEW y, QueueOK(s, x, y)
  PROVE  QueueOK(s, x, y)'
<1>1. ASSUME NEW req, RequestOK(s, req)
      PROVE  RequestOK(s, req)'
  <2>1. req.op = "EVAL" => Known(ReportOf(req))'
    BY <1>1, KnownStays DEF RequestOK
  <2>2. conf' = conf
    BY DEF Onward
  <2>3. ServerOf(req.client)' = ServerOf(req.client) /\ TotOf(s)' = TotOf(s)
    BY <2>2, SameConf
  <2>4. Known(ReportOf(req))' <=> Known(<<req.client, req.epoch>>)'
    BY DEF ReportOf
  <2> QED BY <1>1, <2>1, <2>3, <2>4 DEF RequestOK
<1>2. \A i \in 1..Len(x) : RequestOK(s, x[i])'
  BY <1>1 DEF QueueOK
<1>3. Live(x, y)' = Live(x, y) /\ \A req : ReportOf(req)' = ReportOf(req)
  OBVIOUS
<1> QED BY <1>2, <1>3 DEF QueueOK

LEMMA SumStays ==
  ASSUME Onward, NEW s, NEW S
  PROVE  /\ Own(s, S) => Own(s, S)'
         /\ SumOK(s, S) => SumOK(s, S)'
<1>1. ClientsOf(s)' = ClientsOf(s) /\ flaws \subseteq flaws'
  BY SameConf DEF Onward
<1>2. Own(s, S) => Own(s, S)'
  BY <1>1 DEF Own
<1>3. Full(s, S) => Full(s, S)'
  BY <1>1 DEF Full
<1> QED BY <1>1, <1>2, <1>3 DEF SumOK

LEMMA ThreadStays ==
  ASSUME Onward, NEW s, NEW b, ThreadOK(s, b)
  PROVE  ThreadOK(s, b)'
BY SumStays DEF ThreadOK

LEMMA ChanStays ==
  ASSUME Onward, NEW s, NEW q, ChanOK(s, q)
  PROVE  ChanOK(s, q)'
<1>1. \A i \in Sums(q) : SumOK(s, q[i].sum)'
  BY SumStays DEF ChanOK
<1>2. Sums(q)' = Sums(q)
  OBVIOUS
<1> QED BY <1>1, <1>2 DEF ChanOK

LEMMA TableStays ==
  ASSUME Onward, NEW T, TableOK(T)
  PROVE  TableOK(T)'
<1>1. Server' = Server
  BY SameConf DEF Onward
<1>2. \A x \in T : SumOK(x.node, x.sum)'
  BY SumStays DEF TableOK
<1> QED BY <1>1, <1>2 DEF TableOK

LEMMA LogStays ==
  ASSUME Onward, NEW L, LogOK(L)
  PROVE  LogOK(L)'
<1>1. Client' = Client /\ flaws \subseteq flaws'
  BY SameConf DEF Onward
<1>2. \A S : Whole(S) => Whole(S)'
  BY <1>1 DEF Whole
<1> QED BY <1>1, <1>2 DEF LogOK

-----------------------------------------------------------------------------
(* Steps: what they leave alone, and what reports move.                    *)

LEMMA Kept ==
  ASSUME RepInv, Onward
  PROVE  /\ UNCHANGED <<queue, busy>> => QueuesOK'
         /\ UNCHANGED busy => ThreadsOK'
         /\ UNCHANGED tot => TotsOK'
         /\ UNCHANGED accTable => AccOK'
         /\ UNCHANGED net => ChansOK'
         /\ UNCHANGED wsAccTable => TableOK(wsAccTable)'
         /\ UNCHANGED logged => LogOK(logged)'
         /\ DOMAIN accTable' = Server /\ DOMAIN tot' = Server => RestTypes'
<1>1. conf' = conf /\ main \in [Client -> Int] /\ main' \in [Client -> Int]
  BY DEF RepInv, RestTypes, Onward
<1>2. /\ Server' = Server /\ Client' = Client /\ Worker' = Worker /\ Threads' = Threads
      /\ \A s : TotOf(s)' = TotOf(s)
  BY <1>1, SameConf DEF Worker, Threads, Receiver
<1>3. ASSUME UNCHANGED <<queue, busy>> PROVE QueuesOK'
  <2>1. \A s \in Server : \A w \in Worker : QueueOK(s, queue[s][w], busy[s][w])
    BY DEF RepInv, QueuesOK
  <2>2. \A s \in Server : \A w \in Worker : QueueOK(s, queue[s][w], busy[s][w])'
    <3> TAKE s \in Server
    <3> TAKE w \in Worker
    <3>1. PICK x, y : x = queue[s][w] /\ y = busy[s][w]
      OBVIOUS
    <3>2. QueueOK(s, x, y)'
      BY <1>1, <2>1, <3>1, QueueStays
    <3> QED BY <1>3, <3>1, <3>2
  <2>3. QueueTypes'
    BY <1>2, <1>3 DEF RepInv, QueuesOK, QueueTypes
  <2> QED BY <1>2, <2>2, <2>3 DEF QueuesOK
<1>4. ASSUME UNCHANGED busy PROVE ThreadsOK'
  <2>1. \A s \in Server : \A t \in Threads : ThreadOK(s, busy[s][t])'
    <3> TAKE s \in Server
    <3> TAKE t \in Threads
    <3>1. PICK y : y = busy[s][t]
      OBVIOUS
    <3>2. ThreadOK(s, y)'
      BY <3>1, ThreadStays DEF RepInv, ThreadsOK
    <3> QED BY <1>4, <3>1, <3>2
  <2>2. BusyTypes'
    BY <1>2, <1>4 DEF RepInv, ThreadsOK, BusyTypes
  <2> QED BY <1>2, <2>1, <2>2 DEF ThreadsOK
<1>5. ASSUME UNCHANGED tot PROVE TotsOK'
  BY <1>2, <1>5 DEF RepInv, TotsOK, Unset
<1>6. ASSUME UNCHANGED accTable PROVE AccOK'
  <2>1. \A s \in Server : Own(s, accTable[s])'
    <3> TAKE s \in Server
    <3>1. PICK S : S = accTable[s]
      OBVIOUS
    <3>2. Own(s, S)'
      BY <3>1, SumStays DEF RepInv, AccOK
    <3> QED BY <1>6, <3>1, <3>2
  <2> QED BY <1>2, <2>1 DEF AccOK
<1>7. ASSUME UNCHANGED net PROVE ChansOK'
  <2>1. \A s \in Server : ChanOK(s, net[s][0])'
    <3> TAKE s \in Server
    <3>1. PICK q : q = net[s][0]
      OBVIOUS
    <3>2. ChanOK(s, q)'
      BY <3>1, ChanStays DEF RepInv, ChansOK
    <3> QED BY <1>7, <3>1, <3>2
  <2> QED BY <1>2, <2>1 DEF ChansOK
<1>8. ASSUME UNCHANGED wsAccTable PROVE TableOK(wsAccTable)'
  <2>1. PICK T : T = wsAccTable
    OBVIOUS
  <2>2. TableOK(T)'
    BY <2>1, TableStays DEF RepInv
  <2> QED BY <1>8, <2>1, <2>2
<1>9. ASSUME UNCHANGED logged PROVE LogOK(logged)'
  <2>1. PICK L : L = logged
    OBVIOUS
  <2>2. LogOK(L)'
    BY <2>1, LogStays DEF RepInv
  <2> QED BY <1>9, <2>1, <2>2
<1>10. ASSUME DOMAIN accTable' = Server, DOMAIN tot' = Server PROVE RestTypes'
  BY <1>1, <1>2, <1>10 DEF RestTypes
<1> QED BY <1>3, <1>4, <1>5, <1>6, <1>7, <1>8, <1>9, <1>10

\* At the places other than a there is nothing new.
LessQueues(a) ==
  \A s \in Server, w \in Worker : <<"queue", s, w>> # a =>
    Waiting(queue'[s][w], busy'[s][w]) \subseteq Waiting(queue[s][w], busy[s][w])
LessSums(a) ==
  \A s \in Server, t \in Threads : <<"sum", s, t>> # a => SumOf(busy'[s][t]) \subseteq SumOf(busy[s][t])
LessAcc(a) == \A s \in Server : <<"acc", s, 0>> # a => accTable'[s] \subseteq accTable[s]
LessNet(a) ==
  \A s \in Server : <<"net", s, 0>> # a => Underway(net'[s][0]) \subseteq Underway(net[s][0])
LessTable(a) == <<"ws", 0, 0>> # a => Gathered(wsAccTable') \subseteq Gathered(wsAccTable)
LessLog(a) == <<"log", 0, 0>> # a => LoggedIn(logged') \subseteq LoggedIn(logged)
Less(a) == LessQueues(a) /\ LessSums(a) /\ LessAcc(a) /\ LessNet(a) /\ LessTable(a) /\ LessLog(a)

\* r comes to a from another place, or is a new one.
Came(r, a) ==
  \/ r \in Reports(a)
  \/ \E d \in Spot : r \in Reports(d) /\ r \notin Reports(d)'
  \/ Known(r)' /\ \A d \in Spot : r \notin Reports(d)

LEMMA LessAt ==
  ASSUME NEW a, Less(a), NEW p \in Spot, p # a
  PROVE  Reports(p)' \subseteq Reports(p)
<1>1. ASSUME NEW s \in Server, NEW w \in Worker, p = <<"queue", s, w>>
      PROVE  Reports(p)' \subseteq Reports(p)
  <2>1. Reports(p) = Waiting(queue[s][w], busy[s][w]) /\ Reports(p)' = Waiting(queue'[s][w], busy'[s][w])
    BY <1>1, ReportsAt, ReportsAtNext
  <2>2. Waiting(queue'[s][w], busy'[s][w]) \subseteq Waiting(queue[s][w], busy[s][w])
    BY <1>1 DEF Less, LessQueues
  <2> QED BY <2>1, <2>2
<1>2. ASSUME NEW s \in Server, NEW t \in Threads, p = <<"sum", s, t>>
      PROVE  Reports(p)' \subseteq Reports(p)
  <2>1. Reports(p) = SumOf(busy[s][t]) /\ Reports(p)' = SumOf(busy'[s][t])
    BY <1>2, ReportsAt, ReportsAtNext
  <2>2. SumOf(busy'[s][t]) \subseteq SumOf(busy[s][t])
    BY <1>2 DEF Less, LessSums
  <2> QED BY <2>1, <2>2
<1>3. ASSUME NEW s \in Server, p = <<"acc", s, 0>>
      PROVE  Reports(p)' \subseteq Reports(p)
  <2>1. Reports(p) = accTable[s] /\ Reports(p)' = accTable'[s]
    BY <1>3, ReportsAt, ReportsAtNext
  <2>2. accTable'[s] \subseteq accTable[s]
    BY <1>3 DEF Less, LessAcc
  <2> QED BY <2>1, <2>2
<1>4. ASSUME NEW s \in Server, p = <<"net", s, 0>>
      PROVE  Reports(p)' \subseteq Reports(p)
  <2>1. Reports(p) = Underway(net[s][0]) /\ Reports(p)' = Underway(net'[s][0])
    BY <1>4, ReportsAt, ReportsAtNext
  <2>2. Underway(net'[s][0]) \subseteq Underway(net[s][0])
    BY <1>4 DEF Less, LessNet
  <2> QED BY <2>1, <2>2
<1>5. ASSUME p = <<"ws", 0, 0>>
      PROVE  Reports(p)' \subseteq Reports(p)
  <2>1. Reports(p) = Gathered(wsAccTable) /\ Reports(p)' = Gathered(wsAccTable')
    BY <1>5, ReportsAt, ReportsAtNext
  <2>2. Gathered(wsAccTable') \subseteq Gathered(wsAccTable)
    BY <1>5 DEF Less, LessTable
  <2> QED BY <2>1, <2>2
<1>6. ASSUME p = <<"log", 0, 0>>
      PROVE  Reports(p)' \subseteq Reports(p)
  <2>1. Reports(p) = LoggedIn(logged) /\ Reports(p)' = LoggedIn(logged')
    BY <1>6, ReportsAt, ReportsAtNext
  <2>2. LoggedIn(logged') \subseteq LoggedIn(logged)
    BY <1>6 DEF Less, LessLog
  <2> QED BY <2>1, <2>2
<1> QED BY <1>1, <1>2, <1>3, <1>4, <1>5, <1>6, SpotsAre

LEMMA Moves ==
  ASSUME RepInv, Onward, NEW a \in Spot, Less(a), \A r \in Reports(a)' : Came(r, a)
  PROVE  Apart'
<1>1. Apart /\ main \in [Client -> Int] /\ Spot' = Spot
  BY SameConf DEF RepInv, RestTypes, Onward
<1>2. \A p \in Spot : p # a => Reports(p)' \subseteq Reports(p)
  BY LessAt
<1>3. \A r : Known(r) => Known(r)'
  BY <1>1, KnownStays
<1>4. ASSUME NEW p \in Spot, NEW r \in Reports(p)'
      PROVE  Known(r)'
  <2>1. CASE p = a
    BY <1>1, <1>3, <1>4, <2>1 DEF Came, Apart
  <2>2. CASE p # a
    BY <1>1, <1>2, <1>3, <1>4, <2>2 DEF Apart
  <2> QED BY <2>1, <2>2
<1>5. ASSUME NEW p \in Spot, p # a, NEW r \in Reports(p)'
      PROVE  r \notin Reports(a)'
  <2> SUFFICES ASSUME r \in Reports(a)' PROVE FALSE
    OBVIOUS
  <2>1. r \in Reports(p)
    BY <1>2, <1>5
  <2>2. CASE r \in Reports(a)
    BY <1>1, <1>5, <2>1, <2>2 DEF Apart
  <2>3. ASSUME NEW d \in Spot, r \in Reports(d), r \notin Reports(d)'
        PROVE  FALSE
    <3>1. d = p
      BY <1>1, <2>1, <2>3 DEF Apart
    <3> QED BY <1>5, <2>3, <3>1
  <2> QED BY <2>1, <2>2, <2>3 DEF Came
<1>6. ASSUME NEW p \in Spot, NEW q \in Spot, NEW r \in Reports(p)', r \in Reports(q)'
      PROVE  q = p
  <2>1. CASE p # a /\ q # a
    BY <1>1, <1>2, <1>6, <2>1 DEF Apart
  <2> QED BY <1>5, <1>6, <2>1
<1>7. \A p \in Spot : \A r \in Reports(p)' : Known(r)' /\ \A q \in Spot : r \in Reports(q)' => q = p
  BY <1>4, <1>6
<1> QED BY <1>1, <1>7 DEF Apart

LEMMA NothingNew ==
  ASSUME RepInv, Onward, \A a : Less(a)
  PROVE  Apart'
<1>1. PICK a : a = <<"log", 0, 0>>
  OBVIOUS
<1>2. a \in Spot /\ Less(a) /\ a # <<"ws", 0, 0>>
  BY <1>1, SpotsIn
<1>3. Less(<<"ws", 0, 0>>)
  OBVIOUS
<1>4. \A r \in Reports(a)' : Came(r, a)
  BY <1>2, <1>3, LessAt DEF Came
<1> QED BY <1>2, <1>4, Moves

\* Variables that do not change give nothing new.
LEMMA LessKept ==
  ASSUME NEW a
  PROVE  /\ UNCHANGED <<queue, busy>> => LessQueues(a)
         /\ UNCHANGED busy => LessSums(a)
         /\ UNCHANGED accTable => LessAcc(a)
         /\ UNCHANGED net => LessNet(a)
         /\ UNCHANGED wsAccTable => LessTable(a)
         /\ UNCHANGED logged => LessLog(a)
BY DEF LessQueues, LessSums, LessAcc, LessNet, LessTable, LessLog

-----------------------------------------------------------------------------
(* Requests are made and served.                                           *)

\* The requests of the worker are x, and it is at b.
LEMMA WorkerStep ==
  ASSUME RepInv, Onward, NEW s \in Server, NEW t \in Threads, NEW b, Goto(s, t, b), NEW x,
         QueueTypes',
         \A u \in Server, v \in Worker : queue'[u][v] = IF u = s /\ v = t THEN x ELSE queue[u][v],
         t \in Worker => QueueOK(s, x, b), ThreadOK(s, b)'
  PROVE  /\ QueuesOK' /\ ThreadsOK'
         /\ \A a : (t \in Worker /\ a # <<"queue", s, t>>
                      => Waiting(x, b) \subseteq Waiting(queue[s][t], busy[s][t])) => LessQueues(a)
         /\ \A a : (a # <<"sum", s, t>> => SumOf(b) \subseteq SumOf(busy[s][t])) => LessSums(a)
<1>1. /\ BusyTypes /\ QueuesOK /\ ThreadsOK /\ main \in [Client -> Int] /\ conf' = conf
      /\ Worker \subseteq Threads
  BY DEF RepInv, QueuesOK, ThreadsOK, RestTypes, Onward, Threads
<1>2. Server' = Server /\ Worker' = Worker /\ Threads' = Threads
  BY <1>1, SameConf DEF Worker, Threads, Receiver
<1>3. /\ DOMAIN busy' = Server
      /\ \A u \in Server : DOMAIN busy'[u] = Threads
      /\ \A u \in Server, v \in Threads : busy'[u][v] = IF u = s /\ v = t THEN b ELSE busy[u][v]
  <2>1. DOMAIN busy = Server /\ \A u \in Server : DOMAIN busy[u] = Threads
    BY <1>1 DEF BusyTypes
  <2>2. PICK c : c = busy'
    OBVIOUS
  <2>3. c = [busy EXCEPT ![s][t] = b]
    BY <2>2 DEF Goto
  <2>4. /\ DOMAIN c = Server
        /\ \A u \in Server : DOMAIN c[u] = Threads
        /\ \A u \in Server, v \in Threads : c[u][v] = IF u = s /\ v = t THEN b ELSE busy[u][v]
    BY <2>1, <2>3, TwoLevels
  <2> QED BY <2>2, <2>4
<1>4. ASSUME NEW u \in Server, NEW v \in Worker
      PROVE  QueueOK(u, queue[u][v], busy[u][v])'
  <2>1. PICK y, c : y = queue'[u][v] /\ c = busy'[u][v]
    OBVIOUS
  <2>2. QueueOK(u, y, c)
    <3>1. CASE u = s /\ v = t
      BY <1>1, <1>3, <2>1, <3>1
    <3>2. CASE ~(u = s /\ v = t)
      <4>1. y = queue[u][v] /\ c = busy[u][v]
        BY <1>1, <1>3, <2>1, <3>2
      <4> QED BY <1>1, <4>1 DEF QueuesOK
    <3> QED BY <3>1, <3>2
  <2>3. QueueOK(u, y, c)'
    BY <1>1, <2>2, QueueStays
  <2> QED BY <2>1, <2>3
<1>5. QueuesOK'
  BY <1>2, <1>4 DEF QueuesOK
<1>6. ASSUME NEW u \in Server, NEW v \in Threads
      PROVE  ThreadOK(u, busy[u][v])'
  <2>1. PICK c : c = busy'[u][v]
    OBVIOUS
  <2>2. CASE u = s /\ v = t
    BY <1>3, <2>1, <2>2
  <2>3. CASE ~(u = s /\ v = t)
    <3>1. c = busy[u][v]
      BY <1>3, <2>1, <2>3
    <3>2. ThreadOK(u, c)'
      BY <1>1, <3>1, ThreadStays DEF ThreadsOK
    <3> QED BY <2>1, <3>2
  <2> QED BY <2>2, <2>3
<1>7. ThreadsOK'
  BY <1>2, <1>3, <1>6 DEF ThreadsOK, BusyTypes
<1>8. ASSUME NEW a, t \in Worker /\ a # <<"queue", s, t>>
                      => Waiting(x, b) \subseteq Waiting(queue[s][t], busy[s][t])
      PROVE  LessQueues(a)
  <2>1. ASSUME NEW u \in Server, NEW v \in Worker, <<"queue", u, v>> # a
        PROVE  Waiting(queue'[u][v], busy'[u][v]) \subseteq Waiting(queue[u][v], busy[u][v])
    <3>1. CASE u = s /\ v = t
      <4>1. queue'[u][v] = x /\ busy'[u][v] = b
        BY <1>1, <1>3, <3>1
      <4> QED BY <1>8, <2>1, <3>1, <4>1
    <3>2. CASE ~(u = s /\ v = t)
      <4>1. queue'[u][v] = queue[u][v] /\ busy'[u][v] = busy[u][v]
        BY <1>1, <1>3, <3>2
      <4> QED BY <4>1
    <3> QED BY <3>1, <3>2
  <2> QED BY <2>1 DEF LessQueues
<1>9. ASSUME NEW a, a # <<"sum", s, t>> => SumOf(b) \subseteq SumOf(busy[s][t])
      PROVE  LessSums(a)
  <2>1. ASSUME NEW u \in Server, NEW v \in Threads, <<"sum", u, v>> # a
        PROVE  SumOf(busy'[u][v]) \subseteq SumOf(busy[u][v])
    BY <1>3, <1>9, <2>1
  <2> QED BY <2>1 DEF LessSums
<1> QED BY <1>5, <1>7, <1>8, <1>9

\* It goes on with its request.
LEMMA GoesOn ==
  ASSUME RepInv, Onward, NEW s \in Server, NEW t \in Threads, NEW b, Goto(s, t, b), UNCHANGED queue,
         t \in Worker => queue[s][t] # <<>>, b.at # "idle",
         b.at = "totals" => t \in Worker /\ queue[s][t][1].op = "INFO", ThreadOK(s, b)'
  PROVE  /\ QueuesOK' /\ ThreadsOK' /\ \A a : LessQueues(a)
         /\ \A a : (b.at = "report" => a = <<"sum", s, t>>) => LessSums(a)
<1>1. PICK x : x = queue[s][t]
  OBVIOUS
<1>2. \A u \in Server, v \in Worker : queue'[u][v] = IF u = s /\ v = t THEN x ELSE queue[u][v]
  BY <1>1
<1>3. QueueTypes'
  BY SameConf DEF RepInv, QueuesOK, QueueTypes, Onward, Worker
<1>4. t \in Worker => QueueOK(s, x, busy[s][t]) /\ x # <<>>
  BY <1>1 DEF RepInv, QueuesOK
<1>5. t \in Worker => QueueOK(s, x, b) /\ Waiting(x, b) \subseteq Waiting(x, busy[s][t])
  BY <1>1, <1>4, QueueServed
<1>6. ASSUME NEW a, b.at = "report" => a = <<"sum", s, t>>
      PROVE  a # <<"sum", s, t>> => SumOf(b) \subseteq SumOf(busy[s][t])
  BY <1>6 DEF SumOf
<1> QED BY <1>1, <1>2, <1>3, <1>5, <1>6, WorkerStep

\* It is done.
LEMMA Finishes ==
  ASSUME RepInv, Onward, NEW s \in Server, NEW t \in Threads, Finish(s, t),
         t \in Worker => queue[s][t] # <<>>
  PROVE  QueuesOK' /\ ThreadsOK' /\ \A a : LessQueues(a) /\ LessSums(a)
<1>1. PICK b : b = [at |-> "idle"]
  OBVIOUS
<1>2. b.at = "idle" /\ Goto(s, t, b)
  BY <1>1 DEF Finish
<1>3. PICK x : x = Tail(queue[s][t])
  OBVIOUS
<1>4. ThreadOK(s, b)' /\ SumOf(b) = {}
  BY <1>2 DEF ThreadOK, SumOf
<1>5. t \in Worker => t # Receiver
  BY ServersOK DEF Worker, Receiver
<1>6. Server' = Server /\ Worker' = Worker /\ DOMAIN queue = Server /\ \A u \in Server : DOMAIN queue[u] = Worker
  BY SameConf DEF Onward, Worker, RepInv, QueuesOK, QueueTypes
<1>7. PICK q : q = queue'
  OBVIOUS
<1>8. /\ DOMAIN q = Server /\ \A u \in Server : DOMAIN q[u] = Worker
      /\ \A u \in Server, v \in Worker : q[u][v] = IF u = s /\ v = t THEN x ELSE queue[u][v]
  <2>1. CASE t = Receiver
    BY <1>5, <1>6, <1>7, <2>1 DEF Finish
  <2>2. CASE t # Receiver
    <3>1. q = [queue EXCEPT ![s][t] = x]
      BY <1>3, <1>7, <2>2 DEF Finish
    <3> QED BY <1>6, <3>1, TwoLevels
  <2> QED BY <2>1, <2>2
<1>9. QueueTypes' /\ \A u \in Server, v \in Worker : queue'[u][v] = IF u = s /\ v = t THEN x ELSE queue[u][v]
  BY <1>6, <1>7, <1>8 DEF QueueTypes
<1>10. t \in Worker => QueueOK(s, x, b) /\ Waiting(x, b) \subseteq Waiting(queue[s][t], busy[s][t])
  <2> SUFFICES ASSUME t \in Worker PROVE QueueOK(s, x, b) /\ Waiting(x, b) \subseteq Waiting(queue[s][t], busy[s][t])
    OBVIOUS
  <2>1. PICK y, c : y = queue[s][t] /\ c = busy[s][t]
    OBVIOUS
  <2>2. QueueOK(s, y, c) /\ y # <<>>
    BY <2>1 DEF RepInv, QueuesOK
  <2> QED BY <1>2, <1>3, <2>1, <2>2, QueueLoses
<1>11. \A a : SumOf(b) \subseteq SumOf(busy[s][t])
  BY <1>4
<1> QED BY <1>2, <1>4, <1>9, <1>10, <1>11, WorkerStep

LEMMA QueueGetsAll ==
  \A s, x, y, m :
    QueueOK(s, x, y) /\ RequestOK(s, m) /\ (m.op = "EVAL" => ReportOf(m) \notin Waiting(x, y)) =>
      QueueOK(s, Append(x, m), y)
BY QueueGets

LEMMA QueueGetsNext ==
  (\A s, x, y, m :
    QueueOK(s, x, y) /\ RequestOK(s, m) /\ (m.op = "EVAL" => ReportOf(m) \notin Waiting(x, y)) =>
      QueueOK(s, Append(x, m), y))'
BY QueueGetsAll, PTL

LEMMA WaitsMore ==
  ASSUME NEW s, NEW x, NEW y, QueueOK(s, x, y), NEW m, NEW r \in Waiting(Append(x, m), y)
  PROVE  r \in Waiting(x, y) \/ (m.op = "EVAL" /\ r = ReportOf(m))
<1>1. PICK n : n = Len(x)
  OBVIOUS
<1>2. PICK z : z = Append(x, m)
  OBVIOUS
<1>3. n \in Nat /\ Len(z) = n + 1 /\ z[n + 1] = m /\ \A i \in 1..n : z[i] = x[i]
  BY <1>1, <1>2, QueueLen, QueueAppend DEF QueueOK
<1>4. PICK i \in Live(z, y) : r = ReportOf(z[i])
  BY <1>2 DEF Waiting
<1>5. i \in 1..n + 1 /\ z[i].op = "EVAL" /\ (i = 1 => y.at = "idle")
  BY <1>3, <1>4 DEF Live
<1>6. CASE i \in 1..n
  <2>1. i \in Live(x, y) /\ z[i] = x[i]
    BY <1>1, <1>3, <1>5, <1>6 DEF Live
  <2> QED BY <1>4, <2>1 DEF Waiting
<1>7. CASE i = n + 1
  BY <1>3, <1>4, <1>5, <1>7
<1>8. i \in 1..n \/ i = n + 1
  BY <1>3, <1>5
<1> QED BY <1>6, <1>7, <1>8

\* m is added to some queues; a report to that of worker w of s.
LEMMA RequestsRep ==
  ASSUME RepInv, Onward, UNCHANGED <<busy, tot, accTable, net, wsAccTable, logged>>, QueueTypes',
         NEW s \in Server, NEW w \in Worker, NEW m,
         m.op = "EVAL" => Known(ReportOf(m))' /\ \A d \in Spot : ReportOf(m) \notin Reports(d),
         \A u \in Server, v \in Worker :
           \/ queue'[u][v] = queue[u][v]
           \/ /\ queue'[u][v] = Append(queue[u][v], m)
              /\ RequestOK(u, m)' /\ (m.op = "EVAL" => u = s /\ v = w)
  PROVE  RepInv'
<1>1. /\ QueuesOK /\ main \in [Client -> Int] /\ conf' = conf
      /\ DOMAIN accTable = Server /\ DOMAIN tot = Server
  BY DEF RepInv, RestTypes, Onward
<1>2. Server' = Server /\ Worker' = Worker
  BY <1>1, SameConf DEF Worker
<1>3. PICK a : a = <<"queue", s, w>>
  OBVIOUS
<1>4. ASSUME NEW u \in Server, NEW v \in Worker
      PROVE  /\ QueueOK(u, queue[u][v], busy[u][v])'
             /\ \A r \in Waiting(queue'[u][v], busy'[u][v]) :
                  \/ r \in Waiting(queue[u][v], busy[u][v])
                  \/ m.op = "EVAL" /\ r = ReportOf(m) /\ u = s /\ v = w
  <2>1. PICK x, y, z : x = queue[u][v] /\ y = busy[u][v] /\ z = queue'[u][v]
    OBVIOUS
  <2>2. QueueOK(u, x, y)' /\ QueueOK(u, x, y)
    BY <1>1, <2>1, QueueStays DEF QueuesOK
  <2>3. CASE z = x
    BY <2>1, <2>2, <2>3
  <2>4. CASE z = Append(x, m) /\ RequestOK(u, m)' /\ (m.op = "EVAL" => u = s /\ v = w)
    <3>1. m.op = "EVAL" => ReportOf(m) \notin Waiting(x, y)
      <4>1. <<"queue", u, v>> \in Spot /\ Reports(<<"queue", u, v>>) = Waiting(x, y)
        BY <2>1, SpotsIn, ReportsAt
      <4> QED BY <4>1
    <3>2. QueueOK(u, z, y)'
      BY <2>2, <2>4, <3>1, QueueGetsNext
    <3>3. \A r \in Waiting(z, y) : r \in Waiting(x, y) \/ (m.op = "EVAL" /\ r = ReportOf(m))
      BY <2>2, <2>4, WaitsMore
    <3> QED BY <2>1, <2>4, <3>2, <3>3
  <2> QED BY <2>1, <2>3, <2>4
<1>5. QueuesOK'
  BY <1>2, <1>4 DEF QueuesOK
<1>6. LessQueues(a)
  <2>1. ASSUME NEW u \in Server, NEW v \in Worker, <<"queue", u, v>> # a
        PROVE  Waiting(queue'[u][v], busy'[u][v]) \subseteq Waiting(queue[u][v], busy[u][v])
    BY <1>3, <1>4, <2>1
  <2> QED BY <2>1 DEF LessQueues
<1>7. Less(a)
  BY <1>6, LessKept DEF Less
<1>8. \A r \in Reports(a)' : Came(r, a)
  <2>1. ASSUME NEW r \in Reports(a)'
        PROVE  Came(r, a)
    <3>1. Reports(a) = Waiting(queue[s][w], busy[s][w]) /\ Reports(a)' = Waiting(queue'[s][w], busy'[s][w])
      BY <1>3, ReportsAt, ReportsAtNext
    <3>2. r \in Reports(a) \/ (m.op = "EVAL" /\ r = ReportOf(m))
      BY <1>4, <2>1, <3>1
    <3>3. CASE r \in Reports(a)
      BY <3>3 DEF Came
    <3>4. CASE m.op = "EVAL" /\ r = ReportOf(m)
      <4>1. Known(r)'
        <5>1. PICK o : o = ReportOf(m)
          OBVIOUS
        <5>2. r = o
          BY <3>4, <5>1
        <5>3. Known(o)'
          BY <3>4, <5>1
        <5> QED BY <5>2, <5>3
      <4> QED BY <3>4, <4>1 DEF Came
    <3> QED BY <3>2, <3>3, <3>4
  <2> QED BY <2>1
<1>9. a \in Spot
  BY <1>3, SpotsIn
<1>10. Apart'
  BY <1>7, <1>8, <1>9, Moves
<1>11. /\ ThreadsOK' /\ TotsOK' /\ AccOK' /\ ChansOK' /\ TableOK(wsAccTable)' /\ LogOK(logged)' /\ RestTypes'
  BY <1>1, Kept
<1> QED BY <1>5, <1>10, <1>11 DEF RepInv

LEMMA QuietRep ==
  ASSUME RepInv, Onward, UNCHANGED <<queue, busy, tot, accTable, net, wsAccTable, logged>>
  PROVE  RepInv'
<1>1. DOMAIN accTable = Server /\ DOMAIN tot = Server
  BY DEF RepInv, RestTypes
<1>2. \A a : Less(a)
  BY LessKept DEF Less
<1>3. Apart'
  BY <1>2, NothingNew
<1> QED BY <1>1, <1>3, Kept DEF RepInv

LEMMA RequestRep ==
  ASSUME RepInv, Onward, UNCHANGED <<busy, tot, accTable, net, wsAccTable, logged>>,
         NEW s \in Server, NEW m, Request(s, m), RequestOK(s, m)',
         m.op = "EVAL" => \A d \in Spot : ReportOf(m) \notin Reports(d)
  PROVE  RepInv'
<1>1. QueueTypes
  BY DEF RepInv, QueuesOK
<1>2. PICK v : v = rr[s]
  OBVIOUS
<1>3. PICK q : q = queue'
  OBVIOUS
<1>4. PICK x : x = Append(queue[s][v], m)
  OBVIOUS
<1>5. q = [queue EXCEPT ![s][v] = x]
  BY <1>2, <1>3, <1>4 DEF Request
<1>6. /\ DOMAIN q = Server /\ \A u \in Server : DOMAIN q[u] = Worker
      /\ \A u \in Server, y \in Worker : q[u][y] = IF u = s /\ y = v THEN x ELSE queue[u][y]
  BY <1>1, <1>5, TwoLevels DEF QueueTypes
<1>7. QueueTypes'
  BY <1>3, <1>6, SameConf DEF QueueTypes, Onward, Worker
<1>8. 0 \in Worker
  BY ServersOK DEF Worker
<1>9. PICK w \in Worker : v \in Worker => w = v
  BY <1>8
<1>10. \A u \in Server, y \in Worker :
         \/ queue'[u][y] = queue[u][y]
         \/ /\ queue'[u][y] = Append(queue[u][y], m)
            /\ RequestOK(u, m)' /\ (m.op = "EVAL" => u = s /\ y = w)
  <2> TAKE u \in Server, y \in Worker
  <2>1. CASE u = s /\ y = v
    BY <1>3, <1>4, <1>6, <1>9, <2>1
  <2>2. CASE ~(u = s /\ y = v)
    BY <1>3, <1>6, <2>2
  <2> QED BY <2>1, <2>2
<1>11. m.op = "EVAL" => Known(ReportOf(m))' /\ \A d \in Spot : ReportOf(m) \notin Reports(d)
  BY DEF RequestOK
<1> QED BY <1>7, <1>9, <1>10, <1>11, RequestsRep

LEMMA MainSame ==
  ASSUME RepInv, UNCHANGED <<conf, main>>, flaws \subseteq flaws'
  PROVE  Onward
<1>1. main \in [Client -> Int] /\ Client' = Client
  BY SameConf DEF RepInv, RestTypes
<1>2. \A c \in Client : main[c] \in Int
  BY <1>1
<1> QED BY <1>1, <1>2 DEF Onward

LEMMA MainNext ==
  ASSUME RepInv, conf' = conf, flaws' = flaws, NEW c \in Client, main' = [main EXCEPT ![c] = @ + 1]
  PROVE  Onward /\ main[c] \in Int /\ main'[c] = main[c] + 1
<1>1. main \in [Client -> Int]
  BY DEF RepInv, RestTypes
<1>2. \A d \in Client : main[d] \in Int /\ main'[d] = IF d = c THEN main[d] + 1 ELSE main[d]
  BY <1>1
<1>3. main' \in [Client -> Int]
  BY <1>1
<1>4. \A d \in Client : main[d] <= main'[d]
  BY <1>2
<1> QED BY <1>2, <1>3, <1>4 DEF Onward

LEMMA SendInfoRep ==
  ASSUME conf \in Confs, RepInv, SendInfo
  PROVE  RepInv'
<1>1. Onward
  BY MainSame DEF SendInfo
<1>2. PICK s : s = informed \div 2
  OBVIOUS
<1>3. s \in Server
  <2>1. PICK z \in Server : informed = 2 * z
    BY DEF SendInfo
  <2>2. z \in Nat
    BY <2>1, ServerFacts
  <2> QED BY <1>2, <2>1, <2>2
<1>4. PICK m : m = [op |-> "INFO", cnt |-> SplitTot(s, conf.clients, conf.servers)]
  OBVIOUS
<1>5. m.op = "INFO" /\ m.cnt = TotOf(s)
  BY <1>4 DEF TotOf
<1>6. Request(s, m)
  BY <1>2, <1>4 DEF SendInfo
<1>7. RequestOK(s, m)'
  <2>1. TotOf(s)' = TotOf(s)
    BY SameConf DEF SendInfo
  <2> QED BY <1>5, <2>1 DEF RequestOK
<1>8. UNCHANGED <<busy, tot, accTable, net, wsAccTable, logged>>
  BY DEF SendInfo, tensors, peers, losses
<1> QED BY <1>1, <1>3, <1>5, <1>6, <1>7, <1>8, RequestRep

\* The report of an epoch is sent once, when its last layer is over.
LEMMA LastLayerRep ==
  ASSUME conf \in Confs, RepInv, NEW c \in Client, LastLayer(c)
  PROVE  RepInv'
<1>1. Onward /\ main[c] \in Int /\ main'[c] = main[c] + 1
  BY MainNext DEF LastLayer
<1>2. UNCHANGED <<busy, tot, accTable, net, wsAccTable, logged>>
  BY DEF LastLayer, tensors, peers, losses
<1>3. CASE "EVAL" \in conf.traffic
  <2>1. PICK e : e = EpochOf(c)
    OBVIOUS
  <2>2. PICK n : n = main[c]
    OBVIOUS
  <2>3. n \in Int /\ n % 4 = 1 /\ e = n \div 4
    BY <1>1, <2>1, <2>2 DEF LastLayer, Phase, EpochOf
  <2>4. e \in Int /\ n = 4 * e + 1
    BY <2>3
  <2>5. PICK m : m = [op |-> "EVAL", client |-> c, epoch |-> e]
    OBVIOUS
  <2>6. m.op = "EVAL" /\ m.client = c /\ m.epoch = e /\ ReportOf(m) = <<c, e>>
    BY <2>5 DEF ReportOf
  <2>7. Request(ServerOf(c), m) /\ ServerOf(c) \in Server
    BY <1>3, <2>1, <2>5, ClientServer DEF LastLayer
  <2>8. ~Known(<<c, e>>)
    <3>1. ~(4 * e + 1 < n)
      BY <2>4
    <3> QED BY <2>2, <3>1 DEF Known
  <2>9. Known(<<c, e>>)'
    <3>1. PICK k : k = main'[c]
      OBVIOUS
    <3>5. k = n + 1
      BY <1>1, <2>2, <3>1
    <3>2. 4 * e + 1 < k
      BY <2>3, <2>4, <3>5
    <3>3. c \in Client'
      BY SameConf DEF Onward, LastLayer
    <3> QED BY <2>4, <3>1, <3>2, <3>3 DEF Known
  <2>10. RequestOK(ServerOf(c), m)'
    <3>1. ServerOf(c)' = ServerOf(c)
      BY SameConf DEF LastLayer
    <3>2. PICK o : o = ReportOf(m)
      OBVIOUS
    <3>3. o = <<c, e>>
      BY <2>6, <3>2
    <3>4. Known(o)'
      BY <2>9, <3>3
    <3>5. Known(ReportOf(m))'
      BY <3>2, <3>4
    <3> QED BY <2>6, <3>1, <3>5 DEF RequestOK
  <2>11. \A d \in Spot : ReportOf(m) \notin Reports(d)
    BY <2>6, <2>8 DEF RepInv, Apart
  <2>12. PICK s \in Server : s = ServerOf(c) /\ s = ServerOf(c)'
    BY <2>7, SameConf DEF LastLayer
  <2>13. Request(s, m) /\ RequestOK(s, m)'
    BY <2>7, <2>10, <2>12
  <2> QED BY <1>1, <1>2, <2>11, <2>13, RequestRep
<1>4. CASE "EVAL" \notin conf.traffic
  <2>1. UNCHANGED queue
    BY <1>4 DEF LastLayer, requests
  <2> QED BY <1>1, <1>2, <2>1, QuietRep
<1> QED BY <1>3, <1>4

LEMMA TrainRep ==
  ASSUME conf \in Confs, RepInv, NEW c \in Client, Train(c)
  PROVE  RepInv'
<1>1. CASE Prefetch(c)
  <2>1. Onward
    BY <1>1, MainNext DEF Prefetch
  <2>2. UNCHANGED <<busy, tot, accTable, net, wsAccTable, logged>>
    BY <1>1 DEF Prefetch, tensors, peers, losses
  <2>3. PICK m : m = [op |-> "PULL", client |-> c, epoch |-> EpochOf(c) + 1, layer |-> 0]
    OBVIOUS
  <2>4. m.op = "PULL"
    BY <2>3
  <2>5. PICK s \in Server : s = ServerOf(c)
    BY ClientServer
  <2>6. Request(s, m)
    BY <1>1, <2>3, <2>5 DEF Prefetch
  <2>7. RequestOK(s, m)'
    BY <2>4 DEF RequestOK
  <2> QED BY <2>1, <2>2, <2>4, <2>6, <2>7, RequestRep
<1>2. CASE Forward(c)
  <2>1. Onward
    BY <1>2, MainNext DEF Forward
  <2> QED BY <1>2, <2>1, QuietRep DEF Forward, requests, tensors, peers, losses
<1>3. CASE LastLayer(c)
  BY <1>3, LastLayerRep
<1>4. CASE Backward(c)
  <2>1. Onward
    BY <1>4, MainNext DEF Backward
  <2> QED BY <1>4, <2>1, QuietRep DEF Backward, requests, tensors, peers, losses
<1>5. CASE SendPush(c)
  <2>1. Onward
    BY <1>5, MainSame DEF SendPush
  <2>2. UNCHANGED <<busy, tot, accTable, net, wsAccTable, logged>>
    BY <1>5 DEF SendPush, tensors, peers, losses
  <2>3. PICK m : m = [op |-> "PUSH", client |-> c, layer |-> snd[c], epoch |-> EpochOf(c)]
    OBVIOUS
  <2>4. m.op = "PUSH"
    BY <2>3
  <2>5. PICK s \in Server : s = ServerOf(c)
    BY ClientServer
  <2>6. Request(s, m)
    BY <1>5, <2>3, <2>5 DEF SendPush
  <2>7. RequestOK(s, m)'
    BY <2>4 DEF RequestOK
  <2> QED BY <2>1, <2>2, <2>4, <2>6, <2>7, RequestRep
<1> QED BY <1>1, <1>2, <1>3, <1>4, <1>5 DEF Train

LEMMA ShutdownRep ==
  ASSUME conf \in Confs, RepInv, Shutdown
  PROVE  RepInv'
<1>1. Onward
  BY MainSame DEF Shutdown
<1>2. UNCHANGED <<busy, tot, accTable, net, wsAccTable, logged>>
  BY DEF Shutdown, tensors, peers, losses
<1>3. PICK m : m = [op |-> "TERM"]
  OBVIOUS
<1>4. m.op = "TERM"
  BY <1>3
<1>5. \A u : RequestOK(u, m)'
  BY <1>4 DEF RequestOK
<1>6. PICK q : q = queue'
  OBVIOUS
<1>7. q = [u \in Server |-> [queue[u] EXCEPT ![rr[u]] = Append(@, m)]]
  BY <1>3, <1>6 DEF Shutdown
<1>8. DOMAIN queue = Server /\ \A u \in Server : DOMAIN queue[u] = Worker
  BY DEF RepInv, QueuesOK, QueueTypes
<1>9. /\ DOMAIN q = Server /\ \A u \in Server : DOMAIN q[u] = Worker
      /\ \A u \in Server, v \in Worker : q[u][v] = queue[u][v] \/ q[u][v] = Append(queue[u][v], m)
  <2>1. ASSUME NEW u \in Server
        PROVE  /\ DOMAIN q[u] = Worker
               /\ \A v \in Worker : q[u][v] = queue[u][v] \/ q[u][v] = Append(queue[u][v], m)
    <3>1. q[u] = [queue[u] EXCEPT ![rr[u]] = Append(@, m)] /\ DOMAIN queue[u] = Worker
      BY <1>7, <1>8
    <3> QED BY <3>1
  <2> QED BY <1>7, <2>1
<1>10. QueueTypes'
  BY <1>1, <1>6, <1>9, SameConf DEF QueueTypes, Onward, Worker
<1>11. 0 \in Server /\ 0 \in Worker
  BY ServersOK, ServerFacts DEF Worker
<1>12. \A u \in Server, v \in Worker :
         \/ queue'[u][v] = queue[u][v]
         \/ queue'[u][v] = Append(queue[u][v], m) /\ RequestOK(u, m)' /\ (m.op = "EVAL" => u = 0 /\ v = 0)
  BY <1>4, <1>5, <1>6, <1>9
<1>13. m.op = "EVAL" => Known(ReportOf(m))' /\ \A d \in Spot : ReportOf(m) \notin Reports(d)
  BY <1>4
<1> QED BY <1>1, <1>2, <1>10, <1>11, <1>12, <1>13, RequestsRep

-----------------------------------------------------------------------------
(* Messages to server 0.                                                   *)

LEMMA ChanGets ==
  ASSUME NEW s, NEW q, IsQueue(q), ChanOK(s, q), NEW m,
         m.kind = "ACCLOSS" => SumOK(s, m.sum) /\ m.sum \cap Underway(q) = {}
  PROVE  /\ ChanOK(s, Append(q, m))
         /\ \A r \in Underway(Append(q, m)) : r \in Underway(q) \/ (m.kind = "ACCLOSS" /\ r \in m.sum)
<1>1. PICK z : z = Append(q, m)
  OBVIOUS
<1>2. PICK n : n = Len(q)
  OBVIOUS
<1>3. n \in Nat /\ Len(z) = n + 1 /\ z[n + 1] = m /\ \A i \in 1..n : z[i] = q[i]
  BY <1>1, <1>2, QueueLen, QueueAppend
<1>4. ASSUME NEW i \in Sums(z)
      PROVE  (i \in Sums(q) /\ z[i] = q[i]) \/ (i = n + 1 /\ z[i] = m /\ m.kind = "ACCLOSS")
  <2>1. i \in 1..n + 1 /\ z[i].kind = "ACCLOSS"
    BY <1>3 DEF Sums
  <2>2. CASE i \in 1..n
    BY <1>2, <1>3, <2>1, <2>2 DEF Sums
  <2>3. CASE i = n + 1
    BY <1>3, <2>1, <2>3
  <2>4. i \in 1..n \/ i = n + 1
    BY <1>3, <2>1
  <2> QED BY <2>2, <2>3, <2>4
<1>5. \A i \in Sums(z) : SumOK(s, z[i].sum)
  BY <1>4 DEF ChanOK
<1>6. \A i \in Sums(q) : q[i].sum \subseteq Underway(q)
  BY DEF Underway
<1>7. ASSUME NEW i \in Sums(z), NEW j \in Sums(z), i # j
      PROVE  z[i].sum \cap z[j].sum = {}
  <2>1. CASE i \in Sums(q) /\ z[i] = q[i] /\ j \in Sums(q) /\ z[j] = q[j]
    BY <1>7, <2>1 DEF ChanOK
  <2>2. CASE i \in Sums(q) /\ z[i] = q[i] /\ j = n + 1 /\ z[j] = m /\ m.kind = "ACCLOSS"
    BY <1>6, <2>2
  <2>3. CASE j \in Sums(q) /\ z[j] = q[j] /\ i = n + 1 /\ z[i] = m /\ m.kind = "ACCLOSS"
    BY <1>6, <2>3
  <2> QED BY <1>4, <1>7, <2>1, <2>2, <2>3
<1>8. ChanOK(s, z)
  BY <1>5, <1>7 DEF ChanOK
<1>9. ASSUME NEW r \in Underway(z)
      PROVE  r \in Underway(q) \/ (m.kind = "ACCLOSS" /\ r \in m.sum)
  <2>1. PICK i \in Sums(z) : r \in z[i].sum
    BY DEF Underway
  <2> QED BY <1>4, <1>6, <2>1
<1> QED BY <1>1, <1>8, <1>9

LEMMA ChanLoses ==
  ASSUME NEW s, NEW q, IsQueue(q), ChanOK(s, q), q # <<>>
  PROVE  /\ ChanOK(s, Tail(q)) /\ Underway(Tail(q)) \subseteq Underway(q)
         /\ Head(q).kind = "ACCLOSS" =>
              /\ SumOK(s, Head(q).sum) /\ Head(q).sum \subseteq Underway(q)
              /\ Head(q).sum \cap Underway(Tail(q)) = {}
<1>1. PICK z : z = Tail(q)
  OBVIOUS
<1>2. PICK n : n = Len(q)
  OBVIOUS
<1>3. /\ n \in Nat /\ n >= 1 /\ Len(z) = n - 1 /\ \A i \in 1..n - 1 : z[i] = q[i + 1]
      /\ Head(q) = q[1]
  BY <1>1, <1>2, QueueLen, QueueTail
<1>4. \A i \in Sums(z) : i + 1 \in Sums(q) /\ i + 1 # 1 /\ z[i] = q[i + 1] /\ i \in Int
  BY <1>2, <1>3 DEF Sums
<1>5. \A i \in Sums(z) : SumOK(s, z[i].sum)
  BY <1>4 DEF ChanOK
<1>6. ASSUME NEW i \in Sums(z), NEW j \in Sums(z), i # j
      PROVE  z[i].sum \cap z[j].sum = {}
  <2>1. i + 1 # j + 1
    BY <1>4, <1>6
  <2> QED BY <1>4, <2>1 DEF ChanOK
<1>7. ChanOK(s, z)
  BY <1>5, <1>6 DEF ChanOK
<1>8. \A i \in Sums(q) : q[i].sum \subseteq Underway(q)
  BY DEF Underway
<1>9. \A r \in Underway(z) : \E i \in Sums(q) : r \in q[i].sum /\ i # 1
  <2>1. ASSUME NEW r \in Underway(z)
        PROVE  \E i \in Sums(q) : r \in q[i].sum /\ i # 1
    <3>1. PICK i \in Sums(z) : r \in z[i].sum
      BY DEF Underway
    <3> QED BY <1>4, <3>1
  <2> QED BY <2>1
<1>10. Underway(z) \subseteq Underway(q)
  BY <1>8, <1>9
<1>11. ASSUME Head(q).kind = "ACCLOSS"
       PROVE  /\ SumOK(s, Head(q).sum) /\ Head(q).sum \subseteq Underway(q)
              /\ Head(q).sum \cap Underway(z) = {}
  <2>1. 1 \in Sums(q)
    BY <1>2, <1>3, <1>11 DEF Sums
  <2>2. \A i \in Sums(q) : i # 1 => q[i].sum \cap q[1].sum = {}
    BY <2>1 DEF ChanOK
  <2>3. Head(q).sum \cap Underway(z) = {}
    BY <1>3, <1>9, <2>2
  <2>4. SumOK(s, q[1].sum) /\ q[1].sum \subseteq Underway(q)
    BY <1>8, <2>1 DEF ChanOK
  <2> QED BY <1>3, <2>3, <2>4
<1> QED BY <1>1, <1>7, <1>10, <1>11

\* No sum is sent on the channel.
Milder(q, z) ==
  \/ z = q
  \/ z = <<>>
  \/ q # <<>> /\ z = Tail(q)
  \/ \E m : m.kind # "ACCLOSS" /\ z = Append(q, m)

LEMMA MilderChan ==
  ASSUME NEW s, NEW q, IsQueue(q), ChanOK(s, q), NEW z, Milder(q, z)
  PROVE  ChanOK(s, z) /\ Underway(z) \subseteq Underway(q)
<1>1. CASE z = <<>>
  <2>1. Sums(z) = {}
    BY <1>1 DEF Sums
  <2> QED BY <2>1 DEF ChanOK, Underway
<1>2. CASE q # <<>> /\ z = Tail(q)
  BY <1>2, ChanLoses
<1>3. ASSUME NEW m, m.kind # "ACCLOSS", z = Append(q, m)
      PROVE  ChanOK(s, z) /\ Underway(z) \subseteq Underway(q)
  BY <1>3, ChanGets
<1> QED BY <1>1, <1>2, <1>3 DEF Milder

NetMilder == \A s \in Server : Milder(net[s][0], net'[s][0])

LEMMA NetKept ==
  ASSUME conf \in Confs, Wired(net, Server), RepInv, Onward, NetMilder
  PROVE  ChansOK' /\ \A a : LessNet(a)
<1>1. 0 \in Server /\ Server' = Server
  BY ServerFacts, SameConf DEF Onward
<1>2. ASSUME NEW s \in Server
      PROVE  ChanOK(s, net[s][0])' /\ Underway(net'[s][0]) \subseteq Underway(net[s][0])
  <2>1. PICK q, z : q = net[s][0] /\ z = net'[s][0]
    OBVIOUS
  <2>2. IsQueue(q) /\ ChanOK(s, q) /\ Milder(q, z)
    BY <1>1, <2>1 DEF Wired, RepInv, ChansOK, NetMilder
  <2>3. ChanOK(s, z) /\ Underway(z) \subseteq Underway(q)
    BY <2>2, MilderChan
  <2>4. ChanOK(s, z)'
    BY <2>3, ChanStays
  <2> QED BY <2>1, <2>3, <2>4
<1>3. ChansOK'
  BY <1>1, <1>2 DEF ChansOK
<1> QED BY <1>2, <1>3 DEF LessNet

\* Of what matters here only the messages change, and none is a sum.
LEMMA NetRep ==
  ASSUME conf \in Confs, Wired(net, Server), RepInv, Onward, NetMilder,
         UNCHANGED <<queue, busy, tot, accTable, wsAccTable, logged>>
  PROVE  RepInv'
<1>1. DOMAIN accTable = Server /\ DOMAIN tot = Server
  BY DEF RepInv, RestTypes
<1>2. ChansOK' /\ \A a : LessNet(a)
  BY NetKept
<1>3. \A a : Less(a)
  BY <1>2, LessKept DEF Less
<1>4. Apart'
  BY <1>3, NothingNew
<1> QED BY <1>1, <1>2, <1>4, Kept DEF RepInv

LEMMA SetUpSame ==
  ASSUME SetUp
  PROVE  UNCHANGED <<conf, main, queue, busy, tot, accTable, wsAccTable, logged>>
BY DEF SetUp, clients, requests, losses

LEMMA MasterRep ==
  ASSUME conf \in Confs, Wired(net, Server), RepInv, MasterStarts
  PROVE  RepInv'
<1>1. SetUp /\ flaws' = flaws
  BY DEF MasterStarts, PollServers, CountServers, CountAcks
<1>2. UNCHANGED <<conf, main, queue, busy, tot, accTable, wsAccTable, logged>>
  BY <1>1, SetUpSame
<1>3. Onward
  BY <1>1, <1>2, MainSame
<1>4. /\ 0 \in Server /\ DOMAIN net = Server
      /\ \A s \in Server : DOMAIN net[s] = Server /\ \A t \in Server : IsQueue(net[s][t])
  BY ServerFacts DEF Wired
<1>5. ASSUME NEW s \in Server
      PROVE  Milder(net[s][0], net'[s][0])
  <2>1. PICK q, z : q = net[s][0] /\ z = net'[s][0]
    OBVIOUS
  <2>2. CASE PollServers
    <3>1. z = q
      BY <1>4, <2>1, <2>2 DEF PollServers
    <3> QED BY <2>1, <3>1 DEF Milder
  <2>3. CASE CountServers
    <3>1. z = <<>>
      BY <1>4, <2>1, <2>3 DEF CountServers
    <3> QED BY <2>1, <3>1 DEF Milder
  <2>4. CASE CountAcks
    <3>1. CASE net' = net
      BY <3>1 DEF Milder
    <3>2. ASSUME NEW t \in Server, net[t][0] # <<>>, net' = [net EXCEPT ![t][0] = Tail(@)]
          PROVE  Milder(net[s][0], net'[s][0])
      <4>1. z = IF s = t THEN Tail(q) ELSE q
        BY <1>4, <2>1, <3>2
      <4>2. q # <<>> \/ s # t
        BY <2>1, <3>2
      <4> QED BY <2>1, <4>1, <4>2 DEF Milder
    <3> QED BY <2>4, <3>1, <3>2 DEF CountAcks
  <2> QED BY <2>2, <2>3, <2>4 DEF MasterStarts
<1>6. NetMilder
  BY <1>5 DEF NetMilder
<1> QED BY <1>2, <1>3, <1>6, NetRep

LEMMA StartsRep ==
  ASSUME AckInv, RepInv, NEW s \in Others(0), Starts(s)
  PROVE  RepInv'
<1>1. boot[0] # "up" /\ conf \in Confs /\ Wired(net, Server) /\ s # 0
  BY StartedNoStart DEF AckInv, Base, Others
<1>2. PICK t \in Others(s) : HearMaster(s, t) \/ HearDone(s, t) \/ TakeWeights(s, t)
  BY DEF Starts
<1>3. SetUp /\ flaws \subseteq flaws'
  BY <1>2 DEF HearMaster, HearDone, TakeWeights
<1>4. UNCHANGED <<conf, main, queue, busy, tot, accTable, wsAccTable, logged>>
  BY <1>3, SetUpSame
<1>5. Onward
  BY <1>3, <1>4, MainSame
<1>6. PICK m : Hears(s, t) /\ Answers(s, t, m) /\ (m = <<>> \/ \E n : n.kind # "ACCLOSS" /\ m = <<n>>)
  <2>1. CASE HearMaster(s, t)
    <3>1. [kind |-> "WORKERUP"].kind # "ACCLOSS"
      OBVIOUS
    <3> QED BY <2>1, <3>1 DEF HearMaster
  <2>2. CASE HearDone(s, t)
    BY <2>2 DEF HearDone
  <2>3. CASE TakeWeights(s, t)
    <3>1. [kind |-> "ACK"].kind # "ACCLOSS"
      OBVIOUS
    <3> QED BY <2>3, <3>1 DEF TakeWeights
  <2> QED BY <1>2, <2>1, <2>2, <2>3
<1>7. /\ net'[s][0] = net[s][0] \o m
      /\ \A u \in Server, v \in Server : <<u, v>> \notin {<<0, s>>, <<s, 0>>} => net'[u][v] = net[u][v]
  BY <1>1, <1>6, AnswerNet
<1>8. 0 \in Server /\ s \in Server
  BY <1>1, ServerFacts DEF Others
<1>9. ASSUME NEW u \in Server
      PROVE  Milder(net[u][0], net'[u][0])
  <2>1. PICK q, z : q = net[u][0] /\ z = net'[u][0]
    OBVIOUS
  <2>2. IsQueue(q)
    BY <1>1, <1>8, <2>1 DEF Wired
  <2>3. CASE u # s
    <3>1. z = q
      BY <1>1, <1>7, <1>8, <2>1, <2>3
    <3> QED BY <2>1, <3>1 DEF Milder
  <2>4. CASE u = s
    <3>1. z = q \o m
      BY <1>7, <2>1, <2>4
    <3>2. z = q \/ \E n : n.kind # "ACCLOSS" /\ z = Append(q, n)
      <4>1. CASE m = <<>>
        BY <2>2, <3>1, <4>1, QueueConcat
      <4>2. ASSUME NEW n, n.kind # "ACCLOSS", m = <<n>>
            PROVE  z = Append(q, n)
        BY <2>2, <3>1, <4>2, QueueConcat
      <4> QED BY <1>6, <4>1, <4>2
    <3> QED BY <2>1, <3>2 DEF Milder
  <2> QED BY <2>3, <2>4
<1>10. NetMilder
  BY <1>9 DEF NetMilder
<1> QED BY <1>1, <1>4, <1>5, <1>10, NetRep

-----------------------------------------------------------------------------
(* Steps of threads that have nothing to do with reports.                  *)

LEMMA FinishRep ==
  ASSUME RepInv, Onward, NEW s \in Server, NEW t \in Threads, Finish(s, t),
         t \in Worker => queue[s][t] # <<>>,
         ChansOK', \A a : LessNet(a), UNCHANGED <<tot, accTable, wsAccTable, logged>>
  PROVE  RepInv'
<1>1. DOMAIN accTable = Server /\ DOMAIN tot = Server
  BY DEF RepInv, RestTypes
<1>2. QueuesOK' /\ ThreadsOK' /\ \A a : LessQueues(a) /\ LessSums(a)
  BY Finishes
<1>3. \A a : Less(a)
  BY <1>2, LessKept DEF Less
<1>4. Apart'
  BY <1>3, NothingNew
<1> QED BY <1>1, <1>2, <1>4, Kept DEF RepInv

LEMMA GoRep ==
  ASSUME RepInv, Onward, NEW s \in Server, NEW t \in Threads, NEW b, Goto(s, t, b), UNCHANGED queue,
         t \in Worker => queue[s][t] # <<>>, b.at \notin {"idle", "report"},
         b.at = "totals" => t \in Worker /\ queue[s][t][1].op = "INFO",
         ChansOK', \A a : LessNet(a), UNCHANGED <<tot, accTable, wsAccTable, logged>>
  PROVE  RepInv'
<1>1. DOMAIN accTable = Server /\ DOMAIN tot = Server
  BY DEF RepInv, RestTypes
<1>2. ThreadOK(s, b)'
  BY DEF ThreadOK
<1>3. QueuesOK' /\ ThreadsOK' /\ \A a : LessQueues(a) /\ LessSums(a)
  BY <1>2, GoesOn
<1>4. \A a : Less(a)
  BY <1>3, LessKept DEF Less
<1>5. Apart'
  BY <1>4, NothingNew
<1> QED BY <1>1, <1>3, <1>5, Kept DEF RepInv

\* A worker that is busy has its request.
LEMMA BusyHas ==
  ASSUME RepInv, NEW s \in Server, NEW t \in Threads, busy[s][t].at # "idle"
  PROVE  t \in Worker => queue[s][t] # <<>>
<1> SUFFICES ASSUME t \in Worker PROVE queue[s][t] # <<>>
  OBVIOUS
<1>1. QueueOK(s, queue[s][t], busy[s][t])
  BY DEF RepInv, QueuesOK
<1>2. Len(queue[s][t]) > 0
  BY <1>1 DEF QueueOK
<1>3. Len(<<>>) = 0
  OBVIOUS
<1> QED BY <1>2, <1>3

LEMMA ServesHas ==
  ASSUME RepInv, NEW s \in Server, NEW w \in Worker, NEW op, Serves(s, w, op)
  PROVE  /\ queue[s][w] # <<>> /\ queue[s][w][1].op = op /\ busy[s][w].at = "idle"
         /\ Head(queue[s][w]) = queue[s][w][1] /\ w \in Threads
         /\ QueueOK(s, queue[s][w], busy[s][w])
<1>1. QueueOK(s, queue[s][w], busy[s][w])
  BY DEF RepInv, QueuesOK
<1>2. queue[s][w] # <<>> /\ Head(queue[s][w]).op = op /\ busy[s][w].at = "idle"
  BY DEF Serves
<1>3. Head(queue[s][w]) = queue[s][w][1]
  BY <1>1, <1>2, QueueTail DEF QueueOK
<1> QED BY <1>1, <1>2, <1>3 DEF Threads

LEMMA SameNet ==
  ASSUME RepInv, Onward, net' = net
  PROVE  ChansOK' /\ \A a : LessNet(a)
BY Kept, LessKept

LEMMA InfoRep ==
  ASSUME RepInv, NEW s \in Server, NEW w \in Worker, Info(s, w)
  PROVE  RepInv'
<1>1. Onward
  BY MainSame DEF Info
<1>2. UNCHANGED <<queue, tot, accTable, net, wsAccTable, logged>>
  BY DEF Info, requests, tensors, peers, losses
<1>3. queue[s][w] # <<>> /\ queue[s][w][1].op = "INFO" /\ w \in Threads
  BY ServesHas DEF Info
<1>4. PICK b : b = [at |-> "totals"]
  OBVIOUS
<1>5. b.at = "totals" /\ Goto(s, w, b)
  BY <1>4 DEF Info
<1> QED BY <1>1, <1>2, <1>3, <1>5, SameNet, GoRep

LEMMA TerminateRep ==
  ASSUME RepInv, NEW s \in Server, NEW w \in Worker, Terminate(s, w)
  PROVE  RepInv'
<1>1. Onward
  BY MainSame DEF Terminate, clients
<1>2. UNCHANGED <<tot, accTable, net, wsAccTable, logged>>
  BY DEF Terminate, tensors, peers, losses
<1>3. queue[s][w] # <<>> /\ w \in Threads
  BY ServesHas DEF Terminate
<1> QED BY <1>1, <1>2, <1>3, SameNet, FinishRep DEF Terminate

LEMMA PushRep ==
  ASSUME RepInv, NEW s \in Server, NEW w \in Worker, Push(s, w)
  PROVE  RepInv'
<1>1. Onward
  <2>1. flaws \subseteq flaws' /\ UNCHANGED <<conf, main>>
    BY DEF Push, clients
  <2> QED BY <2>1, MainSame
<1>2. UNCHANGED <<tot, accTable, net, wsAccTable, logged>>
  BY DEF Push, peers, losses
<1>3. queue[s][w] # <<>> /\ w \in Threads
  BY ServesHas DEF Push
<1>4. CASE Finish(s, w)
  BY <1>1, <1>2, <1>3, <1>4, SameNet, FinishRep
<1>5. ASSUME NEW l, NEW S, Goto(s, w, [at |-> "apply", layer |-> l, closed |-> S]), UNCHANGED requests
      PROVE  RepInv'
  <2>1. PICK b : b = [at |-> "apply", layer |-> l, closed |-> S]
    OBVIOUS
  <2>2. b.at = "apply" /\ Goto(s, w, b) /\ UNCHANGED queue
    BY <1>5, <2>1 DEF requests
  <2> QED BY <1>1, <1>2, <1>3, <2>2, SameNet, GoRep
<1> QED BY <1>4, <1>5 DEF Push

LEMMA AcksWaitRep ==
  ASSUME RepInv, NEW s \in Server, NEW w \in Worker, AcksWait(s, w)
  PROVE  RepInv'
<1>1. Onward
  BY MainSame DEF AcksWait, clients
<1>2. UNCHANGED <<tot, accTable, net, wsAccTable, logged>>
  BY DEF AcksWait, tensors, peers, losses
<1>3. w \in Threads /\ queue[s][w] # <<>>
  BY BusyHas DEF AcksWait, At, Threads
<1> QED BY <1>1, <1>2, <1>3, SameNet, FinishRep DEF AcksWait

LEMMA ApplyUpdateRep ==
  ASSUME conf \in Confs, Wired(net, Server), RepInv, NEW s \in Server, NEW w \in Worker, ApplyUpdate(s, w)
  PROVE  RepInv'
<1>1. Onward
  <2>1. flaws \subseteq flaws' /\ UNCHANGED <<conf, main>>
    BY DEF ApplyUpdate, clients
  <2> QED BY <2>1, MainSame
<1>2. UNCHANGED <<queue, tot, accTable, wsAccTable, logged>>
  BY DEF ApplyUpdate, TryApplyUpdate, requests, losses
<1>3. w \in Threads /\ queue[s][w] # <<>>
  BY BusyHas DEF ApplyUpdate, At, Threads
<1>4. PICK b : b = [at |-> "acks"]
  OBVIOUS
<1>5. b.at = "acks" /\ Goto(s, w, b)
  BY <1>4 DEF ApplyUpdate
<1>6. PICK m : m.kind = "DATA" /\ net' = [net EXCEPT ![s] = [t \in Server |->
                                         IF t = s THEN @[t] ELSE Append(@[t], m)]]
  <2>1. \A l, S : [kind |-> "DATA", layer |-> l, upd |-> S].kind = "DATA"
    OBVIOUS
  <2> QED BY <2>1 DEF ApplyUpdate
<1>7. 0 \in Server /\ DOMAIN net = Server
  BY ServerFacts DEF Wired
<1>8. ASSUME NEW u \in Server
      PROVE  Milder(net[u][0], net'[u][0])
  <2>1. net'[u][0] = IF u = s /\ s # 0 THEN Append(net[u][0], m) ELSE net[u][0]
    BY <1>6, <1>7
  <2> QED BY <1>6, <2>1 DEF Milder
<1>9. ChansOK' /\ \A a : LessNet(a)
  BY <1>1, <1>8, NetKept DEF NetMilder
<1> QED BY <1>1, <1>2, <1>3, <1>5, <1>9, GoRep

LEMMA EarlyStopRep ==
  ASSUME conf \in Confs, RepInv, NEW t \in Threads, EarlyStop(t) \/ Switch(t)
  PROVE  RepInv'
<1>1. Onward
  <2>1. flaws \subseteq flaws' /\ UNCHANGED <<conf, main>>
    BY DEF EarlyStop, Switch, clients
  <2> QED BY <2>1, MainSame
<1>2. UNCHANGED <<tot, accTable, net, wsAccTable, logged>>
  BY DEF EarlyStop, Switch, tensors, peers, losses
<1>3. 0 \in Server
  BY ServerFacts
<1>4. t \in Worker => queue[0][t] # <<>>
  BY <1>3, BusyHas DEF EarlyStop, Switch, At
<1>5. CASE Finish(0, t)
  BY <1>1, <1>2, <1>3, <1>4, <1>5, SameNet, FinishRep
<1>6. ASSUME NEW c, Goto(0, t, [at |-> "switch", to |-> c]), UNCHANGED requests
      PROVE  RepInv'
  <2>1. PICK b : b = [at |-> "switch", to |-> c]
    OBVIOUS
  <2>2. b.at = "switch" /\ Goto(0, t, b) /\ UNCHANGED queue
    BY <1>6, <2>1 DEF requests
  <2> QED BY <1>1, <1>2, <1>3, <1>4, <2>2, SameNet, GoRep
<1> QED BY <1>5, <1>6 DEF EarlyStop, Switch

\* The queues when a worker of s serves a pull: q without it, m the next one or the end, to k.
PullMoves(s, w, q, k, m) ==
  /\ DOMAIN q = Server /\ DOMAIN queue' = Server
  /\ \A u \in Server : DOMAIN q[u] = Worker /\ DOMAIN queue'[u] = Worker
  /\ \A u \in Server, v \in Worker :
       /\ q[u][v] = IF u = s /\ v = w THEN Tail(queue[s][w]) ELSE queue[u][v]
       /\ queue'[u][v] = q[u][v] \/ (u = s /\ v = k /\ queue'[u][v] = Append(q[u][v], m))
  /\ m.op \in {"PULL", "TERM"}
  /\ m.op = "PULL" => LET h == Head(queue[s][w])
                      IN  m = [h EXCEPT !.layer = @ + 1] /\ h.layer + 1 \in Layer

LEMMA PullMoved ==
  ASSUME RepInv, NEW s \in Server, NEW w \in Worker, Pull(s, w)
  PROVE  \E q, k, m : PullMoves(s, w, q, k, m)
<1>1. PICK h, x, q : /\ h = Head(queue[s][w]) /\ x = Tail(queue[s][w])
                     /\ q = [queue EXCEPT ![s][w] = Tail(@)]
  OBVIOUS
<1>2. h.op = "PULL" /\ QueueTypes
  BY <1>1, ServesHas DEF Pull, RepInv, QueuesOK
<1>3. /\ DOMAIN q = Server /\ \A u \in Server : DOMAIN q[u] = Worker
      /\ \A u \in Server, v \in Worker : q[u][v] = IF u = s /\ v = w THEN x ELSE queue[u][v]
  <2>1. q = [queue EXCEPT ![s][w] = x]
    BY <1>1
  <2> QED BY <1>2, <2>1, TwoLevels DEF QueueTypes
<1>4. PICK z : z = queue'
  OBVIOUS
<1>5. PICK k, r, e, y : /\ k = rr[s] /\ r = [h EXCEPT !.layer = @ + 1] /\ e = [op |-> "TERM"]
                        /\ y = Append(q[s][k], r)
  OBVIOUS
<1>6. r.op = "PULL" /\ e.op = "TERM"
  BY <1>2, <1>5
<1>7. PICK m : \/ m = e /\ z = q
               \/ m = r /\ h.layer + 1 \in Layer /\ z = [q EXCEPT ![s][k] = y]
  <2>1. CASE h.layer + 1 \in Layer
    <3>1. r = [h EXCEPT !.layer = @ + 1] /\ k = rr[s]
      BY <1>5
    <3>2. z = [q EXCEPT ![s][rr[s]] = Append(@, r)]
      BY <1>1, <1>4, <2>1, <3>1 DEF Pull
    <3>3. z = [q EXCEPT ![s][k] = y]
      BY <1>5, <3>2
    <3> QED BY <2>1, <3>3
  <2>2. CASE h.layer + 1 \notin Layer
    <3>1. z = q
      BY <1>1, <1>4, <2>2 DEF Pull
    <3> QED BY <3>1
  <2> QED BY <2>1, <2>2
<1>8. /\ DOMAIN z = Server /\ \A u \in Server : DOMAIN z[u] = Worker
      /\ \A u \in Server, v \in Worker :
           z[u][v] = q[u][v] \/ (u = s /\ v = k /\ z[u][v] = Append(q[u][v], m))
  <2>1. CASE z = q
    BY <1>3, <2>1
  <2>2. CASE m = r /\ z = [q EXCEPT ![s][k] = y]
    <3>1. /\ DOMAIN z = Server /\ \A u \in Server : DOMAIN z[u] = Worker
          /\ \A u \in Server, v \in Worker : z[u][v] = IF u = s /\ v = k THEN y ELSE q[u][v]
      BY <1>3, <2>2, TwoLevels
    <3> QED BY <1>5, <2>2, <3>1
  <2> QED BY <1>7, <2>1, <2>2
<1>9. m.op \in {"PULL", "TERM"} /\ (m.op = "PULL" => m = r /\ h.layer + 1 \in Layer)
  BY <1>6, <1>7
<1>10. PullMoves(s, w, q, k, m)
  BY <1>1, <1>3, <1>4, <1>5, <1>8, <1>9 DEF PullMoves
<1> QED BY <1>10

\* A pull is served, and the client asks for the next layer.
LEMMA PullRep ==
  ASSUME conf \in Confs, RepInv, NEW s \in Server, NEW w \in Worker, Pull(s, w)
  PROVE  RepInv'
<1>1. Onward
  BY MainSame DEF Pull
<1>2. UNCHANGED <<busy, tot, accTable, net, wsAccTable, logged>>
  BY DEF Pull, tensors, peers, losses
<1>3. /\ queue[s][w] # <<>> /\ queue[s][w][1].op = "PULL" /\ busy[s][w].at = "idle"
      /\ Head(queue[s][w]) = queue[s][w][1]
  BY ServesHas DEF Pull
<1>4. /\ QueueTypes /\ main \in [Client -> Int] /\ DOMAIN accTable = Server /\ DOMAIN tot = Server
      /\ \A u \in Server, v \in Worker : QueueOK(u, queue[u][v], busy[u][v])
  BY DEF RepInv, QueuesOK, RestTypes
<1>5. PICK q, k, m : PullMoves(s, w, q, k, m)
  BY PullMoved
<1>6. PICK x, z : x = Tail(queue[s][w]) /\ z = queue'
  OBVIOUS
<1>7. /\ \A u \in Server, v \in Worker : q[u][v] = IF u = s /\ v = w THEN x ELSE queue[u][v]
      /\ DOMAIN z = Server /\ \A u \in Server : DOMAIN z[u] = Worker
      /\ \A u \in Server, v \in Worker : z[u][v] = q[u][v] \/ z[u][v] = Append(q[u][v], m)
      /\ m.op \in {"PULL", "TERM"}
  BY <1>5, <1>6 DEF PullMoves
<1>8. ASSUME NEW u \in Server, NEW v \in Worker
      PROVE  QueueOK(u, q[u][v], busy[u][v]) /\ Waiting(q[u][v], busy[u][v]) \subseteq Waiting(queue[u][v], busy[u][v])
  <2>1. CASE u = s /\ v = w
    <3>1. q[u][v] = Tail(queue[u][v])
      BY <1>6, <1>7, <2>1
    <3>2. PICK y, c : y = queue[u][v] /\ c = busy[u][v]
      OBVIOUS
    <3>3. QueueOK(u, y, c) /\ y # <<>> /\ c.at = "idle"
      BY <1>3, <1>4, <2>1, <3>2
    <3>4. QueueOK(u, Tail(y), c) /\ Waiting(Tail(y), c) \subseteq Waiting(y, c)
      BY <3>3, QueueLoses
    <3> QED BY <3>1, <3>2, <3>4
  <2>2. CASE ~(u = s /\ v = w)
    BY <1>4, <1>7, <2>2
  <2> QED BY <2>1, <2>2
<1>12. ASSUME NEW u \in Server, NEW v \in Worker
       PROVE  QueueOK(u, z[u][v], busy[u][v]) /\ Waiting(z[u][v], busy[u][v]) \subseteq Waiting(queue[u][v], busy[u][v])
  <2>1. CASE z[u][v] = q[u][v]
    BY <1>8, <2>1
  <2>2. CASE z[u][v] = Append(q[u][v], m)
    <3>1. RequestOK(u, m) /\ m.op # "EVAL"
      BY <1>7 DEF RequestOK
    <3>2. PICK y, c : y = q[u][v] /\ c = busy[u][v]
      OBVIOUS
    <3>3. QueueOK(u, y, c)
      BY <1>8, <3>2
    <3>4. QueueOK(u, Append(y, m), c) /\ \A r \in Waiting(Append(y, m), c) : r \in Waiting(y, c)
      BY <3>1, <3>3, QueueGets
    <3> QED BY <1>8, <2>2, <3>2, <3>4
  <2> QED BY <1>7, <2>1, <2>2
<1>13. Server' = Server /\ Worker' = Worker
  BY <1>1, SameConf DEF Onward, Worker
<1>14. QueuesOK'
  <2>1. \A u \in Server, v \in Worker : QueueOK(u, queue[u][v], busy[u][v])'
    <3> TAKE u \in Server, v \in Worker
    <3>1. PICK y, c : y = z[u][v] /\ c = busy[u][v]
      OBVIOUS
    <3>2. QueueOK(u, y, c)'
      BY <1>1, <1>4, <1>12, <3>1, QueueStays
    <3> QED BY <1>2, <1>6, <3>1, <3>2
  <2>2. QueueTypes'
    BY <1>6, <1>7, <1>13 DEF QueueTypes
  <2> QED BY <1>13, <2>1, <2>2 DEF QueuesOK
<1>15. \A a : LessQueues(a)
  BY <1>2, <1>6, <1>12 DEF LessQueues
<1>16. \A a : Less(a)
  BY <1>2, <1>15, LessKept DEF Less
<1>17. Apart'
  BY <1>1, <1>16, NothingNew
<1> QED BY <1>1, <1>2, <1>4, <1>14, <1>17, Kept DEF RepInv

-----------------------------------------------------------------------------
(* Sums are made, sent and put together.                                   *)

\* A table of s with as many reports as s is told has one of each of its clients.
LEMMA WholeTable ==
  ASSUME conf \in Confs, NEW s \in Server, NEW T, Own(s, T), Cardinality(T) >= TotOf(s)
  PROVE  Full(s, T)
<1>1. IsFiniteSet(ClientsOf(s)) /\ Cardinality(ClientsOf(s)) = TotOf(s)
  BY Split
<1>2. PICK f : f = [r \in T |-> r[1]]
  OBVIOUS
<1>3. f \in [T -> ClientsOf(s)] /\ \A r \in T : f[r] = r[1]
  BY <1>2 DEF Own
<1>4. \A r \in T, q \in T : f[r] = f[q] => r = q
  BY <1>3 DEF Own
<1>5. \A c \in ClientsOf(s) : \E r \in T : f[r] = c
  BY <1>1, <1>3, <1>4, Covering
<1> QED BY <1>3, <1>5 DEF Full

\* A report takes the place of the client's one before.
LEMMA Replaces ==
  ASSUME NEW s, NEW A, Own(s, A), NEW r, r[1] \in ClientsOf(s), NEW found,
         found = {q \in A : q[1] = r[1]}
  PROVE  Own(s, (A \ found) \cup {r})
BY DEF Own

LEMMA FinishAt ==
  ASSUME RepInv, NEW s \in Server, NEW w \in Worker, Finish(s, w)
  PROVE  queue'[s][w] = Tail(queue[s][w]) /\ busy'[s][w].at = "idle"
<1>1. w # Receiver /\ w \in Threads
  BY ServersOK DEF Worker, Receiver, Threads
<1>2. /\ DOMAIN queue = Server /\ DOMAIN queue[s] = Worker
      /\ DOMAIN busy = Server /\ DOMAIN busy[s] = Threads
  BY DEF RepInv, QueuesOK, QueueTypes, ThreadsOK, BusyTypes
<1>3. queue'[s][w] = Tail(queue[s][w])
  BY <1>1, <1>2 DEF Finish
<1>4. busy'[s][w] = [at |-> "idle"]
  BY <1>1, <1>2 DEF Finish, Goto
<1> QED BY <1>3, <1>4

LEMMA GotoAt ==
  ASSUME RepInv, NEW s \in Server, NEW t \in Threads, NEW b, Goto(s, t, b)
  PROVE  busy'[s][t] = b
BY DEF RepInv, ThreadsOK, BusyTypes, Goto

\* accTable of s becomes T.
LEMMA AccStep ==
  ASSUME RepInv, Onward, NEW s \in Server, NEW T, Own(s, T), accTable' = [accTable EXCEPT ![s] = T]
  PROVE  /\ AccOK' /\ DOMAIN accTable' = Server /\ accTable'[s] = T
         /\ \A a : (a # <<"acc", s, 0>> => T \subseteq accTable[s]) => LessAcc(a)
<1>1. DOMAIN accTable = Server /\ \A u \in Server : Own(u, accTable[u])
  BY DEF RepInv, RestTypes, AccOK
<1>2. DOMAIN accTable' = Server /\ \A u \in Server : accTable'[u] = IF u = s THEN T ELSE accTable[u]
  BY <1>1
<1>3. \A u \in Server : Own(u, accTable[u])'
  <2> TAKE u \in Server
  <2>1. PICK S : S = accTable'[u]
    OBVIOUS
  <2>2. Own(u, S)
    BY <1>1, <1>2, <2>1
  <2>3. Own(u, S)'
    BY <2>2, SumStays
  <2> QED BY <2>1, <2>3
<1>4. AccOK'
  BY <1>3, SameConf DEF AccOK, Onward
<1>5. \A a : (a # <<"acc", s, 0>> => T \subseteq accTable[s]) => LessAcc(a)
  BY <1>2 DEF LessAcc
<1> QED BY <1>2, <1>4, <1>5

\* The totals of s are told, and its reports thrown away.
LEMMA SetTotalsRep ==
  ASSUME RepInv, NEW s \in Server, NEW w \in Worker, SetTotals(s, w)
  PROVE  RepInv'
<1>1. Onward
  BY MainSame DEF SetTotals, clients
<1>2. UNCHANGED <<net, logged>> /\ Finish(s, w)
  BY DEF SetTotals, peers
<1>3. /\ w \in Threads /\ queue[s][w] # <<>> /\ busy[s][w].at = "totals"
  BY BusyHas DEF SetTotals, At, Threads
<1>4. Head(queue[s][w]).cnt = TotOf(s)
  <2>1. PICK x, y : x = queue[s][w] /\ y = busy[s][w]
    OBVIOUS
  <2>2. QueueOK(s, x, y) /\ y.at = "totals" /\ x # <<>>
    BY <1>3, <2>1 DEF RepInv, QueuesOK
  <2>3. IsQueue(x) /\ x[1].op = "INFO" /\ RequestOK(s, x[1])
    <3>1. IsQueue(x) /\ x[1].op = "INFO" /\ \A i \in 1..Len(x) : RequestOK(s, x[i])
      BY <2>2 DEF QueueOK
    <3>2. Len(x) \in Nat /\ Len(x) >= 1
      BY <2>2, <3>1, QueueLen, QueueTail
    <3>3. 1 \in 1..Len(x)
      BY <3>2
    <3> QED BY <3>1, <3>3
  <2>4. Head(x) = x[1]
    BY <2>2, <2>3, QueueTail
  <2> QED BY <2>1, <2>3, <2>4 DEF RequestOK
<1>5. DOMAIN tot = Server /\ TotsOK
  BY DEF RepInv, RestTypes
<1>6. \A u \in Server : tot'[u] = IF u = s THEN TotOf(u) ELSE tot[u]
  BY <1>4, <1>5 DEF SetTotals
<1>7. DOMAIN tot' = Server
  BY <1>5 DEF SetTotals
<1>8. TotsOK'
  <2>1. Server' = Server /\ \A u : TotOf(u)' = TotOf(u)
    BY <1>1, SameConf DEF Onward
  <2>2. \A u \in Server : tot'[u] \in {Unset, TotOf(u)}
    BY <1>5, <1>6 DEF TotsOK
  <2> QED BY <2>1, <2>2 DEF TotsOK, Unset
<1>9. /\ AccOK' /\ DOMAIN accTable' = Server /\ \A a : LessAcc(a)
  <2>1. Own(s, {})
    BY DEF Own
  <2>2. accTable' = [accTable EXCEPT ![s] = {}]
    BY DEF SetTotals
  <2> QED BY <1>1, <2>1, <2>2, AccStep
<1>10. TableOK(wsAccTable)' /\ \A a : LessTable(a)
  <2>1. wsAccTable' = {} \/ wsAccTable' = wsAccTable
    BY DEF SetTotals
  <2>2. CASE wsAccTable' = {}
    BY <2>2 DEF TableOK, LessTable, Gathered
  <2>3. CASE wsAccTable' = wsAccTable
    BY <1>1, <2>3, Kept, LessKept
  <2> QED BY <2>1, <2>2, <2>3
<1>11. QueuesOK' /\ ThreadsOK' /\ \A a : LessQueues(a) /\ LessSums(a)
  BY <1>1, <1>2, <1>3, Finishes
<1>12. \A a : Less(a)
  BY <1>2, <1>9, <1>10, <1>11, LessKept DEF Less
<1>13. Apart'
  BY <1>1, <1>12, NothingNew
<1> QED BY <1>1, <1>2, <1>7, <1>8, <1>9, <1>10, <1>11, <1>13, Kept DEF RepInv

\* A report is taken out of its request.
LEMMA Taken ==
  ASSUME RepInv, NEW s \in Server, NEW w \in Worker, Serves(s, w, "EVAL"), NEW req,
         req = Head(queue[s][w])
  PROVE  /\ req.client \in ClientsOf(s)
         /\ ReportOf(req) \in Waiting(queue[s][w], busy[s][w])
         /\ \A z : z.at = "idle" => ReportOf(req) \notin Waiting(Tail(queue[s][w]), z)
         /\ \A z : z.at = "report" => ReportOf(req) \notin Waiting(queue[s][w], z)
<1>1. PICK x, y : x = queue[s][w] /\ y = busy[s][w]
  OBVIOUS
<1>2. QueueOK(s, x, y) /\ x # <<>> /\ y.at = "idle" /\ req = x[1] /\ x[1].op = "EVAL"
  BY <1>1, ServesHas
<1>3. Len(x) \in Nat /\ Len(x) >= 1 /\ \A i \in 1..Len(x) : RequestOK(s, x[i])
  BY <1>2, QueueLen, QueueTail DEF QueueOK
<1>4. 1 \in 1..Len(x) /\ RequestOK(s, x[1])
  BY <1>3
<1>5. req.client \in ClientsOf(s)
  <2>1. ServerOf(req.client) = s /\ Known(ReportOf(req))
    BY <1>2, <1>4 DEF RequestOK
  <2>2. ReportOf(req)[1] = req.client
    BY DEF ReportOf
  <2>3. req.client \in Client
    BY <2>1, <2>2 DEF Known
  <2> QED BY <2>1, <2>3 DEF ClientsOf
<1>6. 1 \in Live(x, y)
  BY <1>2, <1>4 DEF Live
<1>7. ReportOf(req) \in Waiting(x, y)
  BY <1>2, <1>6 DEF Waiting
<1>8. ASSUME NEW z, z.at = "idle" PROVE ReportOf(req) \notin Waiting(Tail(x), z)
  BY <1>2, <1>8, QueueLoses
<1>9. ASSUME NEW z, z.at = "report" PROVE ReportOf(req) \notin Waiting(x, z)
  <2>1. z.at # "idle" /\ z.at # "totals"
    BY <1>9
  <2> QED BY <1>2, <2>1, QueueServed
<1> QED BY <1>1, <1>5, <1>7, <1>8, <1>9

LEMMA EvalRep ==
  ASSUME conf \in Confs, RepInv, NEW s \in Server, NEW w \in Worker, Eval(s, w)
  PROVE  RepInv'
<1>1. Onward
  <2>1. flaws \subseteq flaws' /\ UNCHANGED <<conf, main>>
    BY DEF Eval, clients
  <2> QED BY <2>1, MainSame
<1>2. UNCHANGED <<tot, net, wsAccTable, logged>> /\ Serves(s, w, "EVAL")
  BY DEF Eval, tensors, peers
<1>3. queue[s][w] # <<>> /\ w \in Threads
  BY <1>2, ServesHas
<1>4. PICK req : req = Head(queue[s][w])
  OBVIOUS
<1>5. PICK report : report = <<req.client, req.epoch>>
  OBVIOUS
<1>6. PICK found : found = {r \in accTable[s] : r[1] = req.client}
  OBVIOUS
<1>7. PICK table : table = (accTable[s] \ found) \cup {report}
  OBVIOUS
<1>8. report = ReportOf(req) /\ report[1] = req.client
  BY <1>5 DEF ReportOf
<1>9. /\ report[1] \in ClientsOf(s)
      /\ report \in Waiting(queue[s][w], busy[s][w])
      /\ \A z : z.at = "idle" => report \notin Waiting(Tail(queue[s][w]), z)
      /\ \A z : z.at = "report" => report \notin Waiting(queue[s][w], z)
  BY <1>2, <1>4, <1>8, Taken
<1>10. Own(s, table)
  <2>1. Own(s, accTable[s])
    BY DEF RepInv, AccOK
  <2> QED BY <1>6, <1>7, <1>8, <1>9, <2>1, Replaces
<1>11. \A r \in table : r \in accTable[s] \/ r = report
  BY <1>7
<1>12. DOMAIN tot = Server
  BY DEF RepInv, RestTypes
<1>13. PICK d : d = <<"queue", s, w>>
  OBVIOUS
<1>14. /\ d \in Spot /\ Reports(d) = Waiting(queue[s][w], busy[s][w])
       /\ Reports(d)' = Waiting(queue'[s][w], busy'[s][w])
  BY <1>13, SpotsIn, ReportsAt, ReportsAtNext
<1>15. PICK e : e = <<"acc", s, 0>>
  OBVIOUS
<1>16. e \in Spot /\ Reports(e) = accTable[s] /\ Reports(e)' = accTable'[s]
  BY <1>15, SpotsIn, ReportsAt, ReportsAtNext
<1>17. CASE /\ accTable' = [accTable EXCEPT ![s] = {}] /\ WholeSum(s, table)
            /\ Goto(s, w, [at |-> "report", sum |-> table]) /\ UNCHANGED requests
  <2>1. PICK b : b = [at |-> "report", sum |-> table]
    OBVIOUS
  <2>2. b.at = "report" /\ b.sum = table /\ Goto(s, w, b) /\ UNCHANGED queue
    BY <1>17, <2>1 DEF requests
  <2>3. busy'[s][w] = b
    BY <1>3, <2>2, GotoAt
  <2>4. SumOK(s, table)'
    <3>1. "early" \notin flaws' => Full(s, table)
      <4> SUFFICES ASSUME "early" \notin flaws' PROVE Full(s, table)
        OBVIOUS
      <4>1. tot[s] # Unset
        BY DEF Eval
      <4>2. tot[s] = TotOf(s)
        BY <4>1 DEF RepInv, TotsOK
      <4>3. Cardinality(table) >= TotOf(s)
        BY <1>17, <4>1, <4>2 DEF WholeSum, NumLambdas
      <4> QED BY <1>10, <4>3, WholeTable
    <3>2. Own(s, table)'
      BY <1>1, <1>10, SumStays
    <3>3. Full(s, table) => Full(s, table)'
      <4>1. ClientsOf(s)' = ClientsOf(s)
        BY <1>1, SameConf DEF Onward
      <4> QED BY <4>1 DEF Full
    <3> QED BY <3>1, <3>2, <3>3 DEF SumOK
  <2>5. ThreadOK(s, b)'
    BY <2>2, <2>4 DEF ThreadOK
  <2>6. PICK a : a = <<"sum", s, w>>
    OBVIOUS
  <2>7. QueuesOK' /\ ThreadsOK' /\ LessQueues(a) /\ LessSums(a)
    BY <1>1, <1>3, <2>2, <2>5, <2>6, GoesOn
  <2>8. Own(s, {})
    BY DEF Own
  <2>9. AccOK' /\ DOMAIN accTable' = Server /\ accTable'[s] = {} /\ LessAcc(a)
    BY <1>1, <1>17, <2>8, AccStep
  <2>10. Less(a)
    BY <1>2, <2>7, <2>9, LessKept DEF Less
  <2>11. a \in Spot /\ Reports(a)' = SumOf(busy'[s][w])
    BY <1>3, <2>6, SpotsIn, ReportsAtNext
  <2>12. Reports(a)' = table
    BY <2>2, <2>3, <2>11 DEF SumOf
  <2>13. ASSUME NEW r \in Reports(a)' PROVE Came(r, a)
    <3>1. r \in accTable[s] \/ r = report
      BY <1>11, <2>12, <2>13
    <3>2. CASE r \in accTable[s]
      <4>1. r \in Reports(e) /\ r \notin Reports(e)'
        BY <1>16, <2>9, <3>2
      <4> QED BY <1>16, <4>1 DEF Came
    <3>3. CASE r = report
      <4>1. r \in Reports(d) /\ r \notin Reports(d)'
        BY <1>9, <1>14, <2>2, <2>3, <3>3
      <4> QED BY <1>14, <4>1 DEF Came
    <3> QED BY <3>1, <3>2, <3>3
  <2>14. Apart'
    BY <1>1, <2>10, <2>11, <2>13, Moves
  <2> QED BY <1>1, <1>2, <1>12, <2>7, <2>9, <2>14, Kept DEF RepInv
<1>18. CASE accTable' = [accTable EXCEPT ![s] = table] /\ Finish(s, w)
  <2>1. QueuesOK' /\ ThreadsOK' /\ LessQueues(e) /\ LessSums(e)
    BY <1>1, <1>3, <1>18, Finishes
  <2>2. AccOK' /\ DOMAIN accTable' = Server /\ accTable'[s] = table /\ LessAcc(e)
    BY <1>1, <1>10, <1>15, <1>18, AccStep
  <2>3. Less(e)
    BY <1>2, <2>1, <2>2, LessKept DEF Less
  <2>4. ASSUME NEW r \in Reports(e)' PROVE Came(r, e)
    <3>1. r \in accTable[s] \/ r = report
      BY <1>11, <1>16, <2>2, <2>4
    <3>2. CASE r \in accTable[s]
      BY <1>16, <3>2 DEF Came
    <3>3. CASE r = report
      <4>1. queue'[s][w] = Tail(queue[s][w]) /\ busy'[s][w].at = "idle"
        BY <1>18, FinishAt
      <4>2. r \in Reports(d) /\ r \notin Reports(d)'
        BY <1>9, <1>14, <3>3, <4>1
      <4> QED BY <1>14, <4>2 DEF Came
    <3> QED BY <3>1, <3>2, <3>3
  <2>5. Apart'
    BY <1>1, <1>16, <2>3, <2>4, Moves
  <2> QED BY <1>1, <1>2, <1>12, <2>1, <2>2, <2>5, Kept DEF RepInv
<1> QED BY <1>4, <1>5, <1>6, <1>7, <1>17, <1>18 DEF Eval

\* The sums of all servers have one report of each client.
LEMMA WholeLog ==
  ASSUME conf \in Confs, NEW T, TableOK(T), "early" \notin flaws, Cardinality(T) >= conf.servers
  PROVE  Whole(Gathered(T))
<1>1. IsFiniteSet(Server) /\ Cardinality(Server) = conf.servers
  <2>1. conf.servers \in Nat \ {0}
    BY ServerFacts
  <2>2. PICK k : k = conf.servers - 1
    OBVIOUS
  <2>3. k \in Int /\ 0 \in Int /\ k >= 0 /\ k - 0 + 1 = conf.servers /\ Server = 0..k
    BY <2>1, <2>2 DEF Server
  <2>4. IsFiniteSet(0..k) /\ Cardinality(0..k) = IF 0 > k THEN 0 ELSE k - 0 + 1
    BY <2>3, FS_Interval
  <2> QED BY <2>3, <2>4
<1>2. PICK f : f = [x \in T |-> x.node]
  OBVIOUS
<1>3. f \in [T -> Server] /\ \A x \in T : f[x] = x.node
  BY <1>2 DEF TableOK
<1>4. \A x \in T, y \in T : f[x] = f[y] => x = y
  BY <1>3 DEF TableOK
<1>5. \A s \in Server : \E x \in T : f[x] = s
  BY <1>1, <1>3, <1>4, Covering
<1>6. ASSUME NEW c \in Client
      PROVE  Cardinality({r \in Gathered(T) : r[1] = c}) = 1
  <2>1. PICK s \in Server : s = ServerOf(c)
    BY ClientServer
  <2>2. PICK x \in T : x.node = s
    BY <1>3, <1>5
  <2>3. c \in ClientsOf(s)
    BY <2>1 DEF ClientsOf
  <2>4. Own(s, x.sum) /\ Full(s, x.sum)
    BY <2>2 DEF TableOK, SumOK
  <2>5. PICK r \in x.sum : r[1] = c
    BY <2>3, <2>4 DEF Full
  <2>6. ASSUME NEW q \in Gathered(T), q[1] = c
        PROVE  q = r
    <3>1. PICK y \in T : q \in y.sum
      BY DEF Gathered
    <3>2. Own(y.node, y.sum)
      BY DEF TableOK, SumOK
    <3>3. y.node = s
      BY <2>1, <2>6, <3>1, <3>2 DEF Own, ClientsOf
    <3>4. y = x
      BY <2>2, <3>3 DEF TableOK
    <3> QED BY <2>4, <2>5, <2>6, <3>1, <3>4 DEF Own
  <2>7. r \in Gathered(T)
    BY DEF Gathered
  <2>8. {q \in Gathered(T) : q[1] = c} = {r}
    BY <2>5, <2>6, <2>7
  <2> QED BY <2>8, FS_Singleton
<1> QED BY <1>6 DEF Whole

\* A sum takes the place of the server's one before.
LEMMA TableGets ==
  ASSUME NEW T, TableOK(T), NEW node \in Server, NEW sum, SumOK(node, sum), NEW found,
         found = {x \in T : x.node = node}
  PROVE  LET U == (T \ found) \cup {[node |-> node, sum |-> sum]} IN
         TableOK(U) /\ \A r \in Gathered(U) : r \in Gathered(T) \/ r \in sum
<1>1. PICK e : e = [node |-> node, sum |-> sum]
  OBVIOUS
<1>2. e.node = node /\ e.sum = sum
  BY <1>1
<1>3. PICK U : U = (T \ found) \cup {e}
  OBVIOUS
<1>4. \A x \in U : (x \in T /\ x.node # node) \/ x = e
  BY <1>3
<1>5. TableOK(U)
  <2>1. ASSUME NEW x \in U
        PROVE  x.node \in Server /\ SumOK(x.node, x.sum)
    BY <1>2, <1>4 DEF TableOK
  <2>2. ASSUME NEW x \in U, NEW y \in U, y.node = x.node
        PROVE  x = y
    BY <1>2, <1>4, <2>2 DEF TableOK
  <2> QED BY <2>1, <2>2 DEF TableOK
<1>6. ASSUME NEW r \in Gathered(U)
      PROVE  r \in Gathered(T) \/ r \in sum
  <2>1. PICK x \in U : r \in x.sum
    BY DEF Gathered
  <2> QED BY <1>2, <1>4, <2>1 DEF Gathered
<1> QED BY <1>1, <1>3, <1>5, <1>6

LEMMA LogGets ==
  ASSUME NEW L, LogOK(L), NEW S, "early" \notin flaws => Whole(S), S \cap LoggedIn(L) = {}
  PROVE  LogOK(Append(L, S)) /\ \A r \in LoggedIn(Append(L, S)) : r \in LoggedIn(L) \/ r \in S
<1>1. PICK z : z = Append(L, S)
  OBVIOUS
<1>2. PICK n : n = Len(L)
  OBVIOUS
<1>3. /\ n \in Nat /\ IsQueue(z) /\ Len(z) = n + 1 /\ z[n + 1] = S /\ \A i \in 1..n : z[i] = L[i]
  BY <1>1, <1>2, QueueLen, QueueAppend DEF LogOK
<1>4. \A i \in 1..Len(z) : (i \in 1..Len(L) /\ z[i] = L[i]) \/ (i = n + 1 /\ z[i] = S)
  BY <1>2, <1>3
<1>5. \A i \in 1..Len(L) : L[i] \subseteq LoggedIn(L)
  BY DEF LoggedIn
<1>6. \A i \in 1..Len(z) : "early" \notin flaws => Whole(z[i])
  BY <1>4 DEF LogOK
<1>7. ASSUME NEW i \in 1..Len(z), NEW j \in 1..Len(z), i # j
      PROVE  z[i] \cap z[j] = {}
  <2>1. CASE i \in 1..Len(L) /\ z[i] = L[i] /\ j \in 1..Len(L) /\ z[j] = L[j]
    BY <1>7, <2>1 DEF LogOK
  <2>2. CASE i \in 1..Len(L) /\ z[i] = L[i] /\ z[j] = S
    BY <1>5, <2>2
  <2>3. CASE z[i] = S /\ j \in 1..Len(L) /\ z[j] = L[j]
    BY <1>5, <2>3
  <2> QED BY <1>4, <1>7, <2>1, <2>2, <2>3
<1>8. LogOK(z)
  BY <1>3, <1>6, <1>7 DEF LogOK
<1>9. ASSUME NEW r \in LoggedIn(z)
      PROVE  r \in LoggedIn(L) \/ r \in S
  <2>1. PICK i \in 1..Len(z) : r \in z[i]
    BY DEF LoggedIn
  <2> QED BY <1>4, <1>5, <2>1
<1> QED BY <1>1, <1>8, <1>9

\* A sum, that was at d, comes to server 0's table, and if it is the last to the log.
LEMMA GlobalRep ==
  ASSUME conf \in Confs, RepInv, Onward, flaws' = flaws, NEW t \in Threads, NEW node \in Server,
         NEW sum, SumOK(node, sum), UpdateGlobalAccLoss(t, node, sum),
         t \in Worker => queue[0][t] # <<>>,
         NEW d \in Spot, d # <<"log", 0, 0>>, sum \subseteq Reports(d),
         \A r \in sum : busy'[0][t].at # "report" => r \notin Reports(d)',
         ChansOK', \A a : LessNet(a), UNCHANGED <<tot, accTable>>
  PROVE  RepInv'
<1>1. 0 \in Server /\ DOMAIN accTable = Server /\ DOMAIN tot = Server /\ TableOK(wsAccTable) /\ LogOK(logged) /\ Apart
  BY ServerFacts DEF RepInv, RestTypes
<1>2. PICK found : found = {x \in wsAccTable : x.node = node}
  OBVIOUS
<1>3. PICK table : table = (wsAccTable \ found) \cup {[node |-> node, sum |-> sum]}
  OBVIOUS
<1>4. TableOK(table) /\ \A r \in Gathered(table) : r \in Gathered(wsAccTable) \/ r \in sum
  BY <1>1, <1>2, <1>3, TableGets
<1>5. PICK e : e = <<"ws", 0, 0>>
  OBVIOUS
<1>6. e \in Spot /\ Reports(e) = Gathered(wsAccTable) /\ Reports(e)' = Gathered(wsAccTable')
  BY <1>5, SpotsIn, ReportsAt, ReportsAtNext
<1>7. PICK a : a = <<"log", 0, 0>>
  OBVIOUS
<1>8. a \in Spot /\ Reports(a) = LoggedIn(logged) /\ Reports(a)' = LoggedIn(logged') /\ a # e
  BY <1>5, <1>7, SpotsIn, ReportsAt, ReportsAtNext
<1>9. ASSUME NEW all, all = UNION {x.sum : x \in table}, Cardinality(table) >= conf.servers,
             wsAccTable' = {}, logged' = Append(logged, all),
             NEW m, Goto(0, t, [at |-> "early", epoch |-> m]), UNCHANGED requests
      PROVE  RepInv'
  <2>1. PICK b : b = [at |-> "early", epoch |-> m]
    OBVIOUS
  <2>2. b.at = "early" /\ Goto(0, t, b) /\ UNCHANGED queue
    BY <1>9, <2>1 DEF requests
  <2>3. busy'[0][t] = b
    BY <1>1, <2>2, GotoAt
  <2>4. ThreadOK(0, b)'
    BY <2>2 DEF ThreadOK
  <2>5. QueuesOK' /\ ThreadsOK' /\ \A c : LessQueues(c) /\ LessSums(c)
    BY <1>1, <2>2, <2>4, GoesOn
  <2>6. all = Gathered(table)
    BY <1>9 DEF Gathered
  <2>7. "early" \notin flaws => Whole(all)
    BY <1>4, <1>9, <2>6, WholeLog
  <2>8. all \cap LoggedIn(logged) = {}
    <3> SUFFICES ASSUME NEW r \in all, r \in LoggedIn(logged) PROVE FALSE
      OBVIOUS
    <3>1. r \in Reports(e) \/ r \in Reports(d)
      BY <1>4, <1>6, <2>6
    <3>2. r \in Reports(a)
      BY <1>8
    <3> QED BY <1>1, <1>6, <1>7, <1>8, <3>1, <3>2 DEF Apart
  <2>9. LogOK(logged') /\ \A r \in LoggedIn(logged') : r \in LoggedIn(logged) \/ r \in all
    BY <1>1, <1>9, <2>7, <2>8, LogGets
  <2>10. LogOK(logged)'
    <3>1. PICK L : L = logged'
      OBVIOUS
    <3>2. LogOK(L)
      BY <2>9, <3>1
    <3>3. LogOK(L)'
      BY <3>2, LogStays
    <3> QED BY <3>1, <3>3
  <2>11. TableOK(wsAccTable)' /\ \A c : LessTable(c)
    BY <1>9 DEF TableOK, LessTable, Gathered
  <2>12. LessLog(a)
    BY <1>7 DEF LessLog
  <2>13. Less(a)
    BY <2>5, <2>11, <2>12, LessKept DEF Less
  <2>14. ASSUME NEW r \in Reports(a)' PROVE Came(r, a)
    <3>1. r \in LoggedIn(logged) \/ r \in Gathered(wsAccTable) \/ r \in sum
      BY <1>4, <1>8, <2>6, <2>9, <2>14
    <3>2. CASE r \in LoggedIn(logged)
      BY <1>8, <3>2 DEF Came
    <3>3. CASE r \in Gathered(wsAccTable)
      <4>1. r \in Reports(e) /\ r \notin Reports(e)'
        BY <1>6, <1>9, <3>3 DEF Gathered
      <4> QED BY <1>6, <4>1 DEF Came
    <3>4. CASE r \in sum
      <4>1. r \in Reports(d) /\ r \notin Reports(d)'
        BY <2>2, <2>3, <3>4
      <4> QED BY <4>1 DEF Came
    <3> QED BY <3>1, <3>2, <3>3, <3>4
  <2>15. Apart'
    BY <1>8, <2>13, <2>14, Moves
  <2> QED BY <1>1, <2>5, <2>10, <2>11, <2>15, Kept DEF RepInv
<1>10. ASSUME wsAccTable' = table, logged' = logged, Finish(0, t)
       PROVE  RepInv'
  <2>1. QueuesOK' /\ ThreadsOK' /\ \A c : LessQueues(c) /\ LessSums(c)
    BY <1>1, <1>10, Finishes
  <2>2. busy'[0][t].at # "report"
    <3>1. PICK b : b = [at |-> "idle"]
      OBVIOUS
    <3>2. Goto(0, t, b) /\ b.at # "report"
      BY <1>10, <3>1 DEF Finish
    <3> QED BY <1>1, <3>2, GotoAt
  <2>3. TableOK(wsAccTable)'
    BY <1>4, <1>10, TableStays
  <2>4. LessTable(e)
    BY <1>5 DEF LessTable
  <2>5. Less(e)
    BY <1>10, <2>1, <2>4, LessKept DEF Less
  <2>6. ASSUME NEW r \in Reports(e)' PROVE Came(r, e)
    <3>1. r \in Reports(e) \/ r \in sum
      BY <1>4, <1>6, <1>10, <2>6
    <3>2. CASE r \in sum
      <4>1. r \in Reports(d) /\ r \notin Reports(d)'
        BY <2>2, <3>2
      <4> QED BY <4>1 DEF Came
    <3> QED BY <3>1, <3>2 DEF Came
  <2>7. Apart'
    BY <1>6, <2>5, <2>6, Moves
  <2> QED BY <1>1, <1>10, <2>1, <2>3, <2>7, Kept DEF RepInv
<1> QED BY <1>2, <1>3, <1>9, <1>10 DEF UpdateGlobalAccLoss

LEMMA ReportRep ==
  ASSUME conf \in Confs, Wired(net, Server), RepInv, NEW s \in Server, NEW w \in Worker, Report(s, w)
  PROVE  RepInv'
<1>1. Onward
  BY MainSame DEF Report, clients
<1>2. UNCHANGED <<tot, accTable>> /\ flaws' = flaws
  BY DEF Report, tensors
<1>3. w \in Threads /\ queue[s][w] # <<>> /\ busy[s][w].at = "report"
  BY BusyHas DEF Report, At, Threads
<1>4. PICK sum : sum = busy[s][w].sum
  OBVIOUS
<1>5. SumOK(s, sum) /\ Apart /\ 0 \in Server /\ DOMAIN accTable = Server /\ DOMAIN tot = Server
  BY <1>3, <1>4, ServerFacts DEF RepInv, RestTypes, ThreadsOK, ThreadOK
<1>6. PICK d : d = <<"sum", s, w>>
  OBVIOUS
<1>7. d \in Spot /\ Reports(d) = SumOf(busy[s][w]) /\ Reports(d)' = SumOf(busy'[s][w])
  BY <1>3, <1>6, SpotsIn, ReportsAt, ReportsAtNext
<1>8. Reports(d) = sum
  BY <1>3, <1>4, <1>7 DEF SumOf
<1>9. CASE s = 0
  <2>1. UpdateGlobalAccLoss(w, 0, sum) /\ UNCHANGED net
    BY <1>4, <1>9 DEF Report
  <2>2. \A r \in sum : busy'[0][w].at # "report" => r \notin Reports(d)'
    BY <1>7, <1>9 DEF SumOf
  <2>3. ChansOK' /\ \A a : LessNet(a)
    BY <1>1, <2>1, SameNet
  <2>4. d # <<"log", 0, 0>>
    BY <1>6
  <2>5. SumOK(0, sum) /\ queue[0][w] # <<>>
    BY <1>3, <1>5, <1>9
  <2> QED BY <1>1, <1>2, <1>3, <1>5, <1>7, <1>8, <2>1, <2>2, <2>3, <2>4, <2>5, GlobalRep
<1>10. CASE s # 0
  <2>1. PICK m : m = [kind |-> "ACCLOSS", sum |-> sum]
    OBVIOUS
  <2>2. m.kind = "ACCLOSS" /\ m.sum = sum
    BY <2>1
  <2>3. net' = [net EXCEPT ![s][0] = Append(@, m)] /\ Finish(s, w) /\ UNCHANGED <<wsAccTable, logged>>
    BY <1>4, <1>10, <2>1 DEF Report
  <2>4. DOMAIN net = Server /\ \A u \in Server : DOMAIN net[u] = Server /\ IsQueue(net[u][0])
    BY <1>5 DEF Wired
  <2>5. \A u \in Server : net'[u][0] = IF u = s THEN Append(net[u][0], m) ELSE net[u][0]
    BY <1>5, <2>3, <2>4
  <2>6. PICK q : q = net[s][0]
    OBVIOUS
  <2>7. PICK a : a = <<"net", s, 0>>
    OBVIOUS
  <2>8. a \in Spot /\ Reports(a) = Underway(q) /\ Reports(a)' = Underway(net'[s][0]) /\ a # d
    BY <1>6, <2>6, <2>7, SpotsIn, ReportsAt, ReportsAtNext
  <2>9. ChanOK(s, q) /\ IsQueue(q)
    BY <2>4, <2>6 DEF RepInv, ChansOK
  <2>10. sum \cap Underway(q) = {}
    BY <1>5, <1>7, <1>8, <2>8 DEF Apart
  <2>11. /\ ChanOK(s, Append(q, m))
         /\ \A r \in Underway(Append(q, m)) : r \in Underway(q) \/ (m.kind = "ACCLOSS" /\ r \in m.sum)
    BY <1>5, <2>2, <2>9, <2>10, ChanGets
  <2>12. ChansOK'
    <3>1. \A u \in Server : ChanOK(u, net[u][0])'
      <4> TAKE u \in Server
      <4>1. PICK z : z = net'[u][0]
        OBVIOUS
      <4>2. ChanOK(u, z)
        BY <2>5, <2>6, <2>11, <4>1 DEF RepInv, ChansOK
      <4>3. ChanOK(u, z)'
        BY <1>1, <4>2, ChanStays
      <4> QED BY <4>1, <4>3
    <3> QED BY <1>1, <3>1, SameConf DEF ChansOK, Onward
  <2>13. LessNet(a)
    BY <2>5, <2>7 DEF LessNet
  <2>14. QueuesOK' /\ ThreadsOK' /\ \A c : LessQueues(c) /\ LessSums(c)
    BY <1>1, <1>3, <2>3, Finishes
  <2>15. Less(a)
    BY <1>2, <2>3, <2>13, <2>14, LessKept DEF Less
  <2>16. ASSUME NEW r \in Reports(a)' PROVE Came(r, a)
    <3>1. r \in Reports(a) \/ r \in sum
      BY <2>2, <2>5, <2>6, <2>8, <2>11, <2>16
    <3>2. CASE r \in sum
      <4>1. busy'[s][w].at = "idle"
        BY <2>3, FinishAt
      <4>2. r \in Reports(d) /\ r \notin Reports(d)'
        BY <1>7, <1>8, <3>2, <4>1 DEF SumOf
      <4> QED BY <1>7, <4>2 DEF Came
    <3> QED BY <3>1, <3>2 DEF Came
  <2>17. Apart'
    BY <1>1, <2>8, <2>15, <2>16, Moves
  <2> QED BY <1>1, <1>2, <1>5, <2>3, <2>12, <2>14, <2>17, Kept DEF RepInv
<1> QED BY <1>9, <1>10

LEMMA RecvAccLossRep ==
  ASSUME conf \in Confs, Wired(net, Server), RepInv, NEW s \in Server, NEW t \in Others(s), RecvAccLoss(s, t)
  PROVE  RepInv'
<1>1. Onward
  BY MainSame DEF RecvAccLoss, clients
<1>2. UNCHANGED <<tot, accTable>> /\ flaws' = flaws /\ s = 0
  BY DEF RecvAccLoss, tensors
<1>3. t \in Server /\ t # 0 /\ 0 \in Server /\ Receiver \in Threads /\ Receiver \notin Worker
  BY <1>2, ServersOK, ServerFacts DEF Others, Threads, Worker, Receiver
<1>4. PICK q : q = net[t][0]
  OBVIOUS
<1>5. DOMAIN net = Server /\ \A u \in Server : DOMAIN net[u] = Server /\ IsQueue(net[u][0])
  BY <1>3 DEF Wired
<1>6. /\ q # <<>> /\ Head(q).kind = "ACCLOSS" /\ net' = [net EXCEPT ![t][0] = Tail(@)]
      /\ UpdateGlobalAccLoss(Receiver, t, Head(q).sum)
  BY <1>2, <1>4 DEF RecvAccLoss, Receives
<1>7. IsQueue(q) /\ ChanOK(t, q)
  BY <1>3, <1>4, <1>5 DEF RepInv, ChansOK
<1>8. PICK sum : sum = Head(q).sum
  OBVIOUS
<1>9. SumOK(t, sum) /\ sum \subseteq Underway(q) /\ sum \cap Underway(Tail(q)) = {}
  BY <1>6, <1>7, <1>8, ChanLoses
<1>10. PICK d : d = <<"net", t, 0>>
  OBVIOUS
<1>11. d \in Spot /\ Reports(d) = Underway(q) /\ Reports(d)' = Underway(net'[t][0]) /\ d # <<"log", 0, 0>>
  BY <1>3, <1>4, <1>10, SpotsIn, ReportsAt, ReportsAtNext
<1>12. \A u \in Server : net'[u][0] = IF u = t THEN Tail(q) ELSE net[u][0]
  BY <1>3, <1>4, <1>5, <1>6
<1>13. \A r \in sum : busy'[0][Receiver].at # "report" => r \notin Reports(d)'
  BY <1>3, <1>9, <1>11, <1>12
<1>14. NetMilder
  BY <1>4, <1>6, <1>12 DEF NetMilder, Milder
<1>15. ChansOK' /\ \A a : LessNet(a)
  BY <1>1, <1>14, NetKept
<1> QED BY <1>1, <1>2, <1>3, <1>6, <1>8, <1>9, <1>11, <1>13, <1>15, GlobalRep

LEMMA RecvRep ==
  ASSUME conf \in Confs, Wired(net, Server), RepInv, NEW s \in Server, NEW t \in Others(s),
         RecvData(s, t) \/ RecvAck(s, t)
  PROVE  RepInv'
<1>1. Onward
  <2>1. flaws \subseteq flaws' /\ UNCHANGED <<conf, main>>
    BY DEF RecvData, RecvAck, clients
  <2> QED BY <2>1, MainSame
<1>2. UNCHANGED <<queue, busy, accTable, wsAccTable, logged>>
  BY DEF RecvData, RecvAck, requests, losses
<1>3. UNCHANGED tot
  BY DEF RecvData, RecvAck, TryApplyUpdate, tensors
<1>4. s # t /\ t \in Server /\ 0 \in Server /\ net[t][s] # <<>>
  BY ServerFacts DEF Others, RecvData, RecvAck, Receives
<1>5. DOMAIN net = Server /\ \A u \in Server : DOMAIN net[u] = Server
  BY DEF Wired
<1>6. PICK m : /\ m.kind = "ACK"
               /\ \/ net' = [net EXCEPT ![t][s] = Tail(@), ![s][t] = Append(@, m)]
                  \/ net' = [net EXCEPT ![t][s] = Tail(@)]
  <2>1. [kind |-> "ACK"].kind = "ACK"
    OBVIOUS
  <2> QED BY <2>1 DEF RecvData, RecvAck
<1>7. ASSUME NEW u \in Server
      PROVE  Milder(net[u][0], net'[u][0])
  <2>1. net'[u][0] = net[u][0] \/ (net[u][0] # <<>> /\ net'[u][0] = Tail(net[u][0])) \/ net'[u][0] = Append(net[u][0], m)
    <3>1. CASE net' = [net EXCEPT ![t][s] = Tail(@)]
      <4>1. PICK x : x = Tail(net[t][s])
        OBVIOUS
      <4>2. net' = [net EXCEPT ![t][s] = x]
        BY <3>1, <4>1
      <4>3. net'[u][0] = IF u = t /\ s = 0 THEN x ELSE net[u][0]
        BY <1>4, <1>5, <4>2
      <4> QED BY <1>4, <4>1, <4>3
    <3>2. CASE net' = [net EXCEPT ![t][s] = Tail(@), ![s][t] = Append(@, m)]
      <4>1. net'[s][t] = Append(net[s][t], m)
        BY <1>4, <1>5, <3>2
      <4>2. net'[t][s] = Tail(net[t][s])
        BY <1>4, <1>5, <3>2
      <4>3. <<u, 0>> # <<s, t>> /\ <<u, 0>> # <<t, s>> => net'[u][0] = net[u][0]
        BY <1>4, <1>5, <3>2
      <4> QED BY <1>4, <4>1, <4>2, <4>3
    <3> QED BY <1>6, <3>1, <3>2
  <2> QED BY <1>6, <2>1 DEF Milder
<1>8. NetMilder
  BY <1>7 DEF NetMilder
<1> QED BY <1>1, <1>2, <1>3, <1>8, NetRep

LEMMA RepInit == Init => RepInv
<1> SUFFICES ASSUME Init PROVE RepInv
  OBVIOUS
<1>1. QueueTypes /\ BusyTypes /\ RestTypes
  BY DEF Init, QueueTypes, BusyTypes, RestTypes, Threads
<1>2. ASSUME NEW s \in Server, NEW w \in Worker
      PROVE  QueueOK(s, queue[s][w], busy[s][w]) /\ Waiting(queue[s][w], busy[s][w]) = {}
  <2>1. queue[s][w] = <<>> /\ busy[s][w].at = "idle"
    BY DEF Init, Threads
  <2>2. IsQueue(<<>>) /\ Len(<<>>) = 0
    BY QueueEmpty
  <2>3. PICK x, y : x = queue[s][w] /\ y = busy[s][w]
    OBVIOUS
  <2>4. IsQueue(x) /\ Len(x) = 0 /\ y.at = "idle"
    BY <2>1, <2>2, <2>3
  <2>5. Live(x, y) = {} /\ 1..Len(x) = {}
    BY <2>4 DEF Live
  <2>6. QueueOK(s, x, y) /\ Waiting(x, y) = {}
    BY <2>4, <2>5 DEF QueueOK, Waiting
  <2> QED BY <2>3, <2>6
<1>3. \A s \in Server, t \in Threads : ThreadOK(s, busy[s][t]) /\ SumOf(busy[s][t]) = {}
  BY DEF Init, Threads, ThreadOK, SumOf
<1>4. \A s \in Server : accTable[s] = {} /\ Own(s, accTable[s]) /\ tot[s] = Unset
  BY DEF Init, Own
<1>5. \A s \in Server : ChanOK(s, net[s][0]) /\ Underway(net[s][0]) = {}
  <2> TAKE s \in Server
  <2>1. conf \in Confs
    BY DEF Init
  <2>2. 0 \in Server
    BY <2>1, ServerFacts
  <2>3. net[s][0] = <<>>
    BY <2>2 DEF Init
  <2>4. Sums(<<>>) = {}
    BY DEF Sums
  <2> QED BY <2>3, <2>4 DEF ChanOK, Underway
<1>6. TableOK(wsAccTable) /\ Gathered(wsAccTable) = {}
  BY DEF Init, TableOK, Gathered
<1>7. LogOK(logged) /\ LoggedIn(logged) = {}
  <2>1. logged = <<>> /\ IsQueue(<<>>) /\ Len(<<>>) = 0
    BY QueueEmpty DEF Init
  <2>2. 1..Len(logged) = {}
    BY <2>1
  <2> QED BY <2>1, <2>2 DEF LogOK, LoggedIn
<1>8. \A p \in Spot : Reports(p) = {}
  <2> TAKE p \in Spot
  <2>1. ASSUME NEW s \in Server, NEW w \in Worker, p = <<"queue", s, w>>
        PROVE  Reports(p) = {}
    BY <1>2, <2>1, ReportsAt
  <2>2. ASSUME NEW s \in Server, NEW t \in Threads, p = <<"sum", s, t>>
        PROVE  Reports(p) = {}
    BY <1>3, <2>2, ReportsAt
  <2>3. ASSUME NEW s \in Server, p = <<"acc", s, 0>> \/ p = <<"net", s, 0>>
        PROVE  Reports(p) = {}
    <3>1. Reports(<<"acc", s, 0>>) = {}
      BY <1>4, ReportsAt
    <3>2. Reports(<<"net", s, 0>>) = {}
      BY <1>5, ReportsAt
    <3> QED BY <2>3, <3>1, <3>2
  <2>4. ASSUME p = <<"ws", 0, 0>> \/ p = <<"log", 0, 0>>
        PROVE  Reports(p) = {}
    <3>1. Reports(<<"ws", 0, 0>>) = {}
      BY <1>6, ReportsAt
    <3>2. Reports(<<"log", 0, 0>>) = {}
      BY <1>7, ReportsAt
    <3> QED BY <2>4, <3>1, <3>2
  <2> QED BY <2>1, <2>2, <2>3, <2>4, SpotsAre
<1>9. Apart
  BY <1>8 DEF Apart
<1> QED BY <1>1, <1>2, <1>3, <1>4, <1>5, <1>6, <1>7, <1>9 DEF RepInv, QueuesOK, ThreadsOK, TotsOK, AccOK, ChansOK

LEMMA RepKeeps ==
  ASSUME AckInv, RepInv, [Next]_vars
  PROVE  RepInv'
<1>1. conf \in Confs /\ Wired(net, Server)
  BY DEF AckInv, Base
<1>2. CASE MasterStarts
  BY <1>1, <1>2, MasterRep
<1>3. ASSUME NEW s \in Others(0), Starts(s) PROVE RepInv'
  BY <1>3, StartsRep
<1>4. CASE SendInfo
  BY <1>1, <1>4, SendInfoRep
<1>5. CASE Shutdown
  BY <1>1, <1>5, ShutdownRep
<1>6. ASSUME NEW c \in Client, Train(c) PROVE RepInv'
  BY <1>1, <1>6, TrainRep
<1>7. ASSUME NEW s \in Server, Receive(s) PROVE RepInv'
  BY <1>1, <1>7, RecvRep, RecvAccLossRep DEF Receive
<1>8. ASSUME NEW s \in Server, NEW w \in Worker, Work(s, w) PROVE RepInv'
  <2>1. CASE Info(s, w)
    BY <2>1, InfoRep
  <2>2. CASE SetTotals(s, w)
    BY <2>2, SetTotalsRep
  <2>3. CASE Pull(s, w)
    BY <1>1, <2>3, PullRep
  <2>4. CASE Terminate(s, w)
    BY <2>4, TerminateRep
  <2>5. CASE Push(s, w)
    BY <2>5, PushRep
  <2>6. CASE ApplyUpdate(s, w)
    BY <1>1, <2>6, ApplyUpdateRep
  <2>7. CASE AcksWait(s, w)
    BY <2>7, AcksWaitRep
  <2>8. CASE Eval(s, w)
    BY <1>1, <2>8, EvalRep
  <2>9. CASE Report(s, w)
    BY <1>1, <2>9, ReportRep
  <2> QED BY <1>8, <2>1, <2>2, <2>3, <2>4, <2>5, <2>6, <2>7, <2>8, <2>9 DEF Work
<1>9. ASSUME NEW t \in Worker \cup {Receiver}, EarlyStop(t) \/ Switch(t) PROVE RepInv'
  BY <1>1, <1>9, EarlyStopRep DEF Threads
<1>10. CASE UNCHANGED vars
  <2>1. /\ UNCHANGED <<conf, main, queue, busy, tot, accTable, net, wsAccTable, logged>>
        /\ flaws \subseteq flaws'
    BY <1>10 DEF vars, clients, requests, tensors, peers, losses
  <2> QED BY <2>1, MainSame, QuietRep
<1> QED BY <1>2, <1>3, <1>4, <1>5, <1>6, <1>7, <1>8, <1>9, <1>10 DEF Next

\* Every sum that is logged has exactly one report of each client, and no report is logged
\* twice, however requests, workers and messages interleave (updateLocalAccLoss and
\* updateGlobalAccLoss, weightserver.cpp), unless reports came before the totals.
THEOREM ReportedOnce == Spec => []ReportsOnce
<1>1. AckInv /\ [Next]_vars => AckInv'
  BY EarlyKeeps, CountingKeeps
<1>2. RepInv => ReportsOnce
  <2> SUFFICES ASSUME RepInv, "early" \notin flaws
               PROVE  /\ \A i \in DOMAIN logged : Whole(logged[i])
                      /\ \A i \in DOMAIN logged, j \in DOMAIN logged :
                           i # j => logged[i] \cap logged[j] = {}
    BY DEF ReportsOnce, Whole
  <2>1. DOMAIN logged = 1..Len(logged)
    BY QueueLen DEF RepInv, LogOK
  <2> QED BY <2>1 DEF RepInv, LogOK
<1>3. Init => AckInv /\ RepInv
  BY AckInit, RepInit
<1>4. AckInv /\ RepInv /\ [Next]_vars => (AckInv /\ RepInv)'
  BY <1>1, RepKeeps
<1> QED BY <1>2, <1>3, <1>4, PTL DEF Spec

-----------------------------------------------------------------------------
(***************************************************************************)
(* Updates.  A gradient of a client of s follows one way on s, from a      *)
(* request to localUpdMat and into the weights, and on every other server  *)
(* u: from the request, by the worker that closes the update, a message    *)
(* and ghostUpdMat, into the weights of u.  On each way it is at one stage *)
(* at a time (OnePlace), so that it is applied once.  localUpdMat is kept  *)
(* after a copy of it was sent; then it is complete (SentWhole), so that   *)
(* no copy of it is sent again.                                            *)
(***************************************************************************)
Home(s) == {g \in Grad : ServerOf(g[1]) = s}

\* What may be in a copy besides gradients.
Stain == IF "raced" \in flaws THEN {Torn} ELSE {}

\* The client of g is past the push of g for layer l.
Due(g, l) == 4 * g[2] + 3 - l
Pushed(g, l) == Due(g, l) < main[g[1]] \/ (Due(g, l) = main[g[1]] /\ snd[g[1]] # l)

\* The requests of a worker, x, and what it does, y, as above: here the pushes.
Pushes(x, y, l) ==
  {i \in 1..Len(x) : x[i].op = "PUSH" /\ x[i].layer = l /\ (i = 1 => y.at = "idle")}
Asks(x, y, l) == {ReportOf(x[i]) : i \in Pushes(x, y, l)}
AsksOK(x, y) ==
  /\ \A i \in 1..Len(x) : x[i].op = "PUSH" => x[i].layer \in Layer
  /\ \A l \in Layer : \A i \in Pushes(x, y, l), j \in Pushes(x, y, l) :
       ReportOf(x[i]) = ReportOf(x[j]) => i = j
  /\ y.at = "apply" => y.layer \in Layer

\* The update that a worker has closed and not copied yet.
Closed(y, l) == IF y.at = "apply" /\ y.layer = l THEN y.closed ELSE {}

\* The stages of the gradients of s for layer l on their way on server u.
Stage == ({"ask", "closed"} \X Worker) \cup ({"local", "net", "ghost", "weights"} \X {0})

Held(p, s, u, l) ==
  IF p[1] = "ask" THEN Asks(queue[s][p[2]], busy[s][p[2]], l)
  ELSE IF p[1] = "weights" THEN weights[u][l] \cap Home(s)
  ELSE IF p[1] = "local" THEN IF u = s THEN local[s][l] ELSE {}
  ELSE IF u = s THEN {}
  ELSE IF p[1] = "closed" THEN Closed(busy[s][p[2]], l)
  ELSE IF p[1] = "net" THEN OnWay(net[s][u], l) \cap Home(s)
  ELSE ghost[u][l] \cap Home(s)

HeldOK(s, u, l) == \A p \in Stage : \A g \in Held(p, s, u, l) : g \in Home(s) /\ Pushed(g, l)
OnePlace(s, u, l) ==
  \A p \in Stage : \A g \in Held(p, s, u, l) : \A q \in Stage : g \in Held(q, s, u, l) => q = p
SentWhole(s, u, l) ==
  u # s => \A p \in Stage : \A g \in Held(p, s, u, l) :
    g \in local[s][l] => Cardinality(local[s][l]) >= tot[s]

\* A copy that was made during an update spoils the ways to the other servers.
Track(s, u, l) ==
  HeldOK(s, u, l) /\ (u = s \/ "raced" \notin flaws => OnePlace(s, u, l) /\ SentWhole(s, u, l))

Matrix(m) == DOMAIN m = Server /\ \A s \in Server : DOMAIN m[s] = Layer
MatricesOK ==
  /\ Matrix(local) /\ Matrix(ghost) /\ Matrix(weights)
  /\ \A s \in Server, l \in Layer :
       /\ local[s][l] \subseteq Home(s) /\ ghost[s][l] \subseteq (Grad \ Home(s)) \cup Stain
       /\ weights[s][l] \subseteq Grad \cup {Torn}

\* Of the threads of client c: n is main[c], v is snd[c].
ClientOK(n, v) ==
  /\ n \in Int /\ -1 <= n /\ n <= 4 * conf.epochs
  /\ v \in {-1} \cup Layer /\ (v # -1 => 0 <= n /\ n % 4 = 3 - v)
ClientsOK ==
  /\ DOMAIN main = Client /\ DOMAIN snd = Client
  /\ \A c \in Client : ClientOK(main[c], snd[c])

AllAsksOK == \A s \in Server, w \in Worker : AsksOK(queue[s][w], busy[s][w])
NetOK ==
  \A s \in Server, u \in Server :
    /\ UpdatesOK(net[s][u], Layer, Home(s) \cup Stain)
    /\ "raced" \notin flaws => Disjoint(net[s][u])
Tracks == \A s \in Server, u \in Server, l \in Layer : Track(s, u, l)

AppInv == MatricesOK /\ ClientsOK /\ AllAsksOK /\ NetOK /\ Tracks

\* What every step does.
Forth ==
  /\ conf' = conf /\ flaws \subseteq flaws'
  /\ \A g \in Grad, l \in Layer : Pushed(g, l) => Pushed(g, l)'

-----------------------------------------------------------------------------
LEMMA GradFinite ==
  ASSUME conf \in Confs
  PROVE  IsFiniteSet(Grad) /\ \A S : S \subseteq Grad => IsFiniteSet(S) /\ Cardinality(S) \in Nat
<1>1. conf.epochs \in Nat /\ conf.clients \in Nat
  BY ServersOK
<1>2. \A n \in Nat : IsFiniteSet(0..n - 1)
  BY FS_Interval
<1>4. IsFiniteSet(Client) /\ IsFiniteSet(0..conf.epochs - 1)
  BY <1>1, <1>2 DEF Client
<1>3. IsFiniteSet(Grad)
  BY <1>4, FS_Product DEF Grad
<1> QED BY <1>3, FS_Subset, FS_CardinalityType

\* A gradient is of one client, of one server.
LEMMA TornApart ==
  ASSUME conf \in Confs
  PROVE  Torn \notin Grad /\ \A s : Torn \notin Home(s) /\ Home(s) \subseteq Grad
<1>1. Torn[1] = -1 /\ -1 \notin Client
  BY ServersOK DEF Torn, Client
<1>2. \A g \in Grad : g[1] \in Client
  BY DEF Grad
<1>3. Torn \notin Grad
  BY <1>1, <1>2
<1> QED BY <1>3 DEF Home

LEMMA HomesApart ==
  ASSUME NEW s, NEW t, s # t
  PROVE  Home(s) \cap Home(t) = {}
BY DEF Home

LEMMA StagesAre ==
  ASSUME NEW p \in Stage
  PROVE  \/ \E w \in Worker : p = <<"ask", w>> \/ p = <<"closed", w>>
         \/ p = <<"local", 0>> \/ p = <<"net", 0>> \/ p = <<"ghost", 0>> \/ p = <<"weights", 0>>
BY DEF Stage

LEMMA StagesIn ==
  /\ \A w \in Worker : <<"ask", w>> \in Stage /\ <<"closed", w>> \in Stage
  /\ <<"local", 0>> \in Stage /\ <<"net", 0>> \in Stage /\ <<"ghost", 0>> \in Stage
  /\ <<"weights", 0>> \in Stage
BY DEF Stage

\* What is held, and what will be.
HeldAre(s, u, l) ==
  /\ \A w : Held(<<"ask", w>>, s, u, l) = Asks(queue[s][w], busy[s][w], l)
  /\ \A w : Held(<<"closed", w>>, s, u, l) = IF u = s THEN {} ELSE Closed(busy[s][w], l)
  /\ Held(<<"local", 0>>, s, u, l) = IF u = s THEN local[s][l] ELSE {}
  /\ Held(<<"net", 0>>, s, u, l) = IF u = s THEN {} ELSE OnWay(net[s][u], l) \cap Home(s)
  /\ Held(<<"ghost", 0>>, s, u, l) = IF u = s THEN {} ELSE ghost[u][l] \cap Home(s)
  /\ Held(<<"weights", 0>>, s, u, l) = weights[u][l] \cap Home(s)

HeldWill(s, u, l) ==
  /\ \A w : Held(<<"ask", w>>, s, u, l)' = Asks(queue'[s][w], busy'[s][w], l)
  /\ \A w : Held(<<"closed", w>>, s, u, l)' = IF u = s THEN {} ELSE Closed(busy'[s][w], l)
  /\ Held(<<"local", 0>>, s, u, l)' = IF u = s THEN local'[s][l] ELSE {}
  /\ Held(<<"net", 0>>, s, u, l)' = IF u = s THEN {} ELSE OnWay(net'[s][u], l) \cap Home(s)
  /\ Held(<<"ghost", 0>>, s, u, l)' = IF u = s THEN {} ELSE ghost'[u][l] \cap Home(s)
  /\ Held(<<"weights", 0>>, s, u, l)' = weights'[u][l] \cap Home(s)

LEMMA HeldAt ==
  ASSUME NEW s, NEW u, NEW l
  PROVE  HeldAre(s, u, l)
BY DEF Held, HeldAre

LEMMA HeldAtNext ==
  ASSUME NEW s, NEW u, NEW l, conf' = conf
  PROVE  HeldWill(s, u, l)
<1>1. Home(s)' = Home(s)
  BY DEF Home, Grad, Client, ServerOf
<1>2. /\ \A w : Held(<<"ask", w>>, s, u, l)' = Asks(queue'[s][w], busy'[s][w], l)
      /\ \A w : Held(<<"closed", w>>, s, u, l)' = IF u = s THEN {} ELSE Closed(busy'[s][w], l)
      /\ Held(<<"local", 0>>, s, u, l)' = IF u = s THEN local'[s][l] ELSE {}
  BY DEF Held, Asks, Pushes, ReportOf, Closed
<1>3. /\ Held(<<"net", 0>>, s, u, l)' = IF u = s THEN {} ELSE OnWay(net'[s][u], l) \cap Home(s)'
      /\ Held(<<"ghost", 0>>, s, u, l)' = IF u = s THEN {} ELSE ghost'[u][l] \cap Home(s)'
      /\ Held(<<"weights", 0>>, s, u, l)' = weights'[u][l] \cap Home(s)'
  BY DEF Held, OnWay, Updates
<1> QED BY <1>1, <1>2, <1>3 DEF HeldWill

(* Requests and messages.                                                  *)

LEMMA AsksAppend ==
  ASSUME NEW x, NEW y, IsQueue(x), AsksOK(x, y), y.at # "idle" => Len(x) > 0,
         NEW m, m.op = "PUSH" => m.layer \in Layer /\ ReportOf(m) \notin Asks(x, y, m.layer)
  PROVE  /\ AsksOK(Append(x, m), y)
         /\ \A l : \A r \in Asks(Append(x, m), y, l) :
              r \in Asks(x, y, l) \/ (m.op = "PUSH" /\ m.layer = l /\ r = ReportOf(m))
<1>1. PICK z : z = Append(x, m)
  OBVIOUS
<1>2. PICK n : n = Len(x)
  OBVIOUS
<1>3. /\ n \in Nat /\ IsQueue(z) /\ Len(z) = n + 1
      /\ \A i \in 1..n : z[i] = x[i]
      /\ z[n + 1] = m
  BY <1>1, <1>2, QueueLen, QueueAppend
<1>4. ASSUME NEW i \in 1..Len(z)
      PROVE  i \in 1..n \/ i = n + 1
  BY <1>3
<1>5. \A i \in 1..Len(z) : z[i].op = "PUSH" => z[i].layer \in Layer
  BY <1>2, <1>3, <1>4 DEF AsksOK
<1>6. ASSUME NEW l, NEW i \in Pushes(z, y, l)
      PROVE  \/ i \in Pushes(x, y, l) /\ z[i] = x[i]
             \/ i = n + 1 /\ z[i] = m /\ m.op = "PUSH" /\ m.layer = l
  <2>1. i \in 1..Len(z) /\ z[i].op = "PUSH" /\ z[i].layer = l /\ (i = 1 => y.at = "idle")
    BY DEF Pushes
  <2>2. CASE i \in 1..n
    BY <1>2, <1>3, <2>1, <2>2 DEF Pushes
  <2>3. CASE i = n + 1
    BY <1>3, <2>1, <2>3
  <2> QED BY <1>4, <2>1, <2>2, <2>3
<1>7. ASSUME NEW l \in Layer, NEW i \in Pushes(z, y, l), NEW j \in Pushes(z, y, l),
             ReportOf(z[i]) = ReportOf(z[j])
      PROVE  i = j
  <2>1. CASE i \in Pushes(x, y, l) /\ z[i] = x[i] /\ j \in Pushes(x, y, l) /\ z[j] = x[j]
    BY <1>7, <2>1 DEF AsksOK
  <2>2. ASSUME NEW k \in Pushes(x, y, l), m.op = "PUSH", m.layer = l
        PROVE  ReportOf(x[k]) # ReportOf(m)
    BY <2>2 DEF Asks
  <2>3. CASE i \in Pushes(x, y, l) /\ z[i] = x[i] /\ j = n + 1 /\ z[j] = m /\ m.op = "PUSH" /\ m.layer = l
    BY <1>7, <2>2, <2>3
  <2>4. CASE j \in Pushes(x, y, l) /\ z[j] = x[j] /\ i = n + 1 /\ z[i] = m /\ m.op = "PUSH" /\ m.layer = l
    BY <1>7, <2>2, <2>4
  <2> QED BY <1>6, <2>1, <2>3, <2>4
<1>8. AsksOK(z, y)
  BY <1>5, <1>7 DEF AsksOK
<1>9. ASSUME NEW l, NEW r \in Asks(z, y, l)
      PROVE  r \in Asks(x, y, l) \/ (m.op = "PUSH" /\ m.layer = l /\ r = ReportOf(m))
  <2>1. PICK i \in Pushes(z, y, l) : r = ReportOf(z[i])
    BY DEF Asks
  <2> QED BY <1>6, <2>1 DEF Asks
<1> QED BY <1>1, <1>8, <1>9

\* The worker is done with its request.
LEMMA AsksTail ==
  ASSUME NEW x, NEW y, IsQueue(x), AsksOK(x, y), x # <<>>, NEW z, z.at = "idle"
  PROVE  /\ AsksOK(Tail(x), z) /\ \A l : Asks(Tail(x), z, l) \subseteq Asks(x, y, l)
         /\ x[1].op = "PUSH" /\ y.at = "idle" => ReportOf(x[1]) \notin Asks(Tail(x), z, x[1].layer)
<1>1. PICK u : u = Tail(x)
  OBVIOUS
<1>2. PICK n : n = Len(x)
  OBVIOUS
<1>3. /\ n \in Nat /\ n >= 1 /\ IsQueue(u) /\ Len(u) = n - 1
      /\ \A i \in 1..n - 1 : u[i] = x[i + 1]
  BY <1>1, <1>2, QueueLen, QueueTail
<1>4. \A i \in 1..Len(u) : i + 1 \in 1..n /\ i + 1 # 1 /\ u[i] = x[i + 1]
  BY <1>3
<1>5. \A i \in 1..Len(u) : u[i].op = "PUSH" => u[i].layer \in Layer
  BY <1>2, <1>4 DEF AsksOK
<1>6. \A l : \A i \in Pushes(u, z, l) : i \in Nat /\ i + 1 \in Pushes(x, y, l) /\ i + 1 # 1 /\ u[i] = x[i + 1]
  BY <1>2, <1>3, <1>4 DEF Pushes
<1>7. ASSUME NEW l \in Layer, NEW i \in Pushes(u, z, l), NEW j \in Pushes(u, z, l),
             ReportOf(u[i]) = ReportOf(u[j])
      PROVE  i = j
  <2>1. ReportOf(x[i + 1]) = ReportOf(x[j + 1])
    BY <1>6, <1>7
  <2>2. i + 1 = j + 1
    BY <1>6, <2>1 DEF AsksOK
  <2> QED BY <1>6, <2>2
<1>8. AsksOK(u, z)
  BY <1>5, <1>7 DEF AsksOK
<1>9. ASSUME NEW l, NEW r \in Asks(u, z, l)
      PROVE  r \in Asks(x, y, l)
  <2>1. PICK i \in Pushes(u, z, l) : r = ReportOf(u[i])
    BY DEF Asks
  <2> QED BY <1>6, <2>1 DEF Asks
<1>10. ASSUME x[1].op = "PUSH", y.at = "idle", ReportOf(x[1]) \in Asks(u, z, x[1].layer)
       PROVE  FALSE
  <2>1. PICK l : l = x[1].layer
    OBVIOUS
  <2>2. PICK i \in Pushes(u, z, l) : ReportOf(x[1]) = ReportOf(u[i])
    BY <1>10, <2>1 DEF Asks
  <2>3. 1 \in Pushes(x, y, l)
    BY <1>2, <1>3, <1>10, <2>1 DEF Pushes
  <2>4. l \in Layer
    BY <1>2, <1>3, <1>10, <2>1 DEF AsksOK
  <2>5. ReportOf(x[1]) = ReportOf(x[i + 1]) /\ i + 1 \in Pushes(x, y, l) /\ i + 1 # 1
    BY <1>6, <2>2
  <2> QED BY <2>3, <2>4, <2>5 DEF AsksOK
<1> QED BY <1>1, <1>8, <1>9, <1>10

\* The worker goes on with its request.
LEMMA AsksServed ==
  ASSUME NEW x, NEW y, IsQueue(x), AsksOK(x, y), x # <<>>,
         NEW z, z.at # "idle", z.at = "apply" => z.layer \in Layer
  PROVE  /\ AsksOK(x, z) /\ \A l : Asks(x, z, l) \subseteq Asks(x, y, l)
         /\ x[1].op = "PUSH" /\ y.at = "idle" => ReportOf(x[1]) \notin Asks(x, z, x[1].layer)
<1>1. \A l : \A i \in Pushes(x, z, l) : i \in Pushes(x, y, l) /\ i # 1
  BY DEF Pushes
<1>2. AsksOK(x, z)
  BY <1>1 DEF AsksOK
<1>3. \A l : Asks(x, z, l) \subseteq Asks(x, y, l)
  BY <1>1 DEF Asks
<1>4. ASSUME x[1].op = "PUSH", y.at = "idle", ReportOf(x[1]) \in Asks(x, z, x[1].layer)
      PROVE  FALSE
  <2>1. PICK l : l = x[1].layer
    OBVIOUS
  <2>2. PICK i \in Pushes(x, z, l) : ReportOf(x[1]) = ReportOf(x[i])
    BY <1>4, <2>1 DEF Asks
  <2>3. Len(x) \in Nat /\ Len(x) >= 1
    BY QueueLen, QueueTail
  <2>4. 1 \in Pushes(x, y, l)
    BY <1>4, <2>1, <2>3 DEF Pushes
  <2>5. l \in Layer
    BY <1>4, <2>1, <2>3 DEF AsksOK
  <2> QED BY <1>1, <2>2, <2>4, <2>5 DEF AsksOK
<1> QED BY <1>2, <1>3, <1>4

(* Steps and the ways of gradients.                                        *)

LEMMA HomeSame ==
  ASSUME conf' = conf
  PROVE  Grad' = Grad /\ \A s : Home(s)' = Home(s)
BY DEF Home, Grad, Client, ServerOf

LEMMA StainMore ==
  ASSUME flaws \subseteq flaws'
  PROVE  Stain \subseteq Stain' /\ ("raced" \notin flaws' => "raced" \notin flaws)
BY DEF Stain, Torn

LEMMA OnePlaceMoves ==
  ASSUME NEW s, NEW u, NEW l, OnePlace(s, u, l), NEW a \in Stage,
         \A p \in Stage : p # a => Held(p, s, u, l)' \subseteq Held(p, s, u, l),
         \A g \in Held(a, s, u, l)' :
           \/ g \in Held(a, s, u, l)
           \/ \E d \in Stage : g \in Held(d, s, u, l) /\ g \notin Held(d, s, u, l)'
           \/ \A d \in Stage : g \notin Held(d, s, u, l)
  PROVE  OnePlace(s, u, l)'
<1>1. Stage' = Stage
  BY DEF Stage, Worker
<1>2. ASSUME NEW p \in Stage, p # a, NEW g \in Held(p, s, u, l)'
      PROVE  g \notin Held(a, s, u, l)'
  <2> SUFFICES ASSUME g \in Held(a, s, u, l)' PROVE FALSE
    OBVIOUS
  <2>1. g \in Held(p, s, u, l)
    BY <1>2
  <2>2. CASE g \in Held(a, s, u, l)
    BY <1>2, <2>1, <2>2 DEF OnePlace
  <2>3. ASSUME NEW d \in Stage, g \in Held(d, s, u, l), g \notin Held(d, s, u, l)'
        PROVE  FALSE
    <3>1. d = p
      BY <2>1, <2>3 DEF OnePlace
    <3> QED BY <1>2, <2>3, <3>1
  <2> QED BY <2>1, <2>2, <2>3
<1>3. ASSUME NEW p \in Stage, NEW q \in Stage, NEW g \in Held(p, s, u, l)', g \in Held(q, s, u, l)'
      PROVE  q = p
  <2>1. CASE p # a /\ q # a
    <3>1. g \in Held(p, s, u, l) /\ g \in Held(q, s, u, l)
      BY <1>3, <2>1
    <3> QED BY <3>1 DEF OnePlace
  <2> QED BY <1>2, <1>3, <2>1
<1> QED BY <1>1, <1>3 DEF OnePlace

LEMMA HeldMoves ==
  ASSUME Forth, NEW s, NEW u, NEW l \in Layer, HeldOK(s, u, l),
         \A p \in Stage : \A g \in Held(p, s, u, l)' :
           (\E d \in Stage : g \in Held(d, s, u, l)) \/ (g \in Home(s) /\ Pushed(g, l)')
  PROVE  HeldOK(s, u, l)'
<1>1. Stage' = Stage /\ Home(s)' = Home(s)
  BY HomeSame DEF Stage, Worker, Forth
<1>2. ASSUME NEW p \in Stage, NEW g \in Held(p, s, u, l)'
      PROVE  g \in Home(s) /\ Pushed(g, l)'
  <2>1. ASSUME NEW d \in Stage, g \in Held(d, s, u, l)
        PROVE  g \in Home(s) /\ Pushed(g, l)'
    <3>1. g \in Home(s) /\ Pushed(g, l)
      BY <2>1 DEF HeldOK
    <3> QED BY <3>1 DEF Forth, Home
  <2> QED BY <1>2, <2>1
<1> QED BY <1>1, <1>2 DEF HeldOK

\* The local matrix stays, or is emptied, and no gradient of it has come to a stage.
LEMMA SentStays ==
  ASSUME NEW s, NEW u, NEW l, SentWhole(s, u, l), conf' = conf,
         \A p \in Stage : \A g \in Held(p, s, u, l)' : g \in local'[s][l] =>
           \E d \in Stage : g \in Held(d, s, u, l),
         local'[s][l] \in {local[s][l], {}},
         Cardinality(local[s][l]) \in Nat, tot[s] \in Int, tot'[s] \in Int, tot'[s] <= tot[s]
  PROVE  SentWhole(s, u, l)'
<1>1. Stage' = Stage
  BY DEF Stage, Worker
<1>2. ASSUME u # s, NEW p \in Stage, NEW g \in Held(p, s, u, l)', g \in local'[s][l]
      PROVE  Cardinality(local'[s][l]) >= tot'[s]
  <2>1. local'[s][l] = local[s][l] /\ g \in local[s][l]
    BY <1>2
  <2>2. Cardinality(local[s][l]) >= tot[s]
    BY <1>2, <2>1 DEF SentWhole
  <2>3. Cardinality(local[s][l]) >= tot'[s]
    BY <2>2
  <2> QED BY <2>1, <2>3
<1> QED BY <1>1, <1>2 DEF SentWhole

LEMMA TrackLess ==
  ASSUME Forth, NEW s, NEW u, NEW l \in Layer, Track(s, u, l),
         \A p \in Stage : Held(p, s, u, l)' \subseteq Held(p, s, u, l),
         local'[s][l] = local[s][l],
         Cardinality(local[s][l]) \in Nat, tot[s] \in Int, tot'[s] \in Int, tot'[s] <= tot[s]
  PROVE  Track(s, u, l)'
<1>1. HeldOK(s, u, l)'
  BY HeldMoves DEF Track
<1>2. <<"net", 0>> \in Stage
  BY StagesIn
<1>3. OnePlace(s, u, l) => OnePlace(s, u, l)'
  BY <1>2, OnePlaceMoves
<1>4. SentWhole(s, u, l) => SentWhole(s, u, l)'
  BY SentStays DEF Forth
<1>5. "raced" \notin flaws' => "raced" \notin flaws
  BY StainMore DEF Forth
<1>6. u = s \/ "raced" \notin flaws' => OnePlace(s, u, l)' /\ SentWhole(s, u, l)'
  BY <1>3, <1>4, <1>5 DEF Track
<1> QED BY <1>1, <1>6 DEF Track

\* Requests, what workers do, and messages bring no gradient to another stage.
QueuesCalm ==
  \A s \in Server, w \in Worker :
    /\ AsksOK(queue'[s][w], busy'[s][w])
    /\ \A l \in Layer : /\ Asks(queue'[s][w], busy'[s][w], l) \subseteq Asks(queue[s][w], busy[s][w], l)
                        /\ Closed(busy'[s][w], l) \subseteq Closed(busy[s][w], l)
NetCalm ==
  \A s \in Server, u \in Server :
    /\ UpdatesOK(net'[s][u], Layer, Home(s) \cup Stain)
    /\ "raced" \notin flaws => Disjoint(net'[s][u])
    /\ \A l \in Layer : OnWay(net'[s][u], l) \subseteq OnWay(net[s][u], l)
\* The first weights may be torn.
WeightsCalm ==
  /\ DOMAIN weights' = Server
  /\ \A s \in Server : /\ DOMAIN weights'[s] = Layer
                       /\ \A l \in Layer : weights'[s][l] \subseteq weights[s][l] \cup {Torn}
TotCalm == \A s \in Server : tot[s] \in Int /\ tot'[s] \in Int /\ tot'[s] <= tot[s]

LEMMA MatricesStay ==
  ASSUME Forth, MatricesOK, UNCHANGED <<local, ghost>>, WeightsCalm
  PROVE  MatricesOK'
<1>1. conf' = conf /\ Server' = Server /\ Stain \subseteq Stain' /\ Grad' = Grad /\ \A s : Home(s)' = Home(s)
  BY HomeSame, StainMore, SameConf DEF Forth
<1>2. Matrix(local)' /\ Matrix(ghost)' /\ Matrix(weights)'
  BY <1>1 DEF Matrix, MatricesOK, Layer, WeightsCalm
<1>3. ASSUME NEW s \in Server, NEW l \in Layer
      PROVE  /\ local'[s][l] \subseteq Home(s) /\ ghost'[s][l] \subseteq (Grad \ Home(s)) \cup Stain'
             /\ weights'[s][l] \subseteq Grad \cup {Torn}
  <2>1. /\ local[s][l] \subseteq Home(s) /\ ghost[s][l] \subseteq (Grad \ Home(s)) \cup Stain
        /\ weights[s][l] \subseteq Grad \cup {Torn}
    BY DEF MatricesOK
  <2>2. weights'[s][l] \subseteq weights[s][l] \cup {Torn}
    BY DEF WeightsCalm
  <2> QED BY <1>1, <2>1, <2>2
<1>4. Layer' = Layer /\ Torn' = Torn
  BY DEF Layer, Torn
<1> QED BY <1>1, <1>2, <1>3, <1>4 DEF MatricesOK

LEMMA NetStays ==
  ASSUME Forth, NetCalm
  PROVE  NetOK'
<1>1. conf' = conf /\ Server' = Server /\ Stain \subseteq Stain' /\ \A s : Home(s)' = Home(s)
  BY HomeSame, StainMore, SameConf DEF Forth
<1>2. "raced" \notin flaws' => "raced" \notin flaws
  BY StainMore DEF Forth
<1>3. ASSUME NEW s \in Server, NEW u \in Server
      PROVE  UpdatesOK(net[s][u], Layer, Home(s) \cup Stain)' /\ ("raced" \notin flaws' => Disjoint(net[s][u])')
  <2>1. PICK q : q = net'[s][u]
    OBVIOUS
  <2>2. UpdatesOK(q, Layer, Home(s) \cup Stain) /\ ("raced" \notin flaws => Disjoint(q))
    BY <2>1 DEF NetCalm
  <2>3. UpdatesOK(q, Layer, Home(s) \cup Stain')
    BY <1>1, <2>2, UpdatesMore
  <2>4. UpdatesOK(net[s][u], Layer, Home(s) \cup Stain)'
    BY <1>1, <2>1, <2>3 DEF UpdatesOK, Layer
  <2>5. Disjoint(q) => Disjoint(net[s][u])'
    BY <2>1 DEF Disjoint, Updates, Layer
  <2> QED BY <1>2, <2>2, <2>4, <2>5
<1> QED BY <1>1, <1>3 DEF NetOK

LEMMA AsksStay ==
  ASSUME conf' = conf, \A s \in Server, w \in Worker : AsksOK(queue'[s][w], busy'[s][w])
  PROVE  AllAsksOK'
<1>1. Server' = Server /\ Worker' = Worker
  BY SameConf DEF Worker
<1>2. ASSUME NEW s \in Server, NEW w \in Worker
      PROVE  AsksOK(queue[s][w], busy[s][w])'
  BY DEF AsksOK, Pushes, ReportOf, Layer
<1> QED BY <1>1, <1>2 DEF AllAsksOK

LEMMA LocalFinite ==
  ASSUME conf \in Confs, MatricesOK, NEW s \in Server, NEW l \in Layer
  PROVE  IsFiniteSet(local[s][l]) /\ Cardinality(local[s][l]) \in Nat /\ local[s][l] \subseteq Home(s)
BY GradFinite, TornApart DEF MatricesOK

LEMMA CalmStep ==
  ASSUME conf \in Confs, AppInv, Forth, ClientsOK', UNCHANGED <<local, ghost>>, WeightsCalm,
         TotCalm, QueuesCalm, NetCalm
  PROVE  AppInv'
<1>1. conf' = conf /\ Server' = Server /\ Layer' = Layer
  BY SameConf DEF Forth, Layer
<1>2. MatricesOK' /\ NetOK' /\ AllAsksOK'
  BY <1>1, MatricesStay, NetStays, AsksStay DEF AppInv, QueuesCalm
<1>3. ASSUME NEW s \in Server, NEW u \in Server, NEW l \in Layer
      PROVE  Track(s, u, l)'
  <2>1. HeldAre(s, u, l)
    BY HeldAt
  <2>2. HeldWill(s, u, l)
    BY <1>1, HeldAtNext
  <2>3. ASSUME NEW p \in Stage
        PROVE  Held(p, s, u, l)' \subseteq Held(p, s, u, l)
    <3>1. ASSUME NEW w \in Worker, p = <<"ask", w>> \/ p = <<"closed", w>>
          PROVE  Held(p, s, u, l)' \subseteq Held(p, s, u, l)
      <4>1. Asks(queue'[s][w], busy'[s][w], l) \subseteq Asks(queue[s][w], busy[s][w], l)
        BY DEF QueuesCalm
      <4>2. Closed(busy'[s][w], l) \subseteq Closed(busy[s][w], l)
        BY DEF QueuesCalm
      <4>3. CASE p = <<"ask", w>>
        BY <2>1, <2>2, <4>1, <4>3 DEF HeldAre, HeldWill
      <4>4. CASE p = <<"closed", w>>
        BY <2>1, <2>2, <4>2, <4>4 DEF HeldAre, HeldWill
      <4> QED BY <3>1, <4>3, <4>4
    <3>2. CASE p = <<"net", 0>>
      <4>1. OnWay(net'[s][u], l) \subseteq OnWay(net[s][u], l)
        BY DEF NetCalm
      <4> QED BY <2>1, <2>2, <3>2, <4>1 DEF HeldAre, HeldWill
    <3>3. CASE p = <<"local", 0>> \/ p = <<"ghost", 0>>
      BY <2>1, <2>2, <3>3 DEF HeldAre, HeldWill
    <3>4. CASE p = <<"weights", 0>>
      <4>1. weights'[u][l] \subseteq weights[u][l] \cup {Torn} /\ Torn \notin Home(s)
        BY TornApart DEF WeightsCalm
      <4> QED BY <2>1, <2>2, <3>4, <4>1 DEF HeldAre, HeldWill
    <3> QED BY <3>1, <3>2, <3>3, <3>4, StagesAre
  <2>4. Cardinality(local[s][l]) \in Nat /\ Track(s, u, l)
    BY LocalFinite DEF AppInv, Tracks
  <2>5. tot[s] \in Int /\ tot'[s] \in Int /\ tot'[s] <= tot[s] /\ local'[s][l] = local[s][l]
    BY DEF TotCalm
  <2> QED BY <2>3, <2>4, <2>5, TrackLess
<1> QED BY <1>1, <1>2, <1>3 DEF AppInv, Tracks

(* What steps do to requests and workers.                                  *)

LEMMA RequestAt ==
  ASSUME RepInv, NEW s \in Server, NEW m, Request(s, m)
  PROVE  \A u \in Server, v \in Worker :
           queue'[u][v] = IF u = s /\ v = rr[s] THEN Append(queue[u][v], m) ELSE queue[u][v]
<1>1. QueueTypes
  BY DEF RepInv, QueuesOK
<1>2. PICK k, q, x : k = rr[s] /\ q = queue' /\ x = Append(queue[s][k], m)
  OBVIOUS
<1>3. q = [queue EXCEPT ![s][k] = x]
  BY <1>2 DEF Request
<1>4. \A u \in Server, v \in Worker : q[u][v] = IF u = s /\ v = k THEN x ELSE queue[u][v]
  BY <1>1, <1>3, TwoLevels DEF QueueTypes
<1> QED BY <1>2, <1>4

LEMMA GotoAll ==
  ASSUME RepInv, NEW s \in Server, NEW t \in Threads, NEW b, Goto(s, t, b)
  PROVE  \A u \in Server, v \in Threads : busy'[u][v] = IF u = s /\ v = t THEN b ELSE busy[u][v]
<1>1. BusyTypes
  BY DEF RepInv, ThreadsOK
<1>2. PICK c : c = busy'
  OBVIOUS
<1>3. c = [busy EXCEPT ![s][t] = b]
  BY <1>2 DEF Goto
<1>4. \A u \in Server, v \in Threads : c[u][v] = IF u = s /\ v = t THEN b ELSE busy[u][v]
  BY <1>1, <1>3, TwoLevels DEF BusyTypes
<1> QED BY <1>2, <1>4

LEMMA FinishAll ==
  ASSUME RepInv, NEW s \in Server, NEW t \in Threads, Finish(s, t)
  PROVE  /\ \A u \in Server, v \in Worker :
              queue'[u][v] = IF u = s /\ v = t THEN Tail(queue[u][v]) ELSE queue[u][v]
         /\ \A u \in Server, v \in Threads :
              busy'[u][v] = IF u = s /\ v = t THEN [at |-> "idle"] ELSE busy[u][v]
<1>1. QueueTypes
  BY DEF RepInv, QueuesOK
<1>2. t \in Worker => t # Receiver
  BY ServersOK DEF Worker, Receiver
<1>3. PICK q, x : q = queue' /\ x = Tail(queue[s][t])
  OBVIOUS
<1>4. \A u \in Server, v \in Worker : q[u][v] = IF u = s /\ v = t THEN x ELSE queue[u][v]
  <2>1. CASE t = Receiver
    BY <1>2, <1>3, <2>1 DEF Finish
  <2>2. CASE t # Receiver
    <3>1. q = [queue EXCEPT ![s][t] = x]
      BY <1>3, <2>2 DEF Finish
    <3> QED BY <1>1, <3>1, TwoLevels DEF QueueTypes
  <2> QED BY <2>1, <2>2
<1>5. Goto(s, t, [at |-> "idle"])
  BY DEF Finish
<1> QED BY <1>3, <1>4, <1>5, GotoAll

\* The requests of a worker.
LEMMA QueueHas ==
  ASSUME RepInv, AllAsksOK, NEW s \in Server, NEW w \in Worker
  PROVE  /\ IsQueue(queue[s][w]) /\ AsksOK(queue[s][w], busy[s][w])
         /\ busy[s][w].at # "idle" => Len(queue[s][w]) > 0
  BY DEF RepInv, QueuesOK, QueueOK, AllAsksOK

LEMMA QueuesSame ==
  ASSUME AllAsksOK, UNCHANGED <<queue, busy>>
  PROVE  QueuesCalm
BY DEF AllAsksOK, QueuesCalm

LEMMA AppendCalm ==
  ASSUME RepInv, AllAsksOK, UNCHANGED busy, NEW m, m.op # "PUSH",
         \A u \in Server, v \in Worker : queue'[u][v] = queue[u][v] \/ queue'[u][v] = Append(queue[u][v], m)
  PROVE  QueuesCalm
<1>1. ASSUME NEW u \in Server, NEW v \in Worker
      PROVE  /\ AsksOK(queue'[u][v], busy'[u][v])
             /\ \A l \in Layer : /\ Asks(queue'[u][v], busy'[u][v], l) \subseteq Asks(queue[u][v], busy[u][v], l)
                                 /\ Closed(busy'[u][v], l) \subseteq Closed(busy[u][v], l)
  <2>1. PICK x, y, z : x = queue[u][v] /\ y = busy[u][v] /\ z = queue'[u][v]
    OBVIOUS
  <2>2. IsQueue(x) /\ AsksOK(x, y) /\ (y.at # "idle" => Len(x) > 0)
    BY <2>1, QueueHas
  <2>3. CASE z = x
    BY <2>1, <2>2, <2>3
  <2>4. CASE z = Append(x, m)
    <3>1. AsksOK(z, y) /\ \A l : \A r \in Asks(z, y, l) : r \in Asks(x, y, l)
      BY <2>2, <2>4, AsksAppend
    <3> QED BY <2>1, <3>1
  <2> QED BY <2>1, <2>3, <2>4
<1> QED BY <1>1 DEF QueuesCalm

LEMMA RequestCalm ==
  ASSUME RepInv, AllAsksOK, UNCHANGED busy, NEW s \in Server, NEW m, m.op # "PUSH", Request(s, m)
  PROVE  QueuesCalm
<1>1. \A u \in Server, v \in Worker :
        queue'[u][v] = IF u = s /\ v = rr[s] THEN Append(queue[u][v], m) ELSE queue[u][v]
  BY RequestAt
<1>2. \A u \in Server, v \in Worker : queue'[u][v] = queue[u][v] \/ queue'[u][v] = Append(queue[u][v], m)
  BY <1>1
<1> QED BY <1>2, AppendCalm

\* Thread t of s is at b then, and its requests are x.
LEMMA WorkerCalm ==
  ASSUME RepInv, AllAsksOK, NEW s \in Server, NEW t \in Threads, NEW b, NEW x,
         \A u \in Server, v \in Worker : queue'[u][v] = IF u = s /\ v = t THEN x ELSE queue[u][v],
         \A u \in Server, v \in Threads : busy'[u][v] = IF u = s /\ v = t THEN b ELSE busy[u][v],
         t \in Worker => /\ AsksOK(x, b)
                         /\ \A l \in Layer : Asks(x, b, l) \subseteq Asks(queue[s][t], busy[s][t], l),
         b.at # "apply"
  PROVE  QueuesCalm
<1>1. \A l : Closed(b, l) = {}
  BY DEF Closed
<1>2. ASSUME NEW u \in Server, NEW v \in Worker
      PROVE  /\ AsksOK(queue'[u][v], busy'[u][v])
             /\ \A l \in Layer : /\ Asks(queue'[u][v], busy'[u][v], l) \subseteq Asks(queue[u][v], busy[u][v], l)
                                 /\ Closed(busy'[u][v], l) \subseteq Closed(busy[u][v], l)
  <2>1. v \in Threads
    BY DEF Threads
  <2>2. CASE u = s /\ v = t
    <3>1. queue'[u][v] = x /\ busy'[u][v] = b
      BY <2>1, <2>2
    <3> QED BY <1>1, <2>2, <3>1
  <2>3. CASE ~(u = s /\ v = t)
    <3>1. queue'[u][v] = queue[u][v] /\ busy'[u][v] = busy[u][v]
      BY <2>1, <2>3
    <3> QED BY <3>1, QueueHas
  <2> QED BY <2>2, <2>3
<1> QED BY <1>2 DEF QueuesCalm

LEMMA GoCalm ==
  ASSUME RepInv, AllAsksOK, NEW s \in Server, NEW t \in Threads, NEW b, Goto(s, t, b), UNCHANGED queue,
         t \in Worker => queue[s][t] # <<>>, b.at \notin {"idle", "apply"}
  PROVE  QueuesCalm
<1>1. PICK x, y : x = queue[s][t] /\ y = busy[s][t]
  OBVIOUS
<1>2. \A u \in Server, v \in Worker : queue'[u][v] = IF u = s /\ v = t THEN x ELSE queue[u][v]
  BY <1>1
<1>3. \A u \in Server, v \in Threads : busy'[u][v] = IF u = s /\ v = t THEN b ELSE busy[u][v]
  BY GotoAll
<1>4. t \in Worker => AsksOK(x, b) /\ \A l \in Layer : Asks(x, b, l) \subseteq Asks(x, y, l)
  <2> SUFFICES ASSUME t \in Worker
               PROVE  AsksOK(x, b) /\ \A l \in Layer : Asks(x, b, l) \subseteq Asks(x, y, l)
    OBVIOUS
  <2>1. IsQueue(x) /\ AsksOK(x, y) /\ x # <<>>
    BY <1>1, QueueHas
  <2> QED BY <2>1, AsksServed
<1> QED BY <1>1, <1>2, <1>3, <1>4, WorkerCalm

LEMMA FinishCalm ==
  ASSUME RepInv, AllAsksOK, NEW s \in Server, NEW t \in Threads, Finish(s, t),
         t \in Worker => queue[s][t] # <<>>
  PROVE  QueuesCalm
<1>1. PICK x, y, z, b : x = queue[s][t] /\ y = busy[s][t] /\ z = Tail(x) /\ b = [at |-> "idle"]
  OBVIOUS
<1>2. \A u \in Server, v \in Worker : queue'[u][v] = IF u = s /\ v = t THEN z ELSE queue[u][v]
  <2>1. \A u \in Server, v \in Worker :
          queue'[u][v] = IF u = s /\ v = t THEN Tail(queue[u][v]) ELSE queue[u][v]
    BY FinishAll
  <2> QED BY <1>1, <2>1
<1>3. \A u \in Server, v \in Threads : busy'[u][v] = IF u = s /\ v = t THEN b ELSE busy[u][v]
  BY <1>1, FinishAll
<1>4. b.at = "idle"
  BY <1>1
<1>5. t \in Worker => AsksOK(z, b) /\ \A l \in Layer : Asks(z, b, l) \subseteq Asks(x, y, l)
  <2> SUFFICES ASSUME t \in Worker
               PROVE  AsksOK(z, b) /\ \A l \in Layer : Asks(z, b, l) \subseteq Asks(x, y, l)
    OBVIOUS
  <2>1. IsQueue(x) /\ AsksOK(x, y) /\ x # <<>>
    BY <1>1, QueueHas
  <2> QED BY <1>1, <1>4, <2>1, AsksTail
<1>6. b.at # "apply"
  BY <1>4
<1>7. t \in Worker => AsksOK(z, b) /\ \A l \in Layer : Asks(z, b, l) \subseteq Asks(queue[s][t], busy[s][t], l)
  BY <1>1, <1>5
<1> QED BY <1>2, <1>3, <1>6, <1>7, WorkerCalm, SMTT(60)

\* A pull leaves its queue, and the client's next may come to another.
LEMMA PullCalm ==
  ASSUME RepInv, AllAsksOK, NEW s \in Server, NEW w \in Worker, Pull(s, w)
  PROVE  QueuesCalm
<1>1. queue[s][w] # <<>> /\ queue[s][w][1].op = "PULL" /\ Head(queue[s][w]) = queue[s][w][1]
      /\ busy[s][w].at = "idle" /\ busy' = busy
  BY ServesHas DEF Pull
<1>2. PICK q, k, m : PullMoves(s, w, q, k, m)
  BY PullMoved
<1>3. PICK x, z : x = Tail(queue[s][w]) /\ z = queue'
  OBVIOUS
<1>4. /\ \A u \in Server, v \in Worker : q[u][v] = IF u = s /\ v = w THEN x ELSE queue[u][v]
      /\ \A u \in Server, v \in Worker : z[u][v] = q[u][v] \/ z[u][v] = Append(q[u][v], m)
      /\ m.op \in {"PULL", "TERM"}
  BY <1>2, <1>3 DEF PullMoves
<1>5. ASSUME NEW u \in Server, NEW v \in Worker
      PROVE  /\ AsksOK(queue'[u][v], busy'[u][v])
             /\ \A l \in Layer : /\ Asks(queue'[u][v], busy'[u][v], l) \subseteq Asks(queue[u][v], busy[u][v], l)
                                 /\ Closed(busy'[u][v], l) \subseteq Closed(busy[u][v], l)
  <2>1. PICK a, y, c, d : a = queue[u][v] /\ y = busy[u][v] /\ c = q[u][v] /\ d = z[u][v]
    OBVIOUS
  <2>2. IsQueue(a) /\ AsksOK(a, y) /\ (y.at # "idle" => Len(a) > 0)
    BY <2>1, QueueHas
  <2>3. /\ IsQueue(c) /\ AsksOK(c, y) /\ (y.at # "idle" => Len(c) > 0)
        /\ \A l : Asks(c, y, l) \subseteq Asks(a, y, l)
    <3>1. CASE u = s /\ v = w
      <4>1. c = Tail(a) /\ a # <<>> /\ y.at = "idle"
        BY <1>1, <1>4, <1>3, <2>1, <3>1
      <4>2. AsksOK(c, y) /\ \A l : Asks(c, y, l) \subseteq Asks(a, y, l)
        BY <2>2, <4>1, AsksTail
      <4> QED BY <2>2, <4>1, <4>2, QueueTail
    <3>2. CASE ~(u = s /\ v = w)
      <4>1. c = a
        BY <1>4, <2>1, <3>2
      <4> QED BY <2>2, <4>1
    <3> QED BY <3>1, <3>2
  <2>4. AsksOK(d, y) /\ \A l : Asks(d, y, l) \subseteq Asks(a, y, l)
    <3>1. CASE d = c
      BY <2>3, <3>1
    <3>2. CASE d = Append(c, m)
      <4>1. m.op # "PUSH"
        BY <1>4
      <4>2. AsksOK(d, y) /\ \A l : \A r \in Asks(d, y, l) : r \in Asks(c, y, l)
        BY <2>3, <3>2, <4>1, AsksAppend
      <4> QED BY <2>3, <4>2
    <3> QED BY <1>4, <2>1, <3>1, <3>2
  <2> QED BY <1>1, <1>3, <2>1, <2>4
<1> QED BY <1>5 DEF QueuesCalm

(* Messages, and the threads of clients.                                   *)

LEMMA NetQuiet ==
  ASSUME Wired(net, Server), NetOK,
         \A s \in Server, u \in Server : \E x : Quieter(net[s][u], Layer, x) /\ Quieter(x, Layer, net'[s][u])
  PROVE  NetCalm
<1>1. ASSUME NEW s \in Server, NEW u \in Server
      PROVE  /\ UpdatesOK(net'[s][u], Layer, Home(s) \cup Stain)
             /\ "raced" \notin flaws => Disjoint(net'[s][u])
             /\ \A l \in Layer : OnWay(net'[s][u], l) \subseteq OnWay(net[s][u], l)
  <2>1. PICK q, z, U : q = net[s][u] /\ z = net'[s][u] /\ U = Home(s) \cup Stain
    OBVIOUS
  <2>2. IsQueue(q) /\ UpdatesOK(q, Layer, U) /\ ("raced" \notin flaws => Disjoint(q))
    BY <2>1 DEF Wired, NetOK
  <2>3. PICK x : Quieter(q, Layer, x) /\ Quieter(x, Layer, z)
    BY <2>1
  <2>4. IsQueue(x) /\ UpdatesOK(x, Layer, U) /\ (Disjoint(q) => Disjoint(x)) /\ \A l : OnWay(x, l) \subseteq OnWay(q, l)
    BY <2>2, <2>3, QuieterChan
  <2>5. UpdatesOK(z, Layer, U) /\ (Disjoint(x) => Disjoint(z)) /\ \A l : OnWay(z, l) \subseteq OnWay(x, l)
    BY <2>3, <2>4, QuieterChan
  <2> QED BY <2>1, <2>2, <2>4, <2>5
<1> QED BY <1>1 DEF NetCalm

LEMMA NetSame ==
  ASSUME Wired(net, Server), NetOK,
         \A s \in Server, u \in Server : Quieter(net[s][u], Layer, net'[s][u])
  PROVE  NetCalm
<1>1. \A q : Quieter(q, Layer, q)
  BY DEF Quieter
<1>2. \A s \in Server, u \in Server : \E x : Quieter(net[s][u], Layer, x) /\ Quieter(x, Layer, net'[s][u])
  BY <1>1
<1> QED BY <1>2, NetQuiet

LEMMA NetUnchanged ==
  ASSUME Wired(net, Server), NetOK, UNCHANGED net
  PROVE  NetCalm
<1>1. \A s \in Server, u \in Server : Quieter(net[s][u], Layer, net'[s][u])
  BY DEF Quieter
<1> QED BY <1>1, NetSame

LEMMA ClientsStill ==
  ASSUME ClientsOK, UNCHANGED <<conf, main, snd>>, flaws \subseteq flaws'
  PROVE  Forth /\ ClientsOK'
<1>1. \A g, l : Pushed(g, l) => Pushed(g, l)'
  BY DEF Pushed, Due
<1>2. Client' = Client /\ Layer' = Layer
  BY SameConf DEF Layer
<1>3. ClientsOK'
  BY <1>2 DEF ClientsOK, ClientOK
<1> QED BY <1>1, <1>3 DEF Forth

LEMMA NextPhase ==
  ASSUME conf \in Confs, NEW n, NEW v, ClientOK(n, v), n % 4 # 0 \/ n \div 4 < conf.epochs,
         NEW w, w \in {-1} \cup Layer, w # -1 => n % 4 = 2 - w
  PROVE  ClientOK(n + 1, w)
<1>1. PICK e : e = conf.epochs /\ e \in Int
  BY ServersOK
<1>2. n \in Int /\ -1 <= n /\ n <= 4 * e
  BY <1>1 DEF ClientOK
<1>3. n < 4 * e
  <2>1. CASE n % 4 # 0
    BY <1>1, <1>2, <2>1
  <2>2. CASE n \div 4 < e /\ n % 4 = 0
    BY <1>1, <1>2, <2>2
  <2> QED BY <1>1, <2>1, <2>2
<1>4. w # -1 => 0 <= n + 1 /\ (n + 1) % 4 = 3 - w
  <2> SUFFICES ASSUME w # -1 PROVE 0 <= n + 1 /\ (n + 1) % 4 = 3 - w
    OBVIOUS
  <2>1. w \in 0..1 /\ n % 4 = 2 - w
    BY DEF Layer
  <2> QED BY <1>2, <2>1
<1> QED BY <1>1, <1>2, <1>3, <1>4 DEF ClientOK

\* Client c goes on to the next phase, and may start to push the layer w.
LEMMA MainOn ==
  ASSUME conf \in Confs, ClientsOK, conf' = conf, flaws' = flaws, NEW c \in Client,
         main' = [main EXCEPT ![c] = @ + 1], NEW w, DOMAIN snd' = Client,
         \A d \in Client : snd'[d] = IF d = c THEN w ELSE snd[d],
         ClientOK(main[c] + 1, w)
  PROVE  Forth /\ ClientsOK'
<1>1. /\ \A d \in Client : main[d] \in Int
      /\ DOMAIN main' = Client
      /\ \A d \in Client : main'[d] = IF d = c THEN main[d] + 1 ELSE main[d]
  BY DEF ClientsOK, ClientOK
<1>2. Client' = Client /\ Layer' = Layer
  BY SameConf DEF Layer
<1>3. ASSUME NEW g \in Grad, NEW l \in Layer, Pushed(g, l)
      PROVE  Pushed(g, l)'
  <2>1. PICK d, k, n, x : d = g[1] /\ k = Due(g, l) /\ n = main[d] /\ x = main'[d]
    OBVIOUS
  <2>2. d \in Client /\ k \in Int
    <3>1. g[1] \in Client /\ g[2] \in 0..conf.epochs - 1
      BY DEF Grad
    <3>2. g[2] \in Int /\ l \in Int
      BY <3>1, ServersOK DEF Layer
    <3> QED BY <2>1, <3>1, <3>2 DEF Due
  <2>3. n \in Int /\ x = IF d = c THEN n + 1 ELSE n
    BY <1>1, <2>1, <2>2
  <2>4. k < n \/ (k = n /\ snd[d] # l)
    BY <1>3, <2>1 DEF Pushed
  <2>5. CASE d = c
    <3>1. k < x
      BY <2>2, <2>3, <2>4, <2>5
    <3> QED BY <2>1, <3>1 DEF Pushed, Due
  <2>6. CASE d # c
    <3>1. x = n /\ snd'[d] = snd[d]
      BY <2>2, <2>3, <2>6
    <3> QED BY <2>1, <2>4, <3>1 DEF Pushed, Due
  <2> QED BY <2>5, <2>6
<1>4. ASSUME NEW d \in Client
      PROVE  ClientOK(main[d], snd[d])'
  <2>1. PICK n, v : n = main'[d] /\ v = snd'[d]
    OBVIOUS
  <2>2. CASE d = c
    <3>1. n = main[c] + 1 /\ v = w
      BY <1>1, <2>1, <2>2
    <3>2. ClientOK(n, v)
      BY <3>1
    <3> QED BY <1>2, <2>1, <3>2 DEF ClientOK
  <2>3. CASE d # c
    <3>1. n = main[d] /\ v = snd[d]
      BY <1>1, <2>1, <2>3
    <3>2. ClientOK(n, v)
      BY <3>1 DEF ClientsOK
    <3> QED BY <1>2, <2>1, <3>2 DEF ClientOK
  <2> QED BY <2>2, <2>3
<1> QED BY <1>1, <1>2, <1>3, <1>4 DEF Forth, ClientsOK

\* wSndThread of c has pushed.
LEMMA SndDone ==
  ASSUME conf \in Confs, ClientsOK, UNCHANGED <<conf, main, flaws>>, NEW c \in Client,
         snd' = [snd EXCEPT ![c] = -1]
  PROVE  Forth /\ ClientsOK'
<1>1. /\ DOMAIN snd' = Client
      /\ \A d \in Client : snd'[d] = IF d = c THEN -1 ELSE snd[d]
  BY DEF ClientsOK
<1>2. Client' = Client /\ Layer' = Layer
  BY SameConf DEF Layer
<1>3. ASSUME NEW g \in Grad, NEW l \in Layer, Pushed(g, l)
      PROVE  Pushed(g, l)'
  <2>1. PICK d : d = g[1] /\ d \in Client
    BY DEF Grad
  <2>2. snd'[d] = snd[d] \/ snd'[d] = -1
    BY <1>1, <2>1
  <2>3. l # -1
    BY DEF Layer
  <2> QED BY <1>3, <2>1, <2>2, <2>3 DEF Pushed, Due
<1>4. ASSUME NEW d \in Client
      PROVE  ClientOK(main[d], snd[d])'
  <2>1. ClientOK(main[d], snd[d]) /\ (snd'[d] = snd[d] \/ snd'[d] = -1)
    BY <1>1 DEF ClientsOK
  <2> QED BY <1>2, <2>1 DEF ClientOK
<1> QED BY <1>1, <1>2, <1>3, <1>4 DEF Forth, ClientsOK

(* Steps that bring no gradient to another stage.                          *)

LEMMA TotTypes ==
  ASSUME conf \in Confs, RepInv, NEW s \in Server
  PROVE  TotOf(s) \in Nat /\ TotOf(s) < Unset /\ Unset \in Int /\ tot[s] \in Int /\ TotOf(s) <= tot[s]
<1>1. PICK n : n = TotOf(s)
  OBVIOUS
<1>2. IsFiniteSet(ClientsOf(s)) /\ Cardinality(ClientsOf(s)) = n /\ n \in Nat
  BY <1>1, Split
<1>3. PICK k : k = conf.clients /\ k \in Nat
  BY ServersOK
<1>4. IsFiniteSet(Client) /\ Cardinality(Client) = k
  <2>1. PICK m : m = k - 1
    OBVIOUS
  <2>2. m \in Int /\ (0 > m => m = -1)
    BY <1>3, <2>1
  <2>3. IsFiniteSet(0..m) /\ Cardinality(0..m) = IF 0 > m THEN 0 ELSE m - 0 + 1
    BY <2>2, FS_Interval
  <2>4. Cardinality(0..m) = k
    BY <1>3, <2>1, <2>3
  <2> QED BY <1>3, <2>1, <2>3, <2>4 DEF Client
<1>5. n <= k
  <2>1. ClientsOf(s) \subseteq Client
    BY DEF ClientsOf
  <2> QED BY <1>2, <1>4, <2>1, FS_Subset
<1>6. k < Unset
  BY <1>3, UnsetOK
<1>7. Unset = 1000
  BY DEF Unset
<1>8. tot[s] = Unset \/ tot[s] = n
  BY <1>1 DEF RepInv, TotsOK
<1>9. n < Unset
  BY <1>2, <1>3, <1>5, <1>6, <1>7
<1>10. tot[s] \in Int /\ n <= tot[s]
  BY <1>2, <1>7, <1>8, <1>9
<1> QED BY <1>1, <1>2, <1>7, <1>9, <1>10

LEMMA TotSame ==
  ASSUME conf \in Confs, RepInv, UNCHANGED tot
  PROVE  TotCalm
<1>1. ASSUME NEW s \in Server
      PROVE  tot[s] \in Int /\ tot'[s] \in Int /\ tot'[s] <= tot[s]
  BY TotTypes
<1> QED BY <1>1 DEF TotCalm

LEMMA WeightsSame ==
  ASSUME AppInv, UNCHANGED weights
  PROVE  WeightsCalm
BY DEF AppInv, MatricesOK, Matrix, WeightsCalm

LEMMA StillStep ==
  ASSUME conf \in Confs, AppInv, UNCHANGED <<conf, main, snd, local, ghost, weights>>, flaws \subseteq flaws',
         TotCalm, QueuesCalm, NetCalm
  PROVE  AppInv'
<1>1. Forth /\ ClientsOK'
  BY ClientsStill DEF AppInv
<1> QED BY <1>1, WeightsSame, CalmStep

\* What the invariants say of a state in which a step is taken.
Bases == conf \in Confs /\ Wired(net, Server) /\ RepInv /\ AppInv

LEMMA BasesHave ==
  ASSUME Bases
  PROVE  conf \in Confs /\ Wired(net, Server) /\ RepInv /\ AppInv /\ AllAsksOK /\ NetOK
BY DEF Bases, AppInv

\* A thread goes on with its request, or is done with it, and nothing else that matters changes.
LEMMA ThreadStep ==
  ASSUME Bases, UNCHANGED <<conf, main, snd, tot, local, ghost, weights>>, flaws \subseteq flaws',
         QueuesCalm, \A s \in Server, u \in Server : Quieter(net[s][u], Layer, net'[s][u])
  PROVE  AppInv'
BY BasesHave, TotSame, NetSame, StillStep

LEMMA NetUnread ==
  ASSUME UNCHANGED net
  PROVE  \A s \in Server, u \in Server : Quieter(net[s][u], Layer, net'[s][u])
BY DEF Quieter

LEMMA InfoApp ==
  ASSUME Bases, NEW s \in Server, NEW w \in Worker, Info(s, w)
  PROVE  AppInv'
<1>1. /\ UNCHANGED <<conf, main, snd, tot, local, ghost, weights>> /\ flaws \subseteq flaws'
      /\ UNCHANGED <<net, queue>>
  BY DEF Info, requests, tensors, peers
<1>2. queue[s][w] # <<>> /\ w \in Threads
  BY BasesHave, ServesHas DEF Info
<1>3. PICK b : b = [at |-> "totals"]
  OBVIOUS
<1>4. Goto(s, w, b) /\ b.at \notin {"idle", "apply"}
  BY <1>3 DEF Info
<1>5. QueuesCalm
  BY <1>1, <1>2, <1>4, BasesHave, GoCalm
<1> QED BY <1>1, <1>5, NetUnread, ThreadStep

LEMMA TerminateApp ==
  ASSUME Bases, NEW s \in Server, NEW w \in Worker, Terminate(s, w)
  PROVE  AppInv'
<1>1. /\ UNCHANGED <<conf, main, snd, tot, local, ghost, weights>> /\ flaws \subseteq flaws'
      /\ UNCHANGED net
  BY DEF Terminate, clients, tensors, peers
<1>2. queue[s][w] # <<>> /\ w \in Threads /\ Finish(s, w)
  BY BasesHave, ServesHas DEF Terminate
<1>3. QueuesCalm
  BY <1>2, BasesHave, FinishCalm
<1> QED BY <1>1, <1>3, NetUnread, ThreadStep

LEMMA AcksWaitApp ==
  ASSUME Bases, NEW s \in Server, NEW w \in Worker, AcksWait(s, w)
  PROVE  AppInv'
<1>1. /\ UNCHANGED <<conf, main, snd, tot, local, ghost, weights>> /\ flaws \subseteq flaws'
      /\ UNCHANGED net
  BY DEF AcksWait, clients, tensors, peers
<1>2. queue[s][w] # <<>> /\ w \in Threads /\ Finish(s, w)
  BY BasesHave, BusyHas DEF AcksWait, At, Threads
<1>3. QueuesCalm
  BY <1>2, BasesHave, FinishCalm
<1> QED BY <1>1, <1>3, NetUnread, ThreadStep

LEMMA PullApp ==
  ASSUME Bases, NEW s \in Server, NEW w \in Worker, Pull(s, w)
  PROVE  AppInv'
<1>1. /\ UNCHANGED <<conf, main, snd, tot, local, ghost, weights>> /\ flaws \subseteq flaws'
      /\ UNCHANGED net
  BY DEF Pull, tensors, peers
<1>2. QueuesCalm
  BY BasesHave, PullCalm
<1> QED BY <1>1, <1>2, NetUnread, ThreadStep

LEMMA EvalApp ==
  ASSUME Bases, NEW s \in Server, NEW w \in Worker, Eval(s, w)
  PROVE  AppInv'
<1>1. /\ UNCHANGED <<conf, main, snd, tot, local, ghost, weights>> /\ flaws \subseteq flaws'
      /\ UNCHANGED net
  BY DEF Eval, clients, tensors, peers
<1>2. queue[s][w] # <<>> /\ w \in Threads
  BY BasesHave, ServesHas DEF Eval
<1>3. PICK S : Finish(s, w) \/ (Goto(s, w, [at |-> "report", sum |-> S]) /\ UNCHANGED queue)
  BY DEF Eval, requests
<1>4. QueuesCalm
  <2>1. CASE Finish(s, w)
    BY <1>2, <2>1, BasesHave, FinishCalm
  <2>2. CASE Goto(s, w, [at |-> "report", sum |-> S]) /\ UNCHANGED queue
    <3>1. PICK b : b = [at |-> "report", sum |-> S]
      OBVIOUS
    <3>2. Goto(s, w, b) /\ b.at \notin {"idle", "apply"}
      BY <2>2, <3>1
    <3> QED BY <1>2, <2>2, <3>2, BasesHave, GoCalm
  <2> QED BY <1>3, <2>1, <2>2
<1> QED BY <1>1, <1>4, NetUnread, ThreadStep

\* Thread t of server 0 puts a sum into the table.
LEMMA GlobalCalm ==
  ASSUME Bases, NEW t \in Threads, NEW node, NEW sum, UpdateGlobalAccLoss(t, node, sum),
         t \in Worker => queue[0][t] # <<>>
  PROVE  QueuesCalm
<1>1. 0 \in Server
  BY BasesHave, ServerFacts
<1>2. PICK e : Finish(0, t) \/ (Goto(0, t, [at |-> "early", epoch |-> e]) /\ UNCHANGED queue)
  BY DEF UpdateGlobalAccLoss, requests
<1>3. CASE Finish(0, t)
  BY <1>1, <1>3, BasesHave, FinishCalm
<1>4. CASE Goto(0, t, [at |-> "early", epoch |-> e]) /\ UNCHANGED queue
  <2>1. PICK b : b = [at |-> "early", epoch |-> e]
    OBVIOUS
  <2>2. Goto(0, t, b) /\ b.at \notin {"idle", "apply"}
    BY <1>4, <2>1
  <2> QED BY <1>1, <1>4, <2>2, BasesHave, GoCalm
<1> QED BY <1>2, <1>3, <1>4

LEMMA ReportApp ==
  ASSUME Bases, NEW s \in Server, NEW w \in Worker, Report(s, w)
  PROVE  AppInv'
<1>1. UNCHANGED <<conf, main, snd, tot, local, ghost, weights>> /\ flaws \subseteq flaws'
  BY DEF Report, clients, tensors
<1>2. queue[s][w] # <<>> /\ w \in Threads
  BY BasesHave, BusyHas DEF Report, At, Threads
<1>3. CASE s = 0
  <2>1. QueuesCalm /\ UNCHANGED net
    BY <1>2, <1>3, GlobalCalm DEF Report
  <2> QED BY <1>1, <2>1, NetUnread, ThreadStep
<1>4. CASE s # 0
  <2>1. QueuesCalm
    BY <1>2, <1>4, BasesHave, FinishCalm DEF Report
  <2>2. PICK m : m = [kind |-> "ACCLOSS", sum |-> busy[s][w].sum]
    OBVIOUS
  <2>3. m.kind # "DATA" /\ net' = [net EXCEPT ![s][0] = Append(@, m)]
    BY <1>4, <2>2 DEF Report
  <2>4. ASSUME NEW a \in Server, NEW u \in Server
        PROVE  Quieter(net[a][u], Layer, net'[a][u])
    <3>1. DOMAIN net = Server /\ DOMAIN net[a] = Server
      BY BasesHave DEF Wired
    <3>2. net'[a][u] = net[a][u] \/ net'[a][u] = Append(net[a][u], m)
      BY <2>3, <3>1
    <3> QED BY <2>3, <3>2 DEF Quieter
  <2> QED BY <1>1, <2>1, <2>4, ThreadStep
<1> QED BY <1>3, <1>4

LEMMA EarlyStopApp ==
  ASSUME Bases, NEW t \in Threads, EarlyStop(t) \/ Switch(t)
  PROVE  AppInv'
<1>1. /\ UNCHANGED <<conf, main, snd, tot, local, ghost, weights>> /\ flaws \subseteq flaws'
      /\ UNCHANGED net
  BY DEF EarlyStop, Switch, clients, tensors, peers, losses
<1>2. 0 \in Server
  BY BasesHave, ServerFacts
<1>3. t \in Worker => queue[0][t] # <<>>
  <2>1. busy[0][t].at # "idle"
    BY DEF EarlyStop, Switch, At
  <2> QED BY <1>2, <2>1, BasesHave, BusyHas
<1>4. PICK x : Finish(0, t) \/ (Goto(0, t, [at |-> "switch", to |-> x]) /\ UNCHANGED queue)
  BY DEF EarlyStop, Switch, requests
<1>5. QueuesCalm
  <2>1. CASE Finish(0, t)
    BY <1>2, <1>3, <2>1, BasesHave, FinishCalm
  <2>2. CASE Goto(0, t, [at |-> "switch", to |-> x]) /\ UNCHANGED queue
    <3>1. PICK b : b = [at |-> "switch", to |-> x]
      OBVIOUS
    <3>2. Goto(0, t, b) /\ b.at \notin {"idle", "apply"}
      BY <2>2, <3>1
    <3> QED BY <1>2, <1>3, <2>2, <3>2, BasesHave, GoCalm
  <2> QED BY <1>4, <2>1, <2>2
<1> QED BY <1>1, <1>5, NetUnread, ThreadStep

LEMMA SetTotalsApp ==
  ASSUME Bases, NEW s \in Server, NEW w \in Worker, SetTotals(s, w)
  PROVE  AppInv'
<1>1. UNCHANGED <<conf, main, snd, local, ghost, weights, net>> /\ flaws \subseteq flaws'
  BY DEF SetTotals, clients, peers
<1>2. queue[s][w] # <<>> /\ w \in Threads /\ Finish(s, w) /\ busy[s][w].at = "totals"
  BY BasesHave, BusyHas DEF SetTotals, At, Threads
<1>3. QueuesCalm
  BY <1>2, BasesHave, FinishCalm
<1>4. tot' = [tot EXCEPT ![s] = TotOf(s)] /\ DOMAIN tot = Server
  <2>1. QueueOK(s, queue[s][w], busy[s][w])
    BY BasesHave DEF RepInv, QueuesOK
  <2>2. queue[s][w][1].op = "INFO" /\ Head(queue[s][w]) = queue[s][w][1]
    BY <1>2, <2>1, QueueTail DEF QueueOK
  <2>3. 1 \in 1..Len(queue[s][w])
    BY <1>2, <2>1, QueueTail, QueueLen DEF QueueOK
  <2>4. queue[s][w][1].cnt = TotOf(s)
    BY <2>1, <2>2, <2>3 DEF QueueOK, RequestOK
  <2> QED BY <2>2, <2>4, BasesHave DEF SetTotals, RepInv, RestTypes
<1>5. TotCalm
  <2>1. ASSUME NEW u \in Server
        PROVE  tot[u] \in Int /\ tot'[u] \in Int /\ tot'[u] <= tot[u]
    <3>1. tot[u] \in Int /\ TotOf(u) \in Nat /\ TotOf(u) <= tot[u]
      BY BasesHave, TotTypes
    <3>2. tot'[u] = IF u = s THEN TotOf(u) ELSE tot[u]
      BY <1>4
    <3> QED BY <3>1, <3>2
  <2> QED BY <2>1 DEF TotCalm
<1>6. NetCalm
  BY <1>1, BasesHave, NetUnchanged
<1> QED BY <1>1, <1>3, <1>5, <1>6, BasesHave, StillStep

LEMMA RecvAckApp ==
  ASSUME Bases, NEW s \in Server, NEW t \in Others(s), RecvAck(s, t) \/ RecvAccLoss(s, t)
  PROVE  AppInv'
<1>1. UNCHANGED <<conf, main, snd, tot, local, ghost, weights>> /\ flaws \subseteq flaws'
  BY DEF RecvAck, RecvAccLoss, clients, tensors
<1>2. net[t][s] # <<>> /\ net' = [net EXCEPT ![t][s] = Tail(@)] /\ t \in Server
  BY DEF RecvAck, RecvAccLoss, Receives, Others
<1>3. ASSUME NEW a \in Server, NEW u \in Server
      PROVE  Quieter(net[a][u], Layer, net'[a][u])
  <2>1. DOMAIN net = Server /\ DOMAIN net[a] = Server
    BY BasesHave DEF Wired
  <2>2. net'[a][u] = IF a = t /\ u = s THEN Tail(net[a][u]) ELSE net[a][u]
    BY <1>2, <2>1
  <2> QED BY <1>2, <2>2 DEF Quieter
<1>4. QueuesCalm
  <2>1. CASE RecvAck(s, t)
    BY <2>1, BasesHave, QueuesSame DEF RecvAck, requests
  <2>2. CASE RecvAccLoss(s, t)
    <3>1. Receiver \in Threads /\ Receiver \notin Worker
      BY ServersOK DEF Threads, Worker, Receiver
    <3> QED BY <2>2, <3>1, GlobalCalm DEF RecvAccLoss
  <2> QED BY <2>1, <2>2
<1> QED BY <1>1, <1>3, <1>4, ThreadStep

LEMMA SendInfoApp ==
  ASSUME Bases, SendInfo
  PROVE  AppInv'
<1>1. /\ UNCHANGED <<conf, main, snd, tot, local, ghost, weights>> /\ flaws \subseteq flaws'
      /\ UNCHANGED <<net, busy>>
  BY DEF SendInfo, tensors, peers
<1>2. PICK s \in Server : informed = 2 * s
  BY DEF SendInfo
<1>3. s = informed \div 2
  BY <1>2, ServerFacts, BasesHave
<1>4. PICK m : m = [op |-> "INFO", cnt |-> SplitTot(s, conf.clients, conf.servers)]
  OBVIOUS
<1>5. m.op # "PUSH" /\ Request(s, m)
  BY <1>3, <1>4 DEF SendInfo
<1>6. QueuesCalm
  BY <1>1, <1>5, BasesHave, RequestCalm
<1> QED BY <1>1, <1>6, NetUnread, ThreadStep

LEMMA ShutdownApp ==
  ASSUME Bases, Shutdown
  PROVE  AppInv'
<1>1. /\ UNCHANGED <<conf, main, snd, tot, local, ghost, weights>> /\ flaws \subseteq flaws'
      /\ UNCHANGED <<net, busy>>
  BY DEF Shutdown, tensors, peers
<1>2. PICK m : m = [op |-> "TERM"]
  OBVIOUS
<1>3. m.op # "PUSH" /\ queue' = [s \in Server |-> [queue[s] EXCEPT ![rr[s]] = Append(@, m)]]
  BY <1>2 DEF Shutdown
<1>4. ASSUME NEW u \in Server, NEW v \in Worker
      PROVE  queue'[u][v] = queue[u][v] \/ queue'[u][v] = Append(queue[u][v], m)
  <2>1. DOMAIN queue[u] = Worker
    BY BasesHave DEF RepInv, QueuesOK, QueueTypes
  <2>2. queue'[u] = [queue[u] EXCEPT ![rr[u]] = Append(@, m)]
    BY <1>3
  <2> QED BY <2>1, <2>2
<1>5. QueuesCalm
  BY <1>1, <1>3, <1>4, BasesHave, AppendCalm
<1> QED BY <1>1, <1>5, NetUnread, ThreadStep

\* A client goes on to its next phase, and sends no update.
LEMMA PhaseStep ==
  ASSUME Bases, UNCHANGED <<conf, flaws, tot, local, ghost, weights, net, busy>>, NEW c \in Client,
         main' = [main EXCEPT ![c] = @ + 1], NEW w, w = snd[c] \/ w \in Layer,
         \/ snd' = snd /\ w = snd[c]
         \/ snd' = [snd EXCEPT ![c] = w],
         snd[c] = -1 \/ main[c] % 4 = 1, w \in Layer => main[c] % 4 = 2 - w,
         main[c] % 4 # 0 \/ main[c] \div 4 < conf.epochs,
         QueuesCalm
  PROVE  AppInv'
<1>1. ClientsOK /\ ClientOK(main[c], snd[c]) /\ conf \in Confs
  BY BasesHave DEF AppInv, ClientsOK
<1>2. PICK n, v : n = main[c] /\ v = snd[c]
  OBVIOUS
<1>3. v = -1
  <2>1. v \in {-1} \cup 0..1 /\ (v # -1 => n % 4 = 3 - v) /\ (v = -1 \/ n % 4 = 1)
    BY <1>1, <1>2 DEF ClientOK, Layer
  <2> QED BY <2>1
<1>4. w \in {-1} \cup Layer /\ (w # -1 => n % 4 = 2 - w)
  BY <1>2, <1>3
<1>5. ClientOK(n + 1, w)
  BY <1>1, <1>2, <1>4, NextPhase
<1>6. DOMAIN snd' = Client /\ \A d \in Client : snd'[d] = IF d = c THEN w ELSE snd[d]
  BY <1>1 DEF ClientsOK
<1>7. Forth /\ ClientsOK'
  <2>1. ClientOK(main[c] + 1, w) /\ conf' = conf /\ flaws' = flaws
    BY <1>2, <1>5
  <2>2. conf \in Confs /\ ClientsOK /\ main' = [main EXCEPT ![c] = @ + 1]
    BY <1>1
  <2>3. DOMAIN snd' = Client /\ \A d \in Client : snd'[d] = IF d = c THEN w ELSE snd[d]
    BY <1>6
  <2> QED BY <2>1, <2>2, <2>3, MainOn, ZenonT(60)
<1>8. TotCalm /\ NetCalm /\ WeightsCalm
  BY BasesHave, TotSame, NetUnchanged, WeightsSame
<1> QED BY <1>7, <1>8, BasesHave, CalmStep

LEMMA PrefetchApp ==
  ASSUME Bases, NEW c \in Client, Prefetch(c)
  PROVE  AppInv'
<1>1. UNCHANGED <<conf, flaws, tot, local, ghost, weights, net, busy, snd>>
  BY DEF Prefetch, tensors, peers
<1>2. /\ snd[c] = -1 /\ main[c] % 4 = 3 /\ main' = [main EXCEPT ![c] = @ + 1]
      /\ ServerOf(c) \in Server
  BY BasesHave, ClientServer DEF Prefetch, Phase
<1>3. PICK m : m = [op |-> "PULL", client |-> c, epoch |-> EpochOf(c) + 1, layer |-> 0]
  OBVIOUS
<1>4. m.op # "PUSH" /\ Request(ServerOf(c), m)
  BY <1>3 DEF Prefetch
<1>5. QueuesCalm
  BY <1>1, <1>2, <1>4, BasesHave, RequestCalm
<1>6. PICK w : w = -1
  OBVIOUS
<1>7. w = snd[c] /\ w \notin Layer
  BY <1>2, <1>6 DEF Layer
<1>8. main[c] % 4 # 0
  BY <1>2
<1> QED BY <1>1, <1>2, <1>5, <1>7, <1>8, PhaseStep

LEMMA ForwardApp ==
  ASSUME Bases, NEW c \in Client, Forward(c)
  PROVE  AppInv'
<1>1. UNCHANGED <<conf, flaws, tot, local, ghost, weights, net, busy, snd, queue>>
  BY DEF Forward, tensors, peers, requests
<1>2. /\ snd[c] = -1 /\ main[c] \div 4 < conf.epochs /\ main' = [main EXCEPT ![c] = @ + 1]
  BY DEF Forward, EpochOf
<1>3. QueuesCalm
  BY <1>1, BasesHave, QueuesSame
<1>4. PICK w : w = -1
  OBVIOUS
<1>5. w = snd[c] /\ w \notin Layer
  BY <1>2, <1>4 DEF Layer
<1> QED BY <1>1, <1>2, <1>3, <1>5, PhaseStep

LEMMA LastLayerApp ==
  ASSUME Bases, NEW c \in Client, LastLayer(c)
  PROVE  AppInv'
<1>1. UNCHANGED <<conf, flaws, tot, local, ghost, weights, net, busy>>
  BY DEF LastLayer, tensors, peers
<1>2. /\ main[c] % 4 = 1 /\ main' = [main EXCEPT ![c] = @ + 1] /\ ServerOf(c) \in Server
  BY BasesHave, ClientServer DEF LastLayer, Phase
<1>3. QueuesCalm
  <2>1. CASE "EVAL" \in conf.traffic
    <3>1. PICK m : m = [op |-> "EVAL", client |-> c, epoch |-> EpochOf(c)]
      OBVIOUS
    <3>2. m.op # "PUSH" /\ Request(ServerOf(c), m)
      BY <2>1, <3>1 DEF LastLayer
    <3> QED BY <1>1, <1>2, <3>2, BasesHave, RequestCalm
  <2>2. CASE "EVAL" \notin conf.traffic
    BY <1>1, <2>2, BasesHave, QueuesSame DEF LastLayer, requests
  <2> QED BY <2>1, <2>2
<1>4. PICK w : (snd' = [snd EXCEPT ![c] = w] /\ w = 1) \/ (snd' = snd /\ w = snd[c])
  BY DEF LastLayer, Sends
<1>5. ClientOK(main[c], snd[c])
  BY BasesHave DEF AppInv, ClientsOK
<1>6. w \in Layer => main[c] % 4 = 2 - w
  <2>1. CASE w = 1
    BY <1>2, <2>1
  <2>2. CASE w = snd[c]
    BY <1>2, <1>5, <2>2 DEF ClientOK, Layer
  <2> QED BY <1>4, <2>1, <2>2
<1>7. w = snd[c] \/ w \in Layer
  BY <1>4 DEF Layer
<1>8. (snd' = snd /\ w = snd[c]) \/ snd' = [snd EXCEPT ![c] = w]
  BY <1>4
<1>9. main[c] % 4 # 0
  BY <1>2
<1> QED BY <1>1, <1>2, <1>3, <1>6, <1>7, <1>8, <1>9, PhaseStep

LEMMA BackwardApp ==
  ASSUME Bases, NEW c \in Client, Backward(c)
  PROVE  AppInv'
<1>1. UNCHANGED <<conf, flaws, tot, local, ghost, weights, net, busy, queue>>
  BY DEF Backward, tensors, peers, requests
<1>2. /\ snd[c] = -1 /\ main[c] % 4 = 2 /\ main' = [main EXCEPT ![c] = @ + 1]
  BY DEF Backward, Phase
<1>3. QueuesCalm
  BY <1>1, BasesHave, QueuesSame
<1>4. PICK w : (snd' = [snd EXCEPT ![c] = w] /\ w = 0) \/ (snd' = snd /\ w = snd[c])
  BY DEF Backward, Sends
<1>5. w \in Layer => main[c] % 4 = 2 - w
  BY <1>2, <1>4 DEF Layer
<1>6. w = snd[c] \/ w \in Layer
  BY <1>4 DEF Layer
<1>7. (snd' = snd /\ w = snd[c]) \/ snd' = [snd EXCEPT ![c] = w]
  BY <1>4
<1>8. main[c] % 4 # 0
  BY <1>2
<1> QED BY <1>1, <1>2, <1>3, <1>5, <1>6, <1>7, <1>8, PhaseStep

(* The start.                                                              *)

LEMMA SetUpSteps ==
  ASSUME SetUp
  PROVE  UNCHANGED <<conf, main, snd, tot, local, ghost, queue, busy>>
BY DEF SetUp, clients, requests

LEMMA MasterApp ==
  ASSUME Bases, MasterStarts
  PROVE  AppInv'
<1>1. SetUp /\ flaws' = flaws /\ weights' = weights
  BY DEF MasterStarts, PollServers, CountServers, CountAcks
<1>2. UNCHANGED <<conf, main, snd, tot, local, ghost, weights, queue, busy>> /\ flaws \subseteq flaws'
  BY <1>1, SetUpSteps
<1>3. DOMAIN net = Server /\ \A s \in Server : DOMAIN net[s] = Server /\ \A t \in Server : IsQueue(net[s][t])
  BY BasesHave DEF Wired, Square
<1>4. PICK a, b, d : /\ a = [kind |-> "INITDONE"] /\ b = [kind |-> "DATA", layer |-> 0, upd |-> {}]
                     /\ d = [kind |-> "MASTERUP"]
  OBVIOUS
<1>5. a.kind # "DATA" /\ d.kind # "DATA" /\ b.kind = "DATA" /\ b.layer \in Layer /\ b.upd = {}
  BY <1>4 DEF Layer
<1>6. \A q : IsQueue(q) => Quieter(q, Layer, q) /\ Quieter(q, Layer, <<>>) /\ Quieter(q, Layer, Append(q, a)) /\ Quieter(q, Layer, Append(q, b))
  BY <1>5 DEF Quieter
<1>7. ASSUME NEW s \in Server, NEW t \in Server
      PROVE  \E x : Quieter(net[s][t], Layer, x) /\ Quieter(x, Layer, net'[s][t])
  <2>1. PICK q, z : q = net[s][t] /\ z = net'[s][t] /\ IsQueue(q)
    BY <1>3
  <2>2. CASE PollServers
    <3>1. z = q \/ (q = <<>> /\ z = <<d>>)
      BY <1>3, <1>4, <2>1, <2>2 DEF PollServers
    <3>2. \A y : <<d>> = Append(<<>>, d)
      OBVIOUS
    <3>3. Quieter(q, Layer, z)
      BY <1>5, <3>1, <3>2 DEF Quieter
    <3> QED BY <1>6, <2>1, <3>3
  <2>3. CASE CountServers
    <3>1. z = q \/ z = <<>> \/ z = q \o <<a>> \o <<b>>
      BY <1>3, <1>4, <2>1, <2>3 DEF CountServers, FirstWeights
    <3>2. CASE z = q \o <<a>> \o <<b>>
      <4>1. PICK x : x = Append(q, a)
        OBVIOUS
      <4>2. x = q \o <<a>> /\ IsQueue(x)
        BY <2>1, <4>1, QueueConcat, QueueAppend
      <4>3. z = Append(x, b)
        BY <3>2, <4>2, QueueConcat
      <4>4. Quieter(q, Layer, x) /\ Quieter(x, Layer, z)
        BY <1>6, <2>1, <4>1, <4>2, <4>3
      <4> QED BY <2>1, <4>4
    <3>3. CASE z = q \/ z = <<>>
      <4>1. Quieter(q, Layer, q) /\ Quieter(q, Layer, z)
        BY <1>6, <2>1, <3>3
      <4> QED BY <2>1, <4>1
    <3> QED BY <3>1, <3>2, <3>3
  <2>4. CASE CountAcks
    <3>1. z = q \/ (q # <<>> /\ z = Tail(q))
      <4>1. CASE net' = net
        BY <2>1, <4>1
      <4>2. ASSUME NEW u \in Server, net[u][0] # <<>>, net' = [net EXCEPT ![u][0] = Tail(@)]
            PROVE  z = q \/ (q # <<>> /\ z = Tail(q))
        BY <1>3, <2>1, <4>2
      <4> QED BY <2>4, <4>1, <4>2 DEF CountAcks
    <3>2. Quieter(q, Layer, z)
      BY <3>1 DEF Quieter
    <3> QED BY <1>6, <2>1, <3>2
  <2> QED BY <2>2, <2>3, <2>4 DEF MasterStarts
<1>8. NetCalm
  BY <1>7, BasesHave, NetQuiet
<1>9. QueuesCalm /\ TotCalm
  BY <1>2, BasesHave, QueuesSame, TotSame
<1> QED BY <1>2, <1>8, <1>9, BasesHave, StillStep

\* Until the master is up no update is pushed.
LEMMA EarlyNone ==
  ASSUME AckInv, boot[0] # "up", AppInv, NEW s \in Server, NEW u \in Server, NEW l \in Layer,
         NEW p \in Stage
  PROVE  Held(p, s, u, l) = {}
<1>1. ASSUME NEW g \in Held(p, s, u, l)
      PROVE  FALSE
  <2>1. g \in Home(s) /\ Pushed(g, l)
    BY DEF AppInv, Tracks, Track, HeldOK
  <2>2. PICK c, e : c = g[1] /\ e = g[2] /\ c \in Client /\ e \in 0..conf.epochs - 1
    BY <2>1 DEF Home, Grad
  <2>3. main[c] \in {-1, 0}
    BY <2>2 DEF AckInv, Early, EarlyClients
  <2>4. e \in Nat /\ l \in 0..1
    BY <2>2 DEF Layer
  <2>5. PICK n : n = main[c]
    OBVIOUS
  <2>6. 4 * e + 3 - l < n \/ 4 * e + 3 - l = n
    BY <2>1, <2>2, <2>5 DEF Pushed, Due
  <2> QED BY <2>3, <2>4, <2>5, <2>6
<1> QED BY <1>1

\* The first weights have no gradient.
LEMMA FirstNone ==
  ASSUME AckInv, boot[0] # "up", Bases, NEW s \in Others(0), net[0][s] # <<>>,
         Head(net[0][s]).kind = "DATA"
  PROVE  Head(net[0][s]).upd \subseteq {Torn}
<1>1. PICK q, U : q = net[0][s] /\ U = Home(0) \cup Stain
  OBVIOUS
<1>2. 0 \in Server /\ s \in Server /\ s # 0
  BY BasesHave, ServerFacts DEF Others
<1>3. IsQueue(q) /\ UpdatesOK(q, Layer, U)
  BY <1>1, <1>2, BasesHave DEF Wired, NetOK
<1>4. PICK l, upd : l = Head(q).layer /\ upd = Head(q).upd
  OBVIOUS
<1>5. l \in Layer /\ upd \subseteq U /\ upd \subseteq OnWay(q, l)
  BY <1>1, <1>3, <1>4, ChanLess
<1>6. OnWay(q, l) \cap Home(0) = {}
  <2>1. <<"net", 0>> \in Stage
    BY StagesIn
  <2>2. Held(<<"net", 0>>, 0, s, l) = {}
    BY <1>2, <1>5, <2>1, EarlyNone, BasesHave
  <2>3. HeldAre(0, s, l)
    BY HeldAt
  <2> QED BY <1>1, <1>2, <2>2, <2>3 DEF HeldAre
<1>7. Stain \subseteq {Torn}
  BY DEF Stain
<1> QED BY <1>1, <1>4, <1>5, <1>6, <1>7

LEMMA StartsApp ==
  ASSUME AckInv, Bases, NEW s \in Others(0), Starts(s)
  PROVE  AppInv'
<1>1. boot[0] # "up" /\ s # 0 /\ s \in Server /\ 0 \in Server
  BY StartedNoStart, BasesHave, ServerFacts DEF Others
<1>2. PICK t \in Others(s) : HearMaster(s, t) \/ HearDone(s, t) \/ TakeWeights(s, t)
  BY DEF Starts
<1>3. SetUp /\ flaws \subseteq flaws'
  BY <1>2 DEF HearMaster, HearDone, TakeWeights
<1>4. UNCHANGED <<conf, main, snd, tot, local, ghost, queue, busy>>
  BY <1>3, SetUpSteps
<1>5. PICK m : Hears(s, t) /\ Answers(s, t, m) /\ (m = <<>> \/ \E n : n.kind # "DATA" /\ m = <<n>>)
  <2>1. CASE HearMaster(s, t)
    <3>1. [kind |-> "WORKERUP"].kind # "DATA"
      OBVIOUS
    <3> QED BY <2>1, <3>1 DEF HearMaster
  <2>2. CASE HearDone(s, t)
    BY <2>2 DEF HearDone
  <2>3. CASE TakeWeights(s, t)
    <3>1. [kind |-> "ACK"].kind # "DATA"
      OBVIOUS
    <3> QED BY <2>3, <3>1 DEF TakeWeights
  <2> QED BY <1>2, <2>1, <2>2, <2>3
<1>6. /\ t = 0 /\ net[0][s] # <<>>
      /\ net'[0][s] = Tail(net[0][s]) /\ net'[s][0] = net[s][0] \o m
      /\ \A u \in Server, v \in Server : <<u, v>> \notin {<<0, s>>, <<s, 0>>} => net'[u][v] = net[u][v]
  BY <1>1, <1>5, AnswerNet
<1>7. ASSUME NEW u \in Server, NEW v \in Server
      PROVE  Quieter(net[u][v], Layer, net'[u][v])
  <2>1. PICK q, z : q = net[u][v] /\ z = net'[u][v]
    OBVIOUS
  <2>2. IsQueue(q)
    BY <2>1, BasesHave DEF Wired
  <2>3. CASE u = 0 /\ v = s
    BY <1>6, <2>3 DEF Quieter
  <2>4. CASE u = s /\ v = 0
    <3>1. z = q \o m
      BY <1>6, <2>1, <2>4
    <3>2. z = q \/ \E n : n.kind # "DATA" /\ z = Append(q, n)
      <4>1. CASE m = <<>>
        BY <2>2, <3>1, <4>1, QueueConcat
      <4>2. ASSUME NEW n, n.kind # "DATA", m = <<n>>
            PROVE  z = Append(q, n)
        BY <2>2, <3>1, <4>2, QueueConcat
      <4> QED BY <1>5, <4>1, <4>2
    <3> QED BY <2>1, <3>2 DEF Quieter
  <2>5. CASE ~(u = 0 /\ v = s) /\ ~(u = s /\ v = 0)
    <3>1. z = q
      BY <1>6, <2>1, <2>5
    <3> QED BY <2>1, <3>1 DEF Quieter
  <2> QED BY <2>3, <2>4, <2>5
<1>8. WeightsCalm
  <2>1. CASE weights' = weights
    BY <2>1, BasesHave, WeightsSame
  <2>2. CASE TakeWeights(s, t)
    <3>1. PICK W : W = IF Head(net[t][s]).kind = "DATA" THEN Head(net[t][s]).upd ELSE {Torn}
      OBVIOUS
    <3>2. W \subseteq {Torn}
      BY <1>1, <1>6, <3>1, FirstNone
    <3>3. weights' = [weights EXCEPT ![s] = [l \in Layer |-> W]]
      BY <2>2, <3>1 DEF TakeWeights
    <3>4. Matrix(weights)
      BY BasesHave DEF AppInv, MatricesOK
    <3> QED BY <3>2, <3>3, <3>4 DEF WeightsCalm, Matrix
  <2> QED BY <1>2, <2>1, <2>2 DEF HearMaster, HearDone
<1>9. Forth /\ ClientsOK'
  BY <1>3, <1>4, BasesHave, ClientsStill DEF AppInv
<1>10. QueuesCalm /\ TotCalm /\ NetCalm
  BY <1>4, <1>7, BasesHave, QueuesSame, TotSame, NetSame
<1> QED BY <1>4, <1>8, <1>9, <1>10, BasesHave, CalmStep

(* Steps that move gradients.                                              *)

\* The gradients of N come to stage a.
LEMMA TrackGain ==
  ASSUME Forth, NEW s, NEW u, NEW l \in Layer, Track(s, u, l), NEW a \in Stage, NEW N,
         \A p \in Stage : p # a => Held(p, s, u, l)' \subseteq Held(p, s, u, l),
         Held(a, s, u, l)' \subseteq Held(a, s, u, l) \cup N,
         \A g \in N : (\E d \in Stage : g \in Held(d, s, u, l)) \/ (g \in Home(s) /\ Pushed(g, l)'),
         u = s \/ "raced" \notin flaws' => \A g \in N :
           \/ \E d \in Stage : g \in Held(d, s, u, l) /\ g \notin Held(d, s, u, l)'
           \/ \A d \in Stage : g \notin Held(d, s, u, l),
         "raced" \notin flaws' => SentWhole(s, u, l)'
  PROVE  Track(s, u, l)'
<1>1. HeldOK(s, u, l)'
  <2>1. ASSUME NEW p \in Stage, NEW g \in Held(p, s, u, l)'
        PROVE  (\E d \in Stage : g \in Held(d, s, u, l)) \/ (g \in Home(s) /\ Pushed(g, l)')
    <3>1. g \in Held(p, s, u, l) \/ g \in N
      BY <2>1
    <3> QED BY <3>1
  <2> QED BY <2>1, HeldMoves DEF Track
<1>2. "raced" \notin flaws' => "raced" \notin flaws
  BY StainMore DEF Forth
<1>3. ASSUME u = s \/ "raced" \notin flaws'
      PROVE  OnePlace(s, u, l)'
  <2>1. OnePlace(s, u, l)
    BY <1>2, <1>3 DEF Track
  <2>2. \A g \in Held(a, s, u, l)' :
          \/ g \in Held(a, s, u, l)
          \/ \E d \in Stage : g \in Held(d, s, u, l) /\ g \notin Held(d, s, u, l)'
          \/ \A d \in Stage : g \notin Held(d, s, u, l)
    BY <1>3
  <2> QED BY <2>1, <2>2, OnePlaceMoves
<1>4. u = s => SentWhole(s, u, l)'
  BY DEF SentWhole
<1> QED BY <1>1, <1>3, <1>4 DEF Track

\* As above, with the local matrix as it was, or emptied.
LEMMA TrackMoves ==
  ASSUME Forth, NEW s, NEW u, NEW l \in Layer, Track(s, u, l), NEW a \in Stage, NEW N,
         \A p \in Stage : p # a => Held(p, s, u, l)' \subseteq Held(p, s, u, l),
         Held(a, s, u, l)' \subseteq Held(a, s, u, l) \cup N,
         \A g \in N : \E d \in Stage : g \in Held(d, s, u, l),
         u = s \/ "raced" \notin flaws' => \A g \in N :
           \E d \in Stage : g \in Held(d, s, u, l) /\ g \notin Held(d, s, u, l)',
         local'[s][l] \in {local[s][l], {}},
         Cardinality(local[s][l]) \in Nat, tot[s] \in Int, tot' = tot
  PROVE  Track(s, u, l)'
<1>1. ASSUME NEW p \in Stage, NEW g \in Held(p, s, u, l)'
      PROVE  \E d \in Stage : g \in Held(d, s, u, l)
  <2>1. g \in Held(p, s, u, l) \/ g \in N
    BY <1>1
  <2> QED BY <2>1
<1>2. "raced" \notin flaws' => "raced" \notin flaws
  BY StainMore DEF Forth
<1>3. ASSUME "raced" \notin flaws'
      PROVE  SentWhole(s, u, l)'
  <2>1. SentWhole(s, u, l)
    BY <1>2, <1>3 DEF Track
  <2>2. conf' = conf /\ tot'[s] \in Int /\ tot'[s] <= tot[s]
    BY DEF Forth
  <2>3. \A p \in Stage : \A g \in Held(p, s, u, l)' : g \in local'[s][l] =>
          \E d \in Stage : g \in Held(d, s, u, l)
    BY <1>1
  <2> QED BY <2>1, <2>2, <2>3, SentStays
<1>4. \A g \in N : (\E d \in Stage : g \in Held(d, s, u, l)) \/ (g \in Home(s) /\ Pushed(g, l)')
  OBVIOUS
<1>5. u = s \/ "raced" \notin flaws' => \A g \in N :
        \/ \E d \in Stage : g \in Held(d, s, u, l) /\ g \notin Held(d, s, u, l)'
        \/ \A d \in Stage : g \notin Held(d, s, u, l)
  OBVIOUS
<1> QED BY <1>3, <1>4, <1>5, TrackGain

LEMMA TrackHas ==
  ASSUME Bases, NEW s \in Server, NEW u \in Server, NEW l \in Layer
  PROVE  /\ Track(s, u, l) /\ IsFiniteSet(local[s][l]) /\ Cardinality(local[s][l]) \in Nat
         /\ local[s][l] \subseteq Home(s) /\ tot[s] \in Int
<1>1. conf \in Confs /\ RepInv /\ MatricesOK /\ Tracks
  BY BasesHave DEF AppInv
<1> QED BY <1>1, LocalFinite, TotTypes DEF Tracks

\* A gradient that was not pushed is at no stage.
LEMMA NotPushed ==
  ASSUME Bases, NEW s \in Server, NEW u \in Server, NEW l \in Layer, NEW g, ~Pushed(g, l)
  PROVE  \A p \in Stage : g \notin Held(p, s, u, l)
BY TrackHas DEF Track, HeldOK

\* The push that c is about to send.
LEMMA DuePush ==
  ASSUME Bases, NEW c \in Client, NEW l, l = snd[c], l # -1, snd' = [snd EXCEPT ![c] = -1], main' = main,
         NEW g, g = <<c, EpochOf(c)>>
  PROVE  l \in Layer /\ g \in Home(ServerOf(c)) /\ ~Pushed(g, l) /\ Pushed(g, l)'
<1>1. ClientsOK
  BY BasesHave DEF AppInv
<1>2. PICK n, e, k : n = main[c] /\ e = EpochOf(c) /\ k = conf.epochs
  OBVIOUS
<1>3. ClientOK(n, l) /\ DOMAIN snd = Client
  BY <1>1, <1>2 DEF ClientsOK
<1>4. n \in Int /\ 0 <= n /\ n <= 4 * k /\ l \in 0..1 /\ n % 4 = 3 - l /\ k \in Nat
  <2>1. conf \in Confs
    BY BasesHave
  <2>2. k \in Nat
    BY <1>2, <2>1, ServersOK
  <2>3. n \in Int /\ 0 <= n /\ n <= 4 * k /\ l \in 0..1 /\ n % 4 = 3 - l
    BY <1>2, <1>3 DEF ClientOK, Layer
  <2> QED BY <2>2, <2>3
<1>5. e = n \div 4
  BY <1>2 DEF EpochOf
<1>6. e \in 0..k - 1 /\ 4 * e + 3 - l = n
  BY <1>4, <1>5
<1>7. g \in Grad /\ g[1] = c /\ g[2] = e
  BY <1>2, <1>6 DEF Grad
<1>8. Due(g, l) = n /\ main[g[1]] = n /\ snd[g[1]] = l
  BY <1>2, <1>6, <1>7 DEF Due
<1>9. ~Pushed(g, l)
  BY <1>4, <1>8 DEF Pushed
<1>10. snd'[c] = -1
  BY <1>3
<1>11. Pushed(g, l)'
  <2>1. Due(g, l)' = n /\ main'[g[1]] = n /\ snd'[g[1]] = -1
    BY <1>7, <1>8, <1>10 DEF Due
  <2> QED BY <2>1 DEF Pushed
<1> QED BY <1>4, <1>7, <1>9, <1>11 DEF Home, Layer

LEMMA SendPushApp ==
  ASSUME Bases, NEW c \in Client, SendPush(c)
  PROVE  AppInv'
<1>1. /\ UNCHANGED <<conf, main, flaws, tot, local, ghost, weights, net, busy>>
      /\ snd' = [snd EXCEPT ![c] = -1]
  BY DEF SendPush, tensors, peers
<1>2. PICK s, k, l, g : s = ServerOf(c) /\ k = rr[s] /\ l = snd[c] /\ g = <<c, EpochOf(c)>>
  OBVIOUS
<1>3. PICK m : m = [op |-> "PUSH", client |-> c, layer |-> l, epoch |-> EpochOf(c)]
  OBVIOUS
<1>4. /\ s \in Server
      /\ m.op = "PUSH" /\ m.layer = l /\ ReportOf(m) = g /\ Request(s, m)
  <2>1. s \in Server
    BY <1>2, BasesHave, ClientServer
  <2>2. Request(s, m)
    BY <1>2, <1>3 DEF SendPush
  <2> QED BY <1>2, <1>3, <2>1, <2>2 DEF ReportOf
<1>5. l \in Layer /\ g \in Home(s) /\ ~Pushed(g, l) /\ Pushed(g, l)'
  <2>1. l # -1
    BY <1>2 DEF SendPush
  <2> QED BY <1>1, <1>2, <2>1, DuePush
<1>6. \A u \in Server, v \in Worker :
        queue'[u][v] = IF u = s /\ v = k THEN Append(queue[u][v], m) ELSE queue[u][v]
  BY <1>2, <1>4, RequestAt, BasesHave
<1>7. Forth /\ ClientsOK'
  BY <1>1, BasesHave, SndDone DEF AppInv
<1>8. ASSUME NEW u \in Server, NEW v \in Worker
      PROVE  /\ AsksOK(queue'[u][v], busy'[u][v])
             /\ \A j \in Layer : \A r \in Asks(queue'[u][v], busy'[u][v], j) :
                  r \in Asks(queue[u][v], busy[u][v], j) \/ (u = s /\ v = k /\ j = l /\ r = g)
  <2>1. PICK x, y, z : x = queue[u][v] /\ y = busy[u][v] /\ z = queue'[u][v]
    OBVIOUS
  <2>2. IsQueue(x) /\ AsksOK(x, y) /\ (y.at # "idle" => Len(x) > 0)
    BY <2>1, QueueHas, BasesHave
  <2>3. CASE u = s /\ v = k
    <3>1. z = Append(x, m)
      BY <1>6, <2>1, <2>3
    <3>2. HeldAre(u, u, l) /\ <<"ask", v>> \in Stage
      BY HeldAt, StagesIn
    <3>3. g \notin Held(<<"ask", v>>, u, u, l)
      BY <1>5, <3>2, NotPushed
    <3>4. g \notin Asks(x, y, l)
      BY <2>1, <3>2, <3>3 DEF HeldAre
    <3>5. m.op = "PUSH" => m.layer \in Layer /\ ReportOf(m) \notin Asks(x, y, m.layer)
      BY <1>4, <1>5, <3>4
    <3>6. AsksOK(z, y) /\ \A j : \A r \in Asks(z, y, j) :
            r \in Asks(x, y, j) \/ (m.op = "PUSH" /\ m.layer = j /\ r = ReportOf(m))
      BY <2>2, <3>1, <3>5, AsksAppend
    <3> QED BY <1>1, <1>4, <2>1, <2>3, <3>6
  <2>4. CASE ~(u = s /\ v = k)
    <3>1. z = x
      BY <1>6, <2>1, <2>4
    <3> QED BY <1>1, <2>1, <2>2, <3>1
  <2> QED BY <2>3, <2>4
<1>9. MatricesOK' /\ NetOK' /\ AllAsksOK'
  <2>1. WeightsCalm /\ NetCalm /\ MatricesOK
    BY <1>1, WeightsSame, NetUnchanged, BasesHave DEF AppInv
  <2> QED BY <1>1, <1>7, <1>8, <2>1, MatricesStay, NetStays, AsksStay
<1>10. ASSUME NEW a \in Server, NEW u \in Server, NEW j \in Layer
       PROVE  Track(a, u, j)'
  <2>1. HeldAre(a, u, j)
    BY HeldAt
  <2>12. PICK b \in Stage : k \in Worker => b = <<"ask", k>>
    BY StagesIn
  <2>2. HeldWill(a, u, j)
    BY <1>1, HeldAtNext
  <2>3. PICK N : N = IF a = s /\ j = l THEN {g} ELSE {}
    OBVIOUS
  <2>4. \A w \in Worker :
          /\ Held(<<"ask", w>>, a, u, j)' \subseteq
               Held(<<"ask", w>>, a, u, j) \cup (IF w = k THEN N ELSE {})
          /\ Held(<<"closed", w>>, a, u, j)' = Held(<<"closed", w>>, a, u, j)
    <3> TAKE w \in Worker
    <3>1. \A r \in Asks(queue'[a][w], busy'[a][w], j) :
            r \in Asks(queue[a][w], busy[a][w], j) \/ (a = s /\ w = k /\ j = l /\ r = g)
      BY <1>8
    <3>2. \A r \in Held(<<"ask", w>>, a, u, j)' :
            r \in Held(<<"ask", w>>, a, u, j) \/ (w = k /\ r \in N)
      BY <2>1, <2>2, <2>3, <3>1 DEF HeldAre, HeldWill
    <3>3. Held(<<"closed", w>>, a, u, j)' = Held(<<"closed", w>>, a, u, j)
      BY <1>1, <2>1, <2>2 DEF HeldAre, HeldWill
    <3> QED BY <3>2, <3>3
  <2>5. ASSUME NEW p \in Stage, p # b
        PROVE  Held(p, a, u, j)' \subseteq Held(p, a, u, j)
    <3>1. ASSUME NEW w \in Worker, p = <<"ask", w>> \/ p = <<"closed", w>>
          PROVE  Held(p, a, u, j)' \subseteq Held(p, a, u, j)
      BY <2>4, <2>5, <2>12, <3>1
    <3>2. CASE p = <<"local", 0>> \/ p = <<"net", 0>> \/ p = <<"ghost", 0>> \/ p = <<"weights", 0>>
      BY <1>1, <2>1, <2>2, <3>2 DEF HeldAre, HeldWill
    <3> QED BY <3>1, <3>2, StagesAre
  <2>6. Held(b, a, u, j)' \subseteq Held(b, a, u, j) \cup N
    <3>1. ASSUME NEW w \in Worker, b = <<"ask", w>> \/ b = <<"closed", w>>
          PROVE  Held(b, a, u, j)' \subseteq Held(b, a, u, j) \cup N
      BY <2>4, <3>1
    <3>2. CASE b = <<"local", 0>> \/ b = <<"net", 0>> \/ b = <<"ghost", 0>> \/ b = <<"weights", 0>>
      BY <1>1, <2>1, <2>2, <3>2 DEF HeldAre, HeldWill
    <3> QED BY <3>1, <3>2, StagesAre
  <2>7. \A r \in N : /\ r \in Home(a) /\ Pushed(r, j)'
                     /\ \A d \in Stage : r \notin Held(d, a, u, j)
    <3>1. CASE a = s /\ j = l
      <4>1. \A d \in Stage : g \notin Held(d, a, u, j)
        BY <1>5, <3>1, NotPushed
      <4>2. N = {g}
        BY <2>3, <3>1
      <4> QED BY <1>5, <3>1, <4>1, <4>2
    <3>2. CASE ~(a = s /\ j = l)
      BY <2>3, <3>2
    <3> QED BY <3>1, <3>2
  <2>8. Track(a, u, j) /\ Cardinality(local[a][j]) \in Nat /\ tot[a] \in Int
    BY TrackHas
  <2>9. ASSUME "raced" \notin flaws'
        PROVE  SentWhole(a, u, j)'
    <3>1. CASE u = a
      BY <3>1 DEF SentWhole
    <3>2. CASE u # a
      <4>1. SentWhole(a, u, j)
        BY <1>1, <2>8, <2>9 DEF Track
      <4>2. <<"local", 0>> \in Stage /\ HeldAre(a, a, j)
        BY StagesIn, HeldAt
      <4>3. \A r \in N : r \notin local[a][j]
        <5>1. CASE a = s /\ j = l
          <6>1. g \notin Held(<<"local", 0>>, a, a, j)
            BY <1>5, <4>2, <5>1, NotPushed
          <6> QED BY <2>3, <4>2, <5>1, <6>1 DEF HeldAre
        <5>2. CASE ~(a = s /\ j = l)
          BY <2>3, <5>2
        <5> QED BY <5>1, <5>2
      <4>4. ASSUME NEW p \in Stage, NEW r \in Held(p, a, u, j)', r \in local'[a][j]
            PROVE  \E d \in Stage : r \in Held(d, a, u, j)
        <5>1. r \in Held(p, a, u, j) \/ r \in N
          BY <2>5, <2>6, <4>4
        <5> QED BY <1>1, <4>3, <4>4, <5>1
      <4>5. local'[a][j] \in {local[a][j], {}} /\ tot'[a] \in Int /\ tot'[a] <= tot[a]
        BY <1>1, <2>8
      <4> QED BY <1>1, <2>8, <4>1, <4>4, <4>5, SentStays
    <3> QED BY <3>1, <3>2
  <2>10. \A r \in N : (\E d \in Stage : r \in Held(d, a, u, j)) \/ (r \in Home(a) /\ Pushed(r, j)')
    BY <2>7
  <2>11. \A r \in N : \/ \E d \in Stage : r \in Held(d, a, u, j) /\ r \notin Held(d, a, u, j)'
                      \/ \A d \in Stage : r \notin Held(d, a, u, j)
    BY <2>7
  <2> QED BY <1>7, <2>1, <2>5, <2>6, <2>8, <2>9, <2>10, <2>11, TrackGain
<1>11. Tracks'
  <2>1. Server' = Server /\ Layer' = Layer
    BY <1>1, SameConf DEF Layer
  <2> QED BY <1>10, <2>1 DEF Tracks
<1> QED BY <1>7, <1>9, <1>11 DEF AppInv

(* A push is added to the local matrix, and closes it if it is the last.   *)

\* The request that a push serves.
PushOf(s, w, l, g) ==
  /\ local' = [local EXCEPT ![s][l] = @ \cup {g}]
  /\ g \in Asks(queue[s][w], busy[s][w], l)
  /\ queue[s][w] # <<>> /\ queue[s][w][1].op = "PUSH" /\ queue[s][w][1].layer = l
  /\ busy[s][w].at = "idle" /\ ReportOf(queue[s][w][1]) = g
  /\ IF Cardinality(local'[s][l]) = tot[s]
     THEN Goto(s, w, [at |-> "apply", layer |-> l, closed |-> local'[s][l]]) /\ UNCHANGED requests
     ELSE Finish(s, w)

LEMMA PushServed ==
  ASSUME Bases, NEW s \in Server, NEW w \in Worker, Push(s, w)
  PROVE  \E l \in Layer : \E g : PushOf(s, w, l, g)
<1>1. PICK x, y, r, l, g : /\ x = queue[s][w] /\ y = busy[s][w] /\ r = Head(x) /\ l = r.layer
                           /\ g = ReportOf(r)
  OBVIOUS
<1>2. x # <<>> /\ r = x[1] /\ r.op = "PUSH" /\ y.at = "idle"
  <2>1. Serves(s, w, "PUSH")
    BY DEF Push
  <2> QED BY <1>1, <2>1, BasesHave, ServesHas
<1>3. IsQueue(x) /\ AsksOK(x, y)
  BY <1>1, BasesHave, QueueHas
<1>4. Len(x) \in Nat /\ Len(x) >= 1
  BY <1>2, <1>3, QueueLen, QueueTail
<1>5. l \in Layer
  BY <1>1, <1>2, <1>3, <1>4 DEF AsksOK
<1>6. 1 \in Pushes(x, y, l)
  BY <1>1, <1>2, <1>4 DEF Pushes
<1>7. g \in Asks(x, y, l)
  BY <1>1, <1>2, <1>6 DEF Asks
<1>8. g = <<r.client, r.epoch>>
  BY <1>1 DEF ReportOf
<1>9. local' = [local EXCEPT ![s][l] = @ \cup {g}]
  BY <1>1, <1>8 DEF Push
<1>10. IF Cardinality(local'[s][l]) = tot[s]
       THEN Goto(s, w, [at |-> "apply", layer |-> l, closed |-> local'[s][l]]) /\ UNCHANGED requests
       ELSE Finish(s, w)
  BY <1>1 DEF Push
<1>11. PushOf(s, w, l, g)
  BY <1>1, <1>2, <1>7, <1>9, <1>10 DEF PushOf
<1> QED BY <1>5, <1>11

\* What comes of it: the push is served, and the update may be closed.
Serving(s, w, l, g, whole) ==
  /\ \A u \in Server, v \in Worker :
       /\ AsksOK(queue'[u][v], busy'[u][v])
       /\ \A j \in Layer : Asks(queue'[u][v], busy'[u][v], j) \subseteq Asks(queue[u][v], busy[u][v], j)
       /\ \A j \in Layer : Closed(busy'[u][v], j) =
            IF u = s /\ v = w /\ j = l THEN whole ELSE Closed(busy[u][v], j)
  /\ g \notin Asks(queue'[s][w], busy'[s][w], l)
  /\ \A j \in Layer : Closed(busy[s][w], j) = {}

LEMMA PushServes ==
  ASSUME Bases, NEW s \in Server, NEW w \in Worker, NEW l \in Layer, NEW g,
         queue[s][w] # <<>>, queue[s][w][1].op = "PUSH", queue[s][w][1].layer = l,
         busy[s][w].at = "idle", ReportOf(queue[s][w][1]) = g, NEW whole,
         \/ /\ Goto(s, w, [at |-> "apply", layer |-> l, closed |-> whole]) /\ UNCHANGED requests
         \/ Finish(s, w) /\ whole = {}
  PROVE  Serving(s, w, l, g, whole)
<1>1. PICK x, y : x = queue[s][w] /\ y = busy[s][w]
  OBVIOUS
<1>2. IsQueue(x) /\ AsksOK(x, y) /\ x # <<>> /\ x[1].op = "PUSH" /\ x[1].layer = l /\ y.at = "idle"
      /\ ReportOf(x[1]) = g /\ w \in Threads /\ RepInv
  BY <1>1, BasesHave, QueueHas DEF Threads
<1>3. PICK z, b :
        /\ \A u \in Server, v \in Worker : queue'[u][v] = IF u = s /\ v = w THEN z ELSE queue[u][v]
        /\ \A u \in Server, v \in Threads : busy'[u][v] = IF u = s /\ v = w THEN b ELSE busy[u][v]
        /\ AsksOK(z, b) /\ (\A j : Asks(z, b, j) \subseteq Asks(x, y, j)) /\ g \notin Asks(z, b, l)
        /\ \A j \in Layer : Closed(b, j) = IF j = l THEN whole ELSE {}
  <2>1. CASE Goto(s, w, [at |-> "apply", layer |-> l, closed |-> whole]) /\ UNCHANGED requests
    <3>1. PICK b : b = [at |-> "apply", layer |-> l, closed |-> whole]
      OBVIOUS
    <3>2. \A u \in Server, v \in Threads : busy'[u][v] = IF u = s /\ v = w THEN b ELSE busy[u][v]
      BY <1>2, <2>1, <3>1, GotoAll
    <3>3. b.at # "idle" /\ (b.at = "apply" => b.layer \in Layer)
      BY <3>1
    <3>4. AsksOK(x, b) /\ (\A j : Asks(x, b, j) \subseteq Asks(x, y, j)) /\ g \notin Asks(x, b, l)
      BY <1>2, <3>3, AsksServed
    <3>5. \A j \in Layer : Closed(b, j) = IF j = l THEN whole ELSE {}
      BY <3>1 DEF Closed
    <3>6. \A u \in Server, v \in Worker : queue'[u][v] = IF u = s /\ v = w THEN x ELSE queue[u][v]
      BY <1>1, <2>1 DEF requests
    <3> QED BY <3>2, <3>4, <3>5, <3>6
  <2>2. CASE Finish(s, w) /\ whole = {}
    <3>1. PICK z, b : z = Tail(x) /\ b = [at |-> "idle"]
      OBVIOUS
    <3>2. \A u \in Server, v \in Worker : queue'[u][v] = IF u = s /\ v = w THEN z ELSE queue[u][v]
      <4>1. \A u \in Server, v \in Worker :
              queue'[u][v] = IF u = s /\ v = w THEN Tail(queue[u][v]) ELSE queue[u][v]
        BY <1>2, <2>2, FinishAll
      <4> QED BY <1>1, <3>1, <4>1
    <3>3. \A u \in Server, v \in Threads : busy'[u][v] = IF u = s /\ v = w THEN b ELSE busy[u][v]
      BY <1>2, <2>2, <3>1, FinishAll
    <3>4. b.at = "idle"
      BY <3>1
    <3>5. AsksOK(z, b) /\ (\A j : Asks(z, b, j) \subseteq Asks(x, y, j)) /\ g \notin Asks(z, b, l)
      BY <1>2, <3>1, <3>4, AsksTail
    <3>6. \A j \in Layer : Closed(b, j) = IF j = l THEN whole ELSE {}
      BY <2>2, <3>4 DEF Closed
    <3> QED BY <3>2, <3>3, <3>5, <3>6
  <2> QED BY <2>1, <2>2
<1>4. \A j \in Layer : Closed(busy[s][w], j) = {}
  BY <1>1, <1>2 DEF Closed
<1>5. ASSUME NEW u \in Server, NEW v \in Worker
      PROVE  /\ AsksOK(queue'[u][v], busy'[u][v])
             /\ \A j \in Layer : Asks(queue'[u][v], busy'[u][v], j) \subseteq Asks(queue[u][v], busy[u][v], j)
             /\ \A j \in Layer : Closed(busy'[u][v], j) =
                  IF u = s /\ v = w /\ j = l THEN whole ELSE Closed(busy[u][v], j)
  <2>1. v \in Threads
    BY DEF Threads
  <2>2. CASE u = s /\ v = w
    <3>1. queue'[u][v] = z /\ busy'[u][v] = b
      BY <1>3, <2>1, <2>2
    <3> QED BY <1>1, <1>3, <1>4, <2>2, <3>1
  <2>3. CASE ~(u = s /\ v = w)
    <3>1. queue'[u][v] = queue[u][v] /\ busy'[u][v] = busy[u][v]
      BY <1>3, <2>1, <2>3
    <3> QED BY <2>3, <3>1, QueueHas, BasesHave
  <2> QED BY <2>2, <2>3
<1>6. g \notin Asks(queue'[s][w], busy'[s][w], l)
  BY <1>2, <1>3
<1> QED BY <1>4, <1>5, <1>6 DEF Serving

\* On another server: the update is closed, or the gradient waits for that.
LEMMA PushAway ==
  ASSUME Bases, Forth, NEW s \in Server, NEW w \in Worker, NEW l \in Layer, NEW g, NEW whole,
         NEW u \in Server, u # s, g \in Asks(queue[s][w], busy[s][w], l), Serving(s, w, l, g, whole),
         UNCHANGED <<tot, ghost, weights, net>>, local'[s][l] = local[s][l] \cup {g},
         whole = IF Cardinality(local'[s][l]) = tot[s] THEN local'[s][l] ELSE {}
  PROVE  Track(s, u, l)'
<1>1. /\ Track(s, u, l) /\ Track(s, s, l) /\ IsFiniteSet(local[s][l]) /\ Cardinality(local[s][l]) \in Nat
      /\ tot[s] \in Int
  BY TrackHas
<1>2. HeldAre(s, u, l) /\ HeldAre(s, s, l)
  BY HeldAt
<1>3. HeldWill(s, u, l)
  BY HeldAtNext DEF Forth
<1>4. PICK a, i : a = <<"closed", w>> /\ i = <<"ask", w>>
  OBVIOUS
<1>5. a \in Stage /\ i \in Stage /\ a # i /\ <<"local", 0>> \in Stage /\ i # <<"local", 0>>
  BY <1>4, StagesIn
<1>6. g \in Held(i, s, u, l) /\ g \notin Held(i, s, u, l)' /\ g \in Held(i, s, s, l)
  BY <1>2, <1>3, <1>4 DEF HeldAre, HeldWill, Serving
<1>7. g \notin local[s][l]
  <2>1. g \notin Held(<<"local", 0>>, s, s, l)
    BY <1>1, <1>5, <1>6 DEF Track, OnePlace
  <2> QED BY <1>2, <2>1 DEF HeldAre
<1>8. Cardinality(local'[s][l]) = Cardinality(local[s][l]) + 1
  BY <1>1, <1>7, FS_AddElement
<1>9. \A p \in Stage : p # a => Held(p, s, u, l)' \subseteq Held(p, s, u, l)
  <2> SUFFICES ASSUME NEW p \in Stage, p # a
               PROVE  Held(p, s, u, l)' \subseteq Held(p, s, u, l)
    OBVIOUS
  <2>1. ASSUME NEW v \in Worker, p = <<"ask", v>> \/ p = <<"closed", v>>
        PROVE  Held(p, s, u, l)' \subseteq Held(p, s, u, l)
    <3>1. CASE p = <<"ask", v>>
      BY <1>2, <1>3, <3>1 DEF HeldAre, HeldWill, Serving
    <3>2. CASE p = <<"closed", v>>
      <4>1. v # w
        BY <1>4, <3>2
      <4>2. Closed(busy'[s][v], l) = Closed(busy[s][v], l)
        BY <4>1 DEF Serving
      <4> QED BY <1>2, <1>3, <3>2, <4>2 DEF HeldAre, HeldWill
    <3> QED BY <2>1, <3>1, <3>2
  <2>2. CASE p = <<"local", 0>> \/ p = <<"net", 0>> \/ p = <<"ghost", 0>> \/ p = <<"weights", 0>>
    BY <1>2, <1>3, <2>2 DEF HeldAre, HeldWill
  <2> QED BY <2>1, <2>2, StagesAre
<1>10. Held(a, s, u, l) = {} /\ Held(a, s, u, l)' = whole
  BY <1>2, <1>3, <1>4 DEF HeldAre, HeldWill, Serving
<1>11. g \in Home(s) /\ \A r \in local[s][l] : r \in Home(s) /\ Pushed(r, l)
  <2>1. \A r \in local[s][l] : r \in Held(<<"local", 0>>, s, s, l)
    BY <1>2 DEF HeldAre
  <2> QED BY <1>1, <1>5, <1>6, <2>1 DEF Track, HeldOK
<1>12. CASE Cardinality(local'[s][l]) = tot[s]
  <2>1. whole = local[s][l] \cup {g}
    BY <1>12
  <2>2. \A r \in whole : (\E d \in Stage : r \in Held(d, s, u, l)) \/ (r \in Home(s) /\ Pushed(r, l)')
    <3>1. \A r \in local[s][l] : r \in Home(s) /\ Pushed(r, l)'
      BY <1>11 DEF Forth, Home
    <3> QED BY <1>5, <1>6, <2>1, <3>1
  <2>3. ASSUME "raced" \notin flaws', NEW r \in whole
        PROVE  \/ \E d \in Stage : r \in Held(d, s, u, l) /\ r \notin Held(d, s, u, l)'
               \/ \A d \in Stage : r \notin Held(d, s, u, l)
    <3>1. CASE r = g
      BY <1>5, <1>6, <3>1
    <3>2. CASE r \in local[s][l]
      <4>1. SentWhole(s, u, l)
        BY <1>1, <2>3, StainMore DEF Track, Forth
      <4>2. ~(Cardinality(local[s][l]) >= tot[s])
        BY <1>1, <1>8, <1>12
      <4> QED BY <3>2, <4>1, <4>2 DEF SentWhole
    <3> QED BY <2>1, <2>3, <3>1, <3>2
  <2>4. Cardinality(local'[s][l]) >= tot'[s]
    BY <1>1, <1>12
  <2>5. SentWhole(s, u, l)'
    BY <2>4 DEF SentWhole
  <2> QED BY <1>1, <1>5, <1>9, <1>10, <2>2, <2>3, <2>5, TrackGain
<1>13. CASE Cardinality(local'[s][l]) # tot[s]
  <2>1. whole = {}
    BY <1>13
  <2>2. ASSUME "raced" \notin flaws'
        PROVE  SentWhole(s, u, l)'
    <3>1. SentWhole(s, u, l) /\ OnePlace(s, u, l)
      BY <1>1, <2>2, StainMore DEF Track, Forth
    <3>2. ASSUME NEW p \in Stage, NEW r \in Held(p, s, u, l)', r \in local'[s][l]
          PROVE  Cardinality(local'[s][l]) >= tot'[s]
      <4>1. r \in Held(p, s, u, l)
        BY <1>9, <1>10, <2>1, <3>2
      <4>2. r # g
        <5> SUFFICES ASSUME r = g PROVE FALSE
          OBVIOUS
        <5>1. p = i
          BY <1>5, <1>6, <3>1, <4>1 DEF OnePlace
        <5> QED BY <1>6, <3>2, <5>1
      <4>3. r \in local[s][l]
        BY <3>2, <4>2
      <4>4. Cardinality(local[s][l]) >= tot[s]
        BY <3>1, <4>1, <4>3 DEF SentWhole
      <4> QED BY <1>1, <1>8, <4>4
    <3>3. Stage' = Stage
      BY DEF Stage, Worker
    <3> QED BY <3>2, <3>3 DEF SentWhole
  <2> QED BY <1>1, <1>5, <1>9, <1>10, <2>1, <2>2, TrackGain
<1> QED BY <1>12, <1>13

\* At home: from the request to the local matrix.
LEMMA PushHome ==
  ASSUME Bases, Forth, NEW s \in Server, NEW w \in Worker, NEW l \in Layer, NEW g, NEW whole,
         g \in Asks(queue[s][w], busy[s][w], l), Serving(s, w, l, g, whole),
         UNCHANGED <<tot, ghost, weights, net>>, local'[s][l] = local[s][l] \cup {g}
  PROVE  Track(s, s, l)'
<1>1. Track(s, s, l)
  BY TrackHas
<1>2. HeldAre(s, s, l)
  BY HeldAt
<1>3. HeldWill(s, s, l)
  BY HeldAtNext DEF Forth
<1>4. PICK a, i : a = <<"local", 0>> /\ i = <<"ask", w>>
  OBVIOUS
<1>5. a \in Stage /\ i \in Stage
  BY <1>4, StagesIn
<1>6. g \in Held(i, s, s, l) /\ g \notin Held(i, s, s, l)'
  BY <1>2, <1>3, <1>4 DEF HeldAre, HeldWill, Serving
<1>7. \A p \in Stage : p # a => Held(p, s, s, l)' \subseteq Held(p, s, s, l)
  <2> SUFFICES ASSUME NEW p \in Stage, p # a
               PROVE  Held(p, s, s, l)' \subseteq Held(p, s, s, l)
    OBVIOUS
  <2>1. ASSUME NEW v \in Worker, p = <<"ask", v>> \/ p = <<"closed", v>>
        PROVE  Held(p, s, s, l)' \subseteq Held(p, s, s, l)
    <3>1. CASE p = <<"ask", v>>
      BY <1>2, <1>3, <3>1 DEF HeldAre, HeldWill, Serving
    <3>2. CASE p = <<"closed", v>>
      BY <1>2, <1>3, <3>2 DEF HeldAre, HeldWill
    <3> QED BY <2>1, <3>1, <3>2
  <2>2. CASE p = <<"net", 0>> \/ p = <<"ghost", 0>> \/ p = <<"weights", 0>>
    BY <1>2, <1>3, <2>2 DEF HeldAre, HeldWill
  <2> QED BY <1>4, <2>1, <2>2, StagesAre
<1>8. Held(a, s, s, l)' \subseteq Held(a, s, s, l) \cup {g}
  BY <1>2, <1>3, <1>4 DEF HeldAre, HeldWill
<1>9. SentWhole(s, s, l)'
  BY DEF SentWhole
<1>10. PICK N : N = {g}
  OBVIOUS
<1>11. \A r \in N : \E d \in Stage : r \in Held(d, s, s, l) /\ r \notin Held(d, s, s, l)'
  BY <1>5, <1>6, <1>10
<1>12. \A r \in N : (\E d \in Stage : r \in Held(d, s, s, l)) \/ (r \in Home(s) /\ Pushed(r, l)')
  BY <1>11
<1> QED BY <1>1, <1>5, <1>7, <1>8, <1>9, <1>10, <1>11, <1>12, TrackGain

\* Of the other clients' gradients, and the other layer's, nothing changes.
LEMMA PushElse ==
  ASSUME Bases, Forth, NEW s \in Server, NEW w \in Worker, NEW l \in Layer, NEW g, NEW whole,
         Serving(s, w, l, g, whole), UNCHANGED <<tot, ghost, weights, net>>,
         NEW a \in Server, NEW u \in Server, NEW j \in Layer, a # s \/ j # l, local'[a][j] = local[a][j]
  PROVE  Track(a, u, j)'
<1>1. Track(a, u, j) /\ Cardinality(local[a][j]) \in Nat /\ tot[a] \in Int
  BY TrackHas
<1>2. HeldAre(a, u, j)
  BY HeldAt
<1>3. HeldWill(a, u, j)
  BY HeldAtNext DEF Forth
<1>4. ASSUME NEW p \in Stage
      PROVE  Held(p, a, u, j)' \subseteq Held(p, a, u, j)
  <2>1. ASSUME NEW v \in Worker, p = <<"ask", v>> \/ p = <<"closed", v>>
        PROVE  Held(p, a, u, j)' \subseteq Held(p, a, u, j)
    <3>1. CASE p = <<"ask", v>>
      <4>1. Asks(queue'[a][v], busy'[a][v], j) \subseteq Asks(queue[a][v], busy[a][v], j)
        BY DEF Serving
      <4> QED BY <1>2, <1>3, <3>1, <4>1 DEF HeldAre, HeldWill
    <3>2. CASE p = <<"closed", v>>
      <4>1. Closed(busy'[a][v], j) = Closed(busy[a][v], j)
        BY DEF Serving
      <4> QED BY <1>2, <1>3, <3>2, <4>1 DEF HeldAre, HeldWill
    <3> QED BY <2>1, <3>1, <3>2
  <2>2. CASE p = <<"local", 0>> \/ p = <<"net", 0>> \/ p = <<"ghost", 0>> \/ p = <<"weights", 0>>
    BY <1>2, <1>3, <2>2 DEF HeldAre, HeldWill
  <2> QED BY <2>1, <2>2, StagesAre
<1>5. tot'[a] \in Int /\ tot'[a] <= tot[a]
  BY <1>1
<1> QED BY <1>1, <1>4, <1>5, TrackLess

LEMMA PushApp ==
  ASSUME Bases, NEW s \in Server, NEW w \in Worker, Push(s, w)
  PROVE  AppInv'
<1>1. UNCHANGED <<conf, main, snd, tot, ghost, weights, net>> /\ flaws \subseteq flaws'
  BY DEF Push, clients, peers
<1>13. PICK l \in Layer : \E g : PushOf(s, w, l, g)
  BY PushServed
<1>14. PICK g : PushOf(s, w, l, g)
  BY <1>13
<1>2. /\ local' = [local EXCEPT ![s][l] = @ \cup {g}]
      /\ g \in Asks(queue[s][w], busy[s][w], l)
      /\ queue[s][w] # <<>> /\ queue[s][w][1].op = "PUSH" /\ queue[s][w][1].layer = l
      /\ busy[s][w].at = "idle" /\ ReportOf(queue[s][w][1]) = g
      /\ IF Cardinality(local'[s][l]) = tot[s]
         THEN Goto(s, w, [at |-> "apply", layer |-> l, closed |-> local'[s][l]]) /\ UNCHANGED requests
         ELSE Finish(s, w)
  BY <1>14 DEF PushOf
<1>3. PICK whole : whole = IF Cardinality(local'[s][l]) = tot[s] THEN local'[s][l] ELSE {}
  OBVIOUS
<1>4. Serving(s, w, l, g, whole)
  <2>1. CASE Cardinality(local'[s][l]) = tot[s]
    <3>1. Goto(s, w, [at |-> "apply", layer |-> l, closed |-> whole]) /\ UNCHANGED requests
      BY <1>2, <1>3, <2>1
    <3> QED BY <1>2, <3>1, PushServes
  <2>2. CASE Cardinality(local'[s][l]) # tot[s]
    <3>1. Finish(s, w) /\ whole = {}
      BY <1>2, <1>3, <2>2
    <3> QED BY <1>2, <3>1, PushServes
  <2> QED BY <2>1, <2>2
<1>5. AppInv /\ conf \in Confs
  BY BasesHave
<1>6. Forth /\ ClientsOK'
  BY <1>1, <1>5, ClientsStill DEF AppInv
<1>7. /\ Matrix(local') /\ local'[s][l] = local[s][l] \cup {g}
      /\ \A a \in Server, j \in Layer : a # s \/ j # l => local'[a][j] = local[a][j]
  <2>1. PICK m, n : m = local' /\ n = local[s][l] \cup {g}
    OBVIOUS
  <2>2. Matrix(local) /\ m = [local EXCEPT ![s][l] = n]
    BY <1>2, <1>5, <2>1 DEF AppInv, MatricesOK
  <2>3. /\ DOMAIN m = Server /\ \A a \in Server : DOMAIN m[a] = Layer
        /\ \A a \in Server, j \in Layer : m[a][j] = IF a = s /\ j = l THEN n ELSE local[a][j]
    BY <2>2, TwoLevels DEF Matrix
  <2> QED BY <2>1, <2>3 DEF Matrix
<1>8. g \in Home(s)
  <2>1. HeldAre(s, s, l) /\ <<"ask", w>> \in Stage
    BY HeldAt, StagesIn
  <2>2. g \in Held(<<"ask", w>>, s, s, l)
    BY <1>2, <2>1 DEF HeldAre
  <2> QED BY <2>1, <2>2, TrackHas DEF Track, HeldOK
<1>9. /\ Server' = Server /\ Layer' = Layer /\ Torn' = Torn /\ Grad' = Grad
      /\ Stain \subseteq Stain' /\ \A a : Home(a)' = Home(a)
  BY <1>1, SameConf, HomeSame, StainMore DEF Layer, Torn
<1>10. MatricesOK'
  <2>1. Matrix(local)' /\ Matrix(ghost)' /\ Matrix(weights)'
    BY <1>1, <1>5, <1>7, <1>9 DEF AppInv, MatricesOK, Matrix
  <2>2. ASSUME NEW a \in Server, NEW j \in Layer
        PROVE  /\ local'[a][j] \subseteq Home(a) /\ ghost'[a][j] \subseteq (Grad \ Home(a)) \cup Stain'
               /\ weights'[a][j] \subseteq Grad \cup {Torn}
    <3>1. /\ local[a][j] \subseteq Home(a) /\ ghost[a][j] \subseteq (Grad \ Home(a)) \cup Stain
          /\ weights[a][j] \subseteq Grad \cup {Torn}
      BY <1>5 DEF AppInv, MatricesOK
    <3>2. local'[a][j] \subseteq Home(a)
      BY <1>7, <1>8, <3>1
    <3>3. ghost'[a][j] = ghost[a][j] /\ weights'[a][j] = weights[a][j]
      BY <1>1
    <3> QED BY <1>9, <3>1, <3>2, <3>3
  <2> QED BY <1>9, <2>1, <2>2 DEF MatricesOK
<1>11. NetOK' /\ AllAsksOK'
  <2>1. NetCalm
    BY <1>1, NetUnchanged, BasesHave
  <2>2. \A a \in Server, v \in Worker : AsksOK(queue'[a][v], busy'[a][v])
    BY <1>4 DEF Serving
  <2> QED BY <1>1, <1>6, <2>1, <2>2, NetStays, AsksStay
<1>12. ASSUME NEW a \in Server, NEW u \in Server, NEW j \in Layer
       PROVE  Track(a, u, j)'
  <2>1. CASE a = s /\ j = l /\ u = s
    BY <1>1, <1>2, <1>4, <1>6, <1>7, <2>1, PushHome
  <2>2. CASE a = s /\ j = l /\ u # s
    <3>1. UNCHANGED <<tot, ghost, weights, net>> /\ u # s /\ local'[s][l] = local[s][l] \cup {g}
      BY <1>1, <1>7, <2>2
    <3>3. g \in Asks(queue[s][w], busy[s][w], l)
      BY <1>2
    <3>4. whole = IF Cardinality(local'[s][l]) = tot[s] THEN local'[s][l] ELSE {}
      BY <1>3
    <3>5. Serving(s, w, l, g, whole) /\ Forth
      BY <1>4, <1>6
    <3>2. Track(s, u, l)'
      BY <3>1, <3>3, <3>4, <3>5, PushAway, ZenonT(60)
    <3> QED BY <2>2, <3>2
  <2>3. CASE a # s \/ j # l
    <3>1. local'[a][j] = local[a][j]
      BY <1>7, <2>3
    <3>2. UNCHANGED <<tot, ghost, weights, net>> /\ (a # s \/ j # l)
      BY <1>1, <2>3
    <3> QED BY <1>4, <1>6, <3>1, <3>2, PushElse
  <2> QED BY <2>1, <2>2, <2>3
<1> QED BY <1>6, <1>9, <1>10, <1>11, <1>12 DEF AppInv, Tracks

(* The updates of the peers, and their application with the server's own.  *)

\* ghostUpdMat of s becomes G, or both go into the weights.
Absorbs(s, l, G) ==
  /\ Matrix(local') /\ Matrix(ghost') /\ Matrix(weights')
  /\ \A u \in Server, j \in Layer : u # s \/ j # l =>
       local'[u][j] = local[u][j] /\ ghost'[u][j] = ghost[u][j] /\ weights'[u][j] = weights[u][j]
  /\ \/ local'[s][l] = local[s][l] /\ ghost'[s][l] = G /\ weights'[s][l] = weights[s][l]
     \/ /\ local'[s][l] = {} /\ ghost'[s][l] = {}
        /\ weights'[s][l] = weights[s][l] \cup local[s][l] \cup G

\* n is the matrices m, with x for layer l of s.
With(m, s, l, x, n) ==
  /\ Matrix(n) /\ n[s][l] = x
  /\ \A u \in Server, j \in Layer : u # s \/ j # l => n[u][j] = m[u][j]

LEMMA MatrixSet ==
  ASSUME NEW m, Matrix(m), NEW s \in Server, NEW l \in Layer, NEW x, NEW n, n = [m EXCEPT ![s][l] = x]
  PROVE  With(m, s, l, x, n)
<1>1. /\ DOMAIN n = Server /\ \A a \in Server : DOMAIN n[a] = Layer
      /\ \A a \in Server, j \in Layer : n[a][j] = IF a = s /\ j = l THEN x ELSE m[a][j]
  BY TwoLevels DEF Matrix
<1> QED BY <1>1 DEF Matrix, With

LEMMA TryAbsorbs ==
  ASSUME MatricesOK, NEW s \in Server, NEW l \in Layer, NEW G, NEW cnt,
         \/ TryApplyUpdate(s, l, G, cnt)
         \/ KeepGhost(s, l, G, cnt) /\ UNCHANGED <<tot, local, weights, epoch>>
  PROVE  Absorbs(s, l, G) /\ tot' = tot
<1>1. Matrix(local) /\ Matrix(ghost) /\ Matrix(weights)
  BY DEF MatricesOK
<1>2. PICK m, n, x, y : m = local' /\ n = ghost' /\ x = weights' /\ y = weights[s][l] \cup local[s][l] \cup G
  OBVIOUS
<1>3. tot' = tot /\ \/ m = local /\ x = weights /\ n = [ghost EXCEPT ![s][l] = G]
                    \/ /\ m = [local EXCEPT ![s][l] = {}] /\ x = [weights EXCEPT ![s][l] = y]
                       /\ n = [ghost EXCEPT ![s][l] = {}]
  <2>1. CASE KeepGhost(s, l, G, cnt) /\ UNCHANGED <<tot, local, weights, epoch>>
    BY <1>2, <2>1 DEF KeepGhost
  <2>2. CASE TryApplyUpdate(s, l, G, cnt)
    <3>1. CASE Cardinality(local[s][l]) >= tot[s] /\ cnt >= Cardinality(Others(s))
      BY <1>2, <2>2, <3>1 DEF TryApplyUpdate, KeepGhost
    <3>2. CASE ~(Cardinality(local[s][l]) >= tot[s] /\ cnt >= Cardinality(Others(s)))
      <4>1. KeepGhost(s, l, G, cnt) /\ UNCHANGED <<tot, local, weights, epoch>>
        BY <2>2, <3>2 DEF TryApplyUpdate
      <4> QED BY <1>2, <4>1 DEF KeepGhost
    <3> QED BY <3>1, <3>2
  <2> QED BY <2>1, <2>2
<1>4. CASE m = local /\ x = weights /\ n = [ghost EXCEPT ![s][l] = G]
  <2>1. n = [ghost EXCEPT ![s][l] = G]
    BY <1>4
  <2>2. With(ghost, s, l, G, n)
    BY <1>1, <2>1, MatrixSet
  <2> QED BY <1>1, <1>2, <1>3, <1>4, <2>2 DEF Absorbs, With
<1>5. CASE /\ m = [local EXCEPT ![s][l] = {}] /\ x = [weights EXCEPT ![s][l] = y]
           /\ n = [ghost EXCEPT ![s][l] = {}]
  <2>1. PICK e : e = {}
    OBVIOUS
  <2>2. m = [local EXCEPT ![s][l] = e] /\ n = [ghost EXCEPT ![s][l] = e] /\ x = [weights EXCEPT ![s][l] = y]
    BY <1>5, <2>1
  <2>3. With(local, s, l, e, m)
    BY <1>1, <2>2, MatrixSet
  <2>4. With(ghost, s, l, e, n)
    BY <1>1, <2>2, MatrixSet
  <2>5. With(weights, s, l, y, x)
    BY <1>1, <2>2, MatrixSet
  <2> QED BY <1>2, <1>3, <2>1, <2>3, <2>4, <2>5 DEF Absorbs, With
<1> QED BY <1>3, <1>4, <1>5

LEMMA AbsorbMatrices ==
  ASSUME conf \in Confs, MatricesOK, Forth, NEW s \in Server, NEW l \in Layer, NEW G, Absorbs(s, l, G),
         G \subseteq (Grad \ Home(s)) \cup Stain'
  PROVE  MatricesOK'
<1>1. /\ Server' = Server /\ Layer' = Layer /\ Torn' = Torn /\ Grad' = Grad
      /\ Stain \subseteq Stain' /\ \A a : Home(a)' = Home(a)
  BY SameConf, HomeSame, StainMore DEF Layer, Torn, Forth
<1>2. Matrix(local)' /\ Matrix(ghost)' /\ Matrix(weights)'
  BY <1>1 DEF Absorbs, Matrix
<1>3. ASSUME NEW a \in Server, NEW j \in Layer
      PROVE  /\ local'[a][j] \subseteq Home(a) /\ ghost'[a][j] \subseteq (Grad \ Home(a)) \cup Stain'
             /\ weights'[a][j] \subseteq Grad \cup {Torn}
  <2>1. /\ local[a][j] \subseteq Home(a) /\ ghost[a][j] \subseteq (Grad \ Home(a)) \cup Stain
        /\ weights[a][j] \subseteq Grad \cup {Torn} /\ Home(a) \subseteq Grad
    BY TornApart DEF MatricesOK
  <2>2. CASE a # s \/ j # l
    <3>1. local'[a][j] = local[a][j] /\ ghost'[a][j] = ghost[a][j] /\ weights'[a][j] = weights[a][j]
      BY <2>2 DEF Absorbs
    <3> QED BY <1>1, <2>1, <3>1
  <2>3. CASE a = s /\ j = l
    <3>1. Stain' \subseteq {Torn}
      BY <1>1 DEF Stain
    <3> QED BY <2>1, <2>3, <3>1 DEF Absorbs
  <2> QED BY <2>2, <2>3
<1> QED BY <1>1, <1>2, <1>3 DEF MatricesOK

\* Requests and closed updates of a for layer j, and where a is not u the messages to u,
\* do not get more.
NoneMore(a, u, j) ==
  /\ \A v \in Worker :
       /\ Asks(queue'[a][v], busy'[a][v], j) \subseteq Asks(queue[a][v], busy[a][v], j)
       /\ Closed(busy'[a][v], j) \subseteq Closed(busy[a][v], j)
  /\ a # u => OnWay(net'[a][u], j) \subseteq OnWay(net[a][u], j)

LEMMA LessStages ==
  ASSUME Forth, NEW a, NEW u, NEW j, NoneMore(a, u, j), NEW p \in Stage,
         p \notin {<<"local", 0>>, <<"ghost", 0>>, <<"weights", 0>>}
  PROVE  Held(p, a, u, j)' \subseteq Held(p, a, u, j)
<1>1. HeldAre(a, u, j)
  BY HeldAt
<1>2. HeldWill(a, u, j)
  BY HeldAtNext DEF Forth
<1>3. ASSUME NEW v \in Worker, p = <<"ask", v>> \/ p = <<"closed", v>>
      PROVE  Held(p, a, u, j)' \subseteq Held(p, a, u, j)
  <2>1. /\ Asks(queue'[a][v], busy'[a][v], j) \subseteq Asks(queue[a][v], busy[a][v], j)
        /\ Closed(busy'[a][v], j) \subseteq Closed(busy[a][v], j)
    BY DEF NoneMore
  <2>2. CASE p = <<"ask", v>>
    BY <1>1, <1>2, <2>1, <2>2 DEF HeldAre, HeldWill
  <2>3. CASE p = <<"closed", v>>
    BY <1>1, <1>2, <2>1, <2>3 DEF HeldAre, HeldWill
  <2> QED BY <1>3, <2>2, <2>3
<1>4. CASE p = <<"net", 0>>
  <2>1. a # u => OnWay(net'[a][u], j) \subseteq OnWay(net[a][u], j)
    BY DEF NoneMore
  <2> QED BY <1>1, <1>2, <1>4, <2>1 DEF HeldAre, HeldWill
<1> QED BY <1>3, <1>4, StagesAre

\* On other servers, and for the other layer.
LEMMA AbsorbElse ==
  ASSUME Bases, Forth, NEW s \in Server, NEW l \in Layer, NEW G, Absorbs(s, l, G), tot' = tot,
         NEW a \in Server, NEW u \in Server, NEW j \in Layer, u # s \/ j # l, NoneMore(a, u, j)
  PROVE  Track(a, u, j)'
<1>1. Track(a, u, j) /\ Cardinality(local[a][j]) \in Nat /\ tot[a] \in Int
  BY TrackHas
<1>2. HeldAre(a, u, j)
  BY HeldAt
<1>3. HeldWill(a, u, j)
  BY HeldAtNext DEF Forth
<1>4. ghost'[u][j] = ghost[u][j] /\ weights'[u][j] = weights[u][j]
  BY DEF Absorbs
<1>5. local'[a][j] \in {local[a][j], {}}
  BY DEF Absorbs
<1>6. a = u => local'[a][j] = local[a][j]
  BY DEF Absorbs
<1>7. \A p \in Stage : Held(p, a, u, j)' \subseteq Held(p, a, u, j)
  <2> SUFFICES ASSUME NEW p \in Stage
               PROVE  Held(p, a, u, j)' \subseteq Held(p, a, u, j)
    OBVIOUS
  <2>1. CASE p = <<"local", 0>>
    BY <1>2, <1>3, <1>6, <2>1 DEF HeldAre, HeldWill
  <2>2. CASE p = <<"ghost", 0>> \/ p = <<"weights", 0>>
    BY <1>2, <1>3, <1>4, <2>2 DEF HeldAre, HeldWill
  <2>3. CASE p \notin {<<"local", 0>>, <<"ghost", 0>>, <<"weights", 0>>}
    BY <2>3, LessStages
  <2> QED BY <2>1, <2>2, <2>3
<1>8. PICK N : N = {}
  OBVIOUS
<1>9. PICK b : b \in Stage
  BY StagesIn
<1>10. Held(b, a, u, j)' \subseteq Held(b, a, u, j) \cup N
  BY <1>7, <1>9
<1>11. \A g \in N : \E d \in Stage : g \in Held(d, a, u, j) /\ g \notin Held(d, a, u, j)'
  BY <1>8
<1> QED BY <1>1, <1>5, <1>7, <1>9, <1>10, <1>11, TrackMoves

\* At home: from the local matrix to the weights.
LEMMA AbsorbHome ==
  ASSUME Bases, Forth, NEW s \in Server, NEW l \in Layer, NEW G, Absorbs(s, l, G), tot' = tot,
         NoneMore(s, s, l), G \cap Home(s) = {}
  PROVE  Track(s, s, l)'
<1>1. Track(s, s, l) /\ Cardinality(local[s][l]) \in Nat /\ tot[s] \in Int
  BY TrackHas
<1>2. HeldAre(s, s, l)
  BY HeldAt
<1>3. HeldWill(s, s, l)
  BY HeldAtNext DEF Forth
<1>4. PICK a, i : a = <<"weights", 0>> /\ i = <<"local", 0>>
  OBVIOUS
<1>5. a \in Stage /\ i \in Stage
  BY <1>4, StagesIn
<1>6. PICK N : N = IF local'[s][l] = {} THEN local[s][l] ELSE {}
  OBVIOUS
<1>7. local'[s][l] \in {local[s][l], {}}
  BY DEF Absorbs
<1>8. \A p \in Stage : p # a => Held(p, s, s, l)' \subseteq Held(p, s, s, l)
  <2> SUFFICES ASSUME NEW p \in Stage, p # a
               PROVE  Held(p, s, s, l)' \subseteq Held(p, s, s, l)
    OBVIOUS
  <2>1. CASE p = <<"local", 0>>
    BY <1>2, <1>3, <1>7, <2>1 DEF HeldAre, HeldWill
  <2>2. CASE p = <<"ghost", 0>>
    BY <1>2, <1>3, <2>2 DEF HeldAre, HeldWill
  <2>3. CASE p \notin {<<"local", 0>>, <<"ghost", 0>>, <<"weights", 0>>}
    BY <2>3, LessStages
  <2> QED BY <1>4, <2>1, <2>2, <2>3
<1>9. weights'[s][l] \cap Home(s) \subseteq (weights[s][l] \cap Home(s)) \cup N
  BY <1>6 DEF Absorbs
<1>10. Held(a, s, s, l)' \subseteq Held(a, s, s, l) \cup N
  BY <1>2, <1>3, <1>4, <1>9 DEF HeldAre, HeldWill
<1>11. \A g \in N : g \in Held(i, s, s, l) /\ g \notin Held(i, s, s, l)'
  BY <1>2, <1>3, <1>4, <1>6 DEF HeldAre, HeldWill
<1>12. \A g \in N : \E d \in Stage : g \in Held(d, s, s, l) /\ g \notin Held(d, s, s, l)'
  BY <1>5, <1>11
<1> QED BY <1>1, <1>5, <1>7, <1>8, <1>10, <1>12, TrackMoves

\* On s, of another server a: from the message to ghostUpdMat, or from both to the weights.
LEMMA AbsorbAway ==
  ASSUME Bases, Forth, NEW s \in Server, NEW l \in Layer, NEW G, Absorbs(s, l, G), tot' = tot,
         NEW a \in Server, a # s, NoneMore(a, s, l), NEW N, N = G \cap Home(a),
         \A g \in N : g \in ghost[s][l] \/ g \in OnWay(net[a][s], l),
         "raced" \notin flaws' => \A g \in N :
           g \in ghost[s][l] \/ (g \in OnWay(net[a][s], l) /\ g \notin OnWay(net'[a][s], l))
  PROVE  Track(a, s, l)'
<1>1. Track(a, s, l) /\ Cardinality(local[a][l]) \in Nat /\ tot[a] \in Int
  BY TrackHas
<1>2. HeldAre(a, s, l)
  BY HeldAt
<1>3. HeldWill(a, s, l)
  BY HeldAtNext DEF Forth
<1>4. PICK b, c, i : b = <<"weights", 0>> /\ c = <<"ghost", 0>> /\ i = <<"net", 0>>
  OBVIOUS
<1>5. b \in Stage /\ c \in Stage /\ i \in Stage /\ b # c /\ b # i /\ c # i
  BY <1>4, StagesIn
<1>6. local'[a][l] = local[a][l]
  BY DEF Absorbs
<1>7. \A g \in N : (g \in Held(c, a, s, l) \/ g \in Held(i, a, s, l)) /\ g \in Home(a)
  BY <1>2, <1>4 DEF HeldAre
<1>8. ASSUME NEW p \in Stage, p # b, p # c
      PROVE  Held(p, a, s, l)' \subseteq Held(p, a, s, l)
  <2>1. CASE p = <<"local", 0>>
    BY <1>2, <1>3, <2>1 DEF HeldAre, HeldWill
  <2>2. CASE p \notin {<<"local", 0>>, <<"ghost", 0>>, <<"weights", 0>>}
    BY <2>2, LessStages
  <2> QED BY <1>4, <1>8, <2>1, <2>2
<1>9. "raced" \notin flaws' => \A g \in N :
        g \in Held(c, a, s, l) \/ (g \in Held(i, a, s, l) /\ g \notin Held(i, a, s, l)')
  <2> SUFFICES ASSUME "raced" \notin flaws', NEW g \in N
               PROVE  g \in Held(c, a, s, l) \/ (g \in Held(i, a, s, l) /\ g \notin Held(i, a, s, l)')
    OBVIOUS
  <2>1. g \in ghost[s][l] \/ (g \in OnWay(net[a][s], l) /\ g \notin OnWay(net'[a][s], l))
    OBVIOUS
  <2>2. g \in Home(a)
    BY <1>7
  <2>3. CASE g \in ghost[s][l]
    BY <1>2, <1>4, <2>2, <2>3 DEF HeldAre
  <2>4. CASE g \in OnWay(net[a][s], l) /\ g \notin OnWay(net'[a][s], l)
    BY <1>2, <1>3, <1>4, <2>2, <2>4 DEF HeldAre, HeldWill
  <2> QED BY <2>1, <2>3, <2>4
<1>10. local[s][l] \cap Home(a) = {}
  BY TrackHas, HomesApart
<1>11. CASE ghost'[s][l] = G /\ weights'[s][l] = weights[s][l]
  <2>1. PICK M : M = {g \in N : g \notin Held(c, a, s, l)}
    OBVIOUS
  <2>2. \A p \in Stage : p # c => Held(p, a, s, l)' \subseteq Held(p, a, s, l)
    <3>1. Held(b, a, s, l)' \subseteq Held(b, a, s, l)
      BY <1>2, <1>3, <1>4, <1>11 DEF HeldAre, HeldWill
    <3> QED BY <1>8, <3>1
  <2>3. Held(c, a, s, l)' \subseteq Held(c, a, s, l) \cup M
    <3>1. Held(c, a, s, l)' = N
      BY <1>3, <1>4, <1>11 DEF HeldWill
    <3> QED BY <2>1, <3>1
  <2>4. \A g \in M : \E d \in Stage : g \in Held(d, a, s, l)
    BY <1>5, <1>7, <2>1
  <2>5. "raced" \notin flaws' => \A g \in M :
          \E d \in Stage : g \in Held(d, a, s, l) /\ g \notin Held(d, a, s, l)'
    BY <1>5, <1>9, <2>1
  <2> QED BY <1>1, <1>5, <1>6, <2>2, <2>3, <2>4, <2>5, TrackMoves
<1>12. CASE ghost'[s][l] = {} /\ weights'[s][l] = weights[s][l] \cup local[s][l] \cup G
  <2>1. Held(c, a, s, l)' = {}
    BY <1>3, <1>4, <1>12 DEF HeldWill
  <2>2. \A p \in Stage : p # b => Held(p, a, s, l)' \subseteq Held(p, a, s, l)
    BY <1>8, <2>1
  <2>3. Held(b, a, s, l)' \subseteq Held(b, a, s, l) \cup N
    <3>1. weights'[s][l] \cap Home(a) \subseteq (weights[s][l] \cap Home(a)) \cup N
      BY <1>10, <1>12
    <3> QED BY <1>2, <1>3, <1>4, <3>1 DEF HeldAre, HeldWill
  <2>4. \A g \in N : \E d \in Stage : g \in Held(d, a, s, l)
    BY <1>5, <1>7
  <2>5. "raced" \notin flaws' => \A g \in N :
          \E d \in Stage : g \in Held(d, a, s, l) /\ g \notin Held(d, a, s, l)'
    BY <1>5, <1>9, <2>1
  <2> QED BY <1>1, <1>5, <1>6, <2>2, <2>3, <2>4, <2>5, TrackMoves
<1> QED BY <1>11, <1>12 DEF Absorbs

(* Updates are sent and received.                                          *)

LEMMA CalmLess ==
  ASSUME QueuesCalm, NEW a \in Server, NEW u \in Server, NEW j \in Layer,
         a # u => OnWay(net'[a][u], j) \subseteq OnWay(net[a][u], j)
  PROVE  NoneMore(a, u, j)
BY DEF QueuesCalm, NoneMore

LEMMA StainIs ==
  ASSUME flaws \subseteq flaws'
  PROVE  Stain \subseteq {Torn} /\ Stain' \subseteq {Torn} /\ Stain \subseteq Stain'
         /\ ("raced" \in flaws' => Torn \in Stain')
BY DEF Stain, Torn

LEMMA GhostAway ==
  ASSUME Bases, NEW s \in Server, NEW l \in Layer
  PROVE  /\ ghost[s][l] \subseteq (Grad \ Home(s)) \cup Stain
         /\ ghost[s][l] \cap Home(s) = {}
<1>1. ghost[s][l] \subseteq (Grad \ Home(s)) \cup Stain /\ conf \in Confs
  BY BasesHave DEF AppInv, MatricesOK
<1>2. Torn \notin Home(s)
  BY <1>1, TornApart
<1>3. Stain \subseteq {Torn}
  BY DEF Stain
<1> QED BY <1>1, <1>2, <1>3

\* A copy of the closed update is on its way to u.
LEMMA ApplySends ==
  ASSUME Bases, Forth, NEW s \in Server, NEW l \in Layer, NEW G, Absorbs(s, l, G), tot' = tot,
         NEW u \in Server, u # s, QueuesCalm, NEW w \in Worker, Closed(busy'[s][w], l) = {}, NEW copy,
         OnWay(net'[s][u], l) \subseteq OnWay(net[s][u], l) \cup copy,
         copy \subseteq {Torn} \/ copy = Closed(busy[s][w], l),
         "raced" \notin flaws' => copy = Closed(busy[s][w], l)
  PROVE  Track(s, u, l)'
<1>1. Track(s, u, l) /\ Cardinality(local[s][l]) \in Nat /\ tot[s] \in Int
  BY TrackHas
<1>2. HeldAre(s, u, l)
  BY HeldAt
<1>3. HeldWill(s, u, l)
  BY HeldAtNext DEF Forth
<1>4. PICK a, i, N : a = <<"net", 0>> /\ i = <<"closed", w>> /\ N = copy \cap Home(s)
  OBVIOUS
<1>5. a \in Stage /\ i \in Stage
  BY <1>4, StagesIn
<1>6. ghost'[u][l] = ghost[u][l] /\ weights'[u][l] = weights[u][l] /\ local'[s][l] \in {local[s][l], {}}
  BY DEF Absorbs
<1>7. \A p \in Stage : p # a => Held(p, s, u, l)' \subseteq Held(p, s, u, l)
  <2> SUFFICES ASSUME NEW p \in Stage, p # a
               PROVE  Held(p, s, u, l)' \subseteq Held(p, s, u, l)
    OBVIOUS
  <2>1. ASSUME NEW v \in Worker, p = <<"ask", v>> \/ p = <<"closed", v>>
        PROVE  Held(p, s, u, l)' \subseteq Held(p, s, u, l)
    <3>1. /\ Asks(queue'[s][v], busy'[s][v], l) \subseteq Asks(queue[s][v], busy[s][v], l)
          /\ Closed(busy'[s][v], l) \subseteq Closed(busy[s][v], l)
      BY DEF QueuesCalm
    <3>2. CASE p = <<"ask", v>>
      BY <1>2, <1>3, <3>1, <3>2 DEF HeldAre, HeldWill
    <3>3. CASE p = <<"closed", v>>
      BY <1>2, <1>3, <3>1, <3>3 DEF HeldAre, HeldWill
    <3> QED BY <2>1, <3>2, <3>3
  <2>2. CASE p = <<"local", 0>> \/ p = <<"ghost", 0>> \/ p = <<"weights", 0>>
    BY <1>2, <1>3, <1>6, <2>2 DEF HeldAre, HeldWill
  <2> QED BY <1>4, <2>1, <2>2, StagesAre
<1>8. Held(a, s, u, l)' \subseteq Held(a, s, u, l) \cup N
  <2>1. OnWay(net'[s][u], l) \cap Home(s) \subseteq (OnWay(net[s][u], l) \cap Home(s)) \cup N
    BY <1>4
  <2> QED BY <1>2, <1>3, <1>4, <2>1 DEF HeldAre, HeldWill
<1>9. Torn \notin Home(s)
  BY BasesHave, TornApart
<1>10. \A g \in N : g \in Closed(busy[s][w], l)
  BY <1>4, <1>9
<1>11. \A g \in N : g \in Held(i, s, u, l) /\ g \notin Held(i, s, u, l)'
  BY <1>2, <1>3, <1>4, <1>10 DEF HeldAre, HeldWill
<1>12. \A g \in N : \E d \in Stage : g \in Held(d, s, u, l) /\ g \notin Held(d, s, u, l)'
  BY <1>5, <1>11
<1>13. \A g \in N : \E d \in Stage : g \in Held(d, s, u, l)
  BY <1>12
<1> QED BY <1>1, <1>5, <1>6, <1>7, <1>8, <1>12, <1>13, TrackMoves

SendsAll(s, m) ==
  net' = [net EXCEPT ![s] = [t \in Server |-> IF t = s THEN @[t] ELSE Append(@[t], m)]]

LEMMA SendsTo ==
  ASSUME Wired(net, Server), NEW s \in Server, NEW m, SendsAll(s, m)
  PROVE  \A a \in Server, u \in Server :
           net'[a][u] = IF a = s /\ u # s THEN Append(net[a][u], m) ELSE net[a][u]
<1>1. DOMAIN net = Server
  BY DEF Wired
<1>2. PICK z, y : z = net' /\ y = [t \in Server |-> IF t = s THEN net[s][t] ELSE Append(net[s][t], m)]
  OBVIOUS
<1>3. z = [net EXCEPT ![s] = y]
  BY <1>2 DEF SendsAll
<1>4. \A a \in Server : z[a] = IF a = s THEN y ELSE net[a]
  BY <1>1, <1>3
<1>5. \A u \in Server : y[u] = IF u = s THEN net[s][u] ELSE Append(net[s][u], m)
  BY <1>2
<1> QED BY <1>2, <1>4, <1>5

LEMMA ApplyUpdateApp ==
  ASSUME Bases, NEW s \in Server, NEW w \in Worker, ApplyUpdate(s, w)
  PROVE  AppInv'
<1>1. UNCHANGED <<conf, main, snd, queue>> /\ flaws \subseteq flaws'
  BY DEF ApplyUpdate, clients, requests
<1>2. PICK y, l, G, copy, b :
        /\ y = busy[s][w] /\ l = y.layer /\ G = ghost[s][l]
        /\ copy = IF local[s][l] # y.closed THEN {Torn} ELSE local[s][l]
        /\ b = [at |-> "acks"]
  OBVIOUS
<1>3. PICK m : m = [kind |-> "DATA", layer |-> l, upd |-> copy]
  OBVIOUS
<1>4. y.at = "apply" /\ Goto(s, w, b) /\ w \in Threads
  BY <1>2 DEF ApplyUpdate, At, Threads
<1>5. /\ SendsAll(s, m)
      /\ local[s][l] # y.closed => "raced" \in flaws'
      /\ TryApplyUpdate(s, l, G, ghostUpdCnt[s][l])
  BY <1>2, <1>3 DEF ApplyUpdate, SendsAll
<1>6. AppInv /\ conf \in Confs /\ RepInv /\ AllAsksOK /\ NetOK /\ Wired(net, Server) /\ MatricesOK
  BY BasesHave DEF AppInv
<1>7. l \in Layer /\ queue[s][w] # <<>>
  <2>1. IsQueue(queue[s][w]) /\ AsksOK(queue[s][w], y) /\ (y.at # "idle" => Len(queue[s][w]) > 0)
    BY <1>2, <1>6, QueueHas
  <2>2. l \in Layer
    BY <1>2, <1>4, <2>1 DEF AsksOK
  <2>3. Len(queue[s][w]) > 0
    BY <1>4, <2>1
  <2> QED BY <2>1, <2>2, <2>3, QueueEmpty
<1>8. Absorbs(s, l, G) /\ tot' = tot
  BY <1>5, <1>6, <1>7, TryAbsorbs
<1>9. Forth /\ ClientsOK'
  BY <1>1, <1>6, ClientsStill DEF AppInv
<1>10. QueuesCalm
  <2>1. b.at \notin {"idle", "apply"}
    BY <1>2
  <2> QED BY <1>1, <1>4, <1>6, <1>7, <2>1, GoCalm
<1>11. Closed(y, l) = y.closed /\ Closed(busy'[s][w], l) = {}
  <2>1. busy'[s][w] = b
    BY <1>4, <1>6, GotoAll
  <2>2. b.at # "apply"
    BY <1>2
  <2> QED BY <1>2, <1>4, <2>1, <2>2 DEF Closed
<1>12. copy \subseteq {Torn} \/ copy = Closed(y, l)
  BY <1>2, <1>11
<1>13. "raced" \notin flaws' => copy = Closed(y, l)
  BY <1>2, <1>5, <1>11
<1>14. /\ Stain \subseteq {Torn} /\ Stain' \subseteq {Torn} /\ Stain \subseteq Stain'
       /\ ("raced" \in flaws' => Torn \in Stain')
  BY <1>1, StainIs
<1>15. copy \subseteq Home(s) \cup Stain'
  <2>1. local[s][l] \subseteq Home(s)
    BY <1>7, TrackHas
  <2> QED BY <1>2, <1>5, <1>14, <2>1
<1>16. \A a \in Server, u \in Server :
         net'[a][u] = IF a = s /\ u # s THEN Append(net[a][u], m) ELSE net[a][u]
  BY <1>5, <1>6, SendsTo
<1>17. m.kind = "DATA" /\ m.layer = l /\ m.upd = copy
  BY <1>3
<1>18. ASSUME NEW a \in Server, NEW u \in Server
       PROVE  /\ UpdatesOK(net'[a][u], Layer, Home(a) \cup Stain')
              /\ "raced" \notin flaws' => Disjoint(net'[a][u])
              /\ \A j \in Layer : \A g \in OnWay(net'[a][u], j) :
                   g \in OnWay(net[a][u], j) \/ (a = s /\ u # s /\ j = l /\ g \in copy)
  <2>1. PICK q, z, U : q = net[a][u] /\ z = net'[a][u] /\ U = Home(a) \cup Stain'
    OBVIOUS
  <2>2. IsQueue(q) /\ UpdatesOK(q, Layer, Home(a) \cup Stain) /\ ("raced" \notin flaws => Disjoint(q))
    BY <1>6, <2>1 DEF Wired, NetOK
  <2>3. UpdatesOK(q, Layer, U)
    BY <1>14, <2>1, <2>2, UpdatesMore
  <2>4. "raced" \notin flaws' => Disjoint(q)
    BY <1>1, <2>2
  <2>5. CASE a = s /\ u # s
    <3>1. z = Append(q, m)
      BY <1>16, <2>1, <2>5
    <3>2. m.kind = "DATA" => m.layer \in Layer /\ m.upd \subseteq U
      BY <1>7, <1>15, <1>17, <2>1, <2>5
    <3>3. "raced" \notin flaws' => copy \cap OnWay(q, l) = {}
      <4> SUFFICES ASSUME "raced" \notin flaws', NEW g \in copy, g \in OnWay(q, l)
                   PROVE  FALSE
        OBVIOUS
      <4>1. HeldAre(s, u, l) /\ <<"closed", w>> \in Stage /\ <<"net", 0>> \in Stage
        BY HeldAt, StagesIn
      <4>2. g \in Held(<<"closed", w>>, s, u, l)
        BY <1>2, <1>13, <2>5, <4>1 DEF HeldAre
      <4>3. Track(s, u, l) /\ "raced" \notin flaws
        BY <1>1, <1>7, TrackHas
      <4>4. g \in Home(s)
        BY <4>1, <4>2, <4>3 DEF Track, HeldOK
      <4>5. g \in Held(<<"net", 0>>, s, u, l)
        BY <2>1, <2>5, <4>1, <4>4 DEF HeldAre
      <4>6. <<"closed", w>> = <<"net", 0>>
        BY <4>1, <4>2, <4>3, <4>5 DEF Track, OnePlace
      <4> QED BY <4>6
    <3>4. /\ UpdatesOK(z, Layer, U)
          /\ Disjoint(q) /\ (m.kind = "DATA" => m.upd \cap OnWay(q, m.layer) = {}) => Disjoint(z)
          /\ \A j : \A g \in OnWay(z, j) : g \in OnWay(q, j) \/ (m.kind = "DATA" /\ m.layer = j /\ g \in m.upd)
      BY <2>2, <2>3, <3>1, <3>2, ChanMore
    <3> QED BY <1>17, <2>1, <2>4, <2>5, <3>3, <3>4
  <2>6. CASE ~(a = s /\ u # s)
    <3>1. z = q
      BY <1>16, <2>1, <2>6
    <3> QED BY <2>1, <2>3, <2>4, <3>1
  <2> QED BY <2>5, <2>6
<1>19. /\ Server' = Server /\ Layer' = Layer /\ \A a : Home(a)' = Home(a)
  BY <1>1, SameConf, HomeSame DEF Layer
<1>20. NetOK'
  <2>1. ASSUME NEW a \in Server, NEW u \in Server
        PROVE  UpdatesOK(net[a][u], Layer, Home(a) \cup Stain)' /\ ("raced" \notin flaws' => Disjoint(net[a][u])')
    <3>1. PICK z, U : z = net'[a][u] /\ U = Home(a) \cup Stain'
      OBVIOUS
    <3>2. UpdatesOK(z, Layer, U) /\ ("raced" \notin flaws' => Disjoint(z))
      BY <1>18, <3>1
    <3>3. UpdatesOK(net[a][u], Layer, Home(a) \cup Stain)'
      BY <1>19, <3>1, <3>2 DEF UpdatesOK
    <3>4. Disjoint(z) => Disjoint(net[a][u])'
      BY <1>19, <3>1 DEF Disjoint, Updates
    <3> QED BY <3>2, <3>3, <3>4
  <2> QED BY <1>19, <2>1 DEF NetOK
<1>21. MatricesOK' /\ AllAsksOK'
  <2>1. G \subseteq (Grad \ Home(s)) \cup Stain'
    BY <1>2, <1>7, <1>14, GhostAway
  <2>2. \A a \in Server, v \in Worker : AsksOK(queue'[a][v], busy'[a][v])
    BY <1>10 DEF QueuesCalm
  <2> QED BY <1>1, <1>6, <1>7, <1>8, <1>9, <2>1, <2>2, AbsorbMatrices, AsksStay
<1>22. ASSUME NEW a \in Server, NEW u \in Server, NEW j \in Layer
       PROVE  Track(a, u, j)'
  <2>1. CASE a = s /\ u # s /\ j = l
    <3>1. OnWay(net'[s][u], l) \subseteq OnWay(net[s][u], l) \cup copy
      BY <1>7, <1>18
    <3>2. Track(s, u, l)'
      BY <1>2, <1>7, <1>8, <1>9, <1>10, <1>11, <1>12, <1>13, <2>1, <3>1, ApplySends
    <3> QED BY <2>1, <3>2
  <2>2. CASE ~(a = s /\ u # s /\ j = l)
    <3>1. NoneMore(a, u, j)
      <4>1. OnWay(net'[a][u], j) \subseteq OnWay(net[a][u], j)
        BY <1>18, <2>2
      <4> QED BY <1>10, <4>1, CalmLess
    <3>2. CASE u # s \/ j # l
      BY <1>7, <1>8, <1>9, <3>1, <3>2, AbsorbElse
    <3>3. CASE u = s /\ j = l /\ a = s
      <4>1. G \cap Home(s) = {}
        BY <1>2, <1>7, GhostAway
      <4> QED BY <1>7, <1>8, <1>9, <3>1, <3>3, <4>1, AbsorbHome
    <3>4. CASE u = s /\ j = l /\ a # s
      <4>1. PICK N : N = G \cap Home(a)
        OBVIOUS
      <4>2. \A g \in N : g \in ghost[s][l]
        BY <1>2, <4>1
      <4>3. Track(a, s, l)'
        BY <1>7, <1>8, <1>9, <3>1, <3>4, <4>1, <4>2, AbsorbAway
      <4> QED BY <3>4, <4>3
    <3> QED BY <3>2, <3>3, <3>4
  <2> QED BY <2>1, <2>2
<1> QED BY <1>9, <1>19, <1>20, <1>21, <1>22 DEF AppInv, Tracks

\* s has read an update of t, and acknowledged it.
LEMMA UpdateRead ==
  ASSUME Wired(net, Server), NEW s \in Server, NEW t \in Others(s), RecvData(s, t)
  PROVE  \A a \in Server, u \in Server :
           net'[a][u] = IF a = t /\ u = s THEN Tail(net[a][u])
                        ELSE IF a = s /\ u = t THEN Append(net[a][u], [kind |-> "ACK"]) ELSE net[a][u]
<1>1. PICK z, ack : z = Tail(net[t][s]) /\ ack = [kind |-> "ACK"]
  OBVIOUS
<1>2. /\ net' = [net EXCEPT ![t][s] = Tail(@), ![s][t] = Append(@, ack)]
      /\ t \in Server /\ t # s
  BY <1>1 DEF RecvData, Others
<1>3. PICK n, r, x : n = [net EXCEPT ![t][s] = z] /\ r = net' /\ x = Append(net[s][t], ack)
  OBVIOUS
<1>4. DOMAIN net = Server /\ \A a \in Server : DOMAIN net[a] = Server
  BY DEF Wired
<1>5. /\ DOMAIN n = Server /\ \A a \in Server : DOMAIN n[a] = Server
      /\ \A a \in Server, u \in Server : n[a][u] = IF a = t /\ u = s THEN z ELSE net[a][u]
  BY <1>2, <1>3, <1>4, TwoLevels
<1>6. n[s][t] = net[s][t]
  BY <1>2, <1>5
<1>7. r = [n EXCEPT ![s][t] = x]
  BY <1>1, <1>2, <1>3, <1>6
<1>8. \A a \in Server, u \in Server : r[a][u] = IF a = s /\ u = t THEN x ELSE n[a][u]
  BY <1>2, <1>5, <1>7, TwoLevels
<1>9. \A a \in Server, u \in Server :
        net'[a][u] = IF a = t /\ u = s THEN z ELSE IF a = s /\ u = t THEN Append(net[a][u], ack) ELSE net[a][u]
  <2> SUFFICES ASSUME NEW a \in Server, NEW u \in Server
               PROVE  net'[a][u] = IF a = t /\ u = s THEN z
                                   ELSE IF a = s /\ u = t THEN Append(net[a][u], ack) ELSE net[a][u]
    OBVIOUS
  <2>1. net'[a][u] = IF a = s /\ u = t THEN x ELSE IF a = t /\ u = s THEN z ELSE net[a][u]
    BY <1>3, <1>5, <1>8
  <2> QED BY <1>2, <1>3, <2>1
<1> QED BY <1>1, <1>9

LEMMA RecvDataApp ==
  ASSUME Bases, NEW s \in Server, NEW t \in Others(s), RecvData(s, t)
  PROVE  AppInv'
<1>1. UNCHANGED <<conf, main, snd, queue, busy, flaws>>
  BY DEF RecvData, clients, requests
<1>2. PICK q, msg, l, upd, G, ack :
        /\ q = net[t][s] /\ msg = Head(q) /\ l = msg.layer /\ upd = msg.upd
        /\ G = ghost[s][l] \cup upd /\ ack = [kind |-> "ACK"]
  OBVIOUS
<1>3. q # <<>> /\ msg.kind = "DATA" /\ t \in Server /\ t # s
  BY <1>2 DEF RecvData, Receives, Others
<1>4. /\ net' = [net EXCEPT ![t][s] = Tail(@), ![s][t] = Append(@, ack)]
      /\ \E cnt : \/ TryApplyUpdate(s, l, G, cnt)
                  \/ KeepGhost(s, l, G, cnt) /\ UNCHANGED <<tot, local, weights, epoch>>
  BY <1>2 DEF RecvData
<1>5. AppInv /\ conf \in Confs /\ RepInv /\ AllAsksOK /\ NetOK /\ Wired(net, Server) /\ MatricesOK
  BY BasesHave DEF AppInv
<1>6. PICK z : z = Tail(q)
  OBVIOUS
<1>7. /\ l \in Layer /\ upd \subseteq Home(t) \cup Stain /\ upd \subseteq OnWay(q, l)
      /\ "raced" \notin flaws => upd \cap OnWay(z, l) = {}
  <2>1. PICK U : U = Home(t) \cup Stain
    OBVIOUS
  <2>2. IsQueue(q) /\ UpdatesOK(q, Layer, U) /\ ("raced" \notin flaws => Disjoint(q))
    BY <1>2, <1>3, <1>5, <2>1 DEF Wired, NetOK
  <2>3. Head(q).kind = "DATA" =>
          /\ Head(q).layer \in Layer /\ Head(q).upd \subseteq U
          /\ Head(q).upd \subseteq OnWay(q, Head(q).layer)
          /\ Disjoint(q) => Head(q).upd \cap OnWay(Tail(q), Head(q).layer) = {}
    BY <1>3, <2>2, ChanLess
  <2> QED BY <1>2, <1>3, <1>6, <2>1, <2>2, <2>3
<1>8. \A a \in Server, u \in Server :
        net'[a][u] = IF a = t /\ u = s THEN z
                     ELSE IF a = s /\ u = t THEN Append(net[a][u], ack) ELSE net[a][u]
  BY <1>2, <1>5, <1>6, UpdateRead
<1>9. NetCalm
  <2>1. ASSUME NEW a \in Server, NEW u \in Server
        PROVE  Quieter(net[a][u], Layer, net'[a][u])
    <3>1. CASE a = t /\ u = s
      BY <1>2, <1>3, <1>6, <1>8, <3>1 DEF Quieter
    <3>2. CASE a = s /\ u = t
      <4>1. ack.kind # "DATA"
        BY <1>2
      <4>2. net'[a][u] = Append(net[a][u], ack)
        BY <1>3, <1>8, <3>2
      <4> QED BY <4>1, <4>2 DEF Quieter
    <3>3. CASE ~(a = t /\ u = s) /\ ~(a = s /\ u = t)
      BY <1>8, <3>3 DEF Quieter
    <3> QED BY <3>1, <3>2, <3>3
  <2> QED BY <1>5, <2>1, NetSame
<1>10. QueuesCalm
  BY <1>1, <1>5, QueuesSame
<1>11. Absorbs(s, l, G) /\ tot' = tot
  BY <1>4, <1>5, <1>7, TryAbsorbs
<1>12. Forth /\ ClientsOK'
  BY <1>1, <1>5, ClientsStill DEF AppInv
<1>13. Stain \subseteq {Torn} /\ Stain' \subseteq {Torn} /\ Stain \subseteq Stain'
  BY <1>1, StainIs
<1>14. \A a : Torn \notin Home(a) /\ Home(a) \subseteq Grad
  BY <1>5, TornApart
<1>15. G \subseteq (Grad \ Home(s)) \cup Stain' /\ G \cap Home(s) = {}
  <2>1. ghost[s][l] \subseteq (Grad \ Home(s)) \cup Stain /\ ghost[s][l] \cap Home(s) = {}
    BY <1>7, GhostAway
  <2>2. Home(t) \cap Home(s) = {}
    BY <1>3, HomesApart
  <2> QED BY <1>2, <1>7, <1>13, <1>14, <2>1, <2>2
<1>16. MatricesOK' /\ NetOK' /\ AllAsksOK'
  <2>1. \A a \in Server, v \in Worker : AsksOK(queue'[a][v], busy'[a][v])
    BY <1>10 DEF QueuesCalm
  <2> QED BY <1>1, <1>5, <1>7, <1>9, <1>11, <1>12, <1>15, <2>1, AbsorbMatrices, NetStays, AsksStay
<1>17. ASSUME NEW a \in Server, NEW u \in Server, NEW j \in Layer
       PROVE  Track(a, u, j)'
  <2>1. NoneMore(a, u, j)
    <3>1. OnWay(net'[a][u], j) \subseteq OnWay(net[a][u], j)
      BY <1>9 DEF NetCalm
    <3> QED BY <1>10, <3>1, CalmLess
  <2>2. CASE u # s \/ j # l
    BY <1>7, <1>11, <1>12, <2>1, <2>2, AbsorbElse
  <2>3. CASE u = s /\ j = l /\ a = s
    BY <1>7, <1>11, <1>12, <1>15, <2>1, <2>3, AbsorbHome
  <2>4. CASE u = s /\ j = l /\ a # s
    <3>1. PICK N : N = G \cap Home(a)
      OBVIOUS
    <3>2. ASSUME NEW g \in N
          PROVE  /\ g \in ghost[s][l] \/ g \in OnWay(net[a][s], l)
                 /\ "raced" \notin flaws' =>
                      g \in ghost[s][l] \/ (g \in OnWay(net[a][s], l) /\ g \notin OnWay(net'[a][s], l))
      <4>1. CASE g \in ghost[s][l]
        BY <4>1
      <4>2. CASE g \in upd
        <5>1. g \in Home(t) /\ g \in Home(a)
          BY <1>7, <1>13, <1>14, <3>1, <4>2
        <5>2. a = t
          BY <5>1 DEF Home
        <5>3. net[a][s] = q /\ net'[a][s] = z
          BY <1>2, <1>3, <1>8, <5>2
        <5> QED BY <1>1, <1>7, <4>2, <5>3
      <4> QED BY <1>2, <3>1, <4>1, <4>2
    <3>3. Track(a, s, l)'
      BY <1>7, <1>11, <1>12, <2>1, <2>4, <3>1, <3>2, AbsorbAway
    <3> QED BY <2>4, <3>3
  <2> QED BY <2>2, <2>3, <2>4
<1>18. Tracks'
  <2>1. Server' = Server /\ Layer' = Layer
    BY <1>1, SameConf DEF Layer
  <2> QED BY <1>17, <2>1 DEF Tracks
<1> QED BY <1>12, <1>16, <1>18 DEF AppInv

(* Every gradient is applied once.                                         *)

LEMMA AppInit == Init => AppInv
<1> SUFFICES ASSUME Init PROVE AppInv
  OBVIOUS
<1>1. conf \in Confs /\ conf.epochs \in Nat \ {0}
  BY ServersOK DEF Init
<1>2. MatricesOK
  BY DEF Init, MatricesOK, Matrix
<1>3. ClientsOK
  BY <1>1 DEF Init, ClientsOK, ClientOK
<1>4. ASSUME NEW s \in Server, NEW w \in Worker
      PROVE  /\ AsksOK(queue[s][w], busy[s][w])
             /\ \A l : Asks(queue[s][w], busy[s][w], l) = {} /\ Closed(busy[s][w], l) = {}
  <2>1. queue[s][w] = <<>> /\ busy[s][w].at = "idle" /\ Len(<<>>) = 0
    BY QueueEmpty DEF Init, Threads
  <2>2. PICK x, y : x = queue[s][w] /\ y = busy[s][w]
    OBVIOUS
  <2>3. Len(x) = 0 /\ y.at = "idle"
    BY <2>1, <2>2
  <2>4. 1..Len(x) = {} /\ \A l : Pushes(x, y, l) = {}
    BY <2>3 DEF Pushes
  <2>5. AsksOK(x, y) /\ \A l : Asks(x, y, l) = {} /\ Closed(y, l) = {}
    BY <2>3, <2>4 DEF AsksOK, Asks, Closed
  <2> QED BY <2>2, <2>5
<1>5. ASSUME NEW s \in Server, NEW u \in Server
      PROVE  /\ \A U : UpdatesOK(net[s][u], Layer, U)
             /\ Disjoint(net[s][u]) /\ \A l : OnWay(net[s][u], l) = {}
  <2>1. net[s][u] = <<>> /\ Len(<<>>) = 0
    BY QueueEmpty DEF Init
  <2>2. PICK q : q = net[s][u]
    OBVIOUS
  <2>3. Len(q) = 0
    BY <2>1, <2>2
  <2>4. 1..Len(q) = {} /\ \A l : Updates(q, l) = {}
    BY <2>3 DEF Updates
  <2>5. (\A U : UpdatesOK(q, Layer, U)) /\ Disjoint(q) /\ \A l : OnWay(q, l) = {}
    BY <2>4 DEF UpdatesOK, Disjoint, OnWay
  <2> QED BY <2>2, <2>5
<1>6. AllAsksOK /\ NetOK
  BY <1>4, <1>5 DEF AllAsksOK, NetOK
<1>7. ASSUME NEW s \in Server, NEW u \in Server, NEW l \in Layer
      PROVE  Track(s, u, l)
  <2>1. HeldAre(s, u, l)
    BY HeldAt
  <2>2. local[s][l] = {} /\ ghost[u][l] = {} /\ weights[u][l] = {} /\ OnWay(net[s][u], l) = {}
    BY <1>5 DEF Init
  <2>3. \A p \in Stage : Held(p, s, u, l) = {}
    <3> SUFFICES ASSUME NEW p \in Stage
                 PROVE  Held(p, s, u, l) = {}
      OBVIOUS
    <3>1. ASSUME NEW w \in Worker, p = <<"ask", w>> \/ p = <<"closed", w>>
          PROVE  Held(p, s, u, l) = {}
      BY <1>4, <2>1, <3>1 DEF HeldAre
    <3>2. CASE p = <<"local", 0>> \/ p = <<"net", 0>> \/ p = <<"ghost", 0>> \/ p = <<"weights", 0>>
      BY <2>1, <2>2, <3>2 DEF HeldAre
    <3> QED BY <3>1, <3>2, StagesAre
  <2> QED BY <2>3 DEF Track, HeldOK, OnePlace, SentWhole
<1> QED BY <1>2, <1>3, <1>6, <1>7 DEF AppInv, Tracks

LEMMA AppKeeps ==
  ASSUME AckInv, RepInv, AppInv, [Next]_vars
  PROVE  AppInv'
<1>1. Bases
  BY DEF AckInv, Base, Bases
<1>2. CASE MasterStarts
  BY <1>1, <1>2, MasterApp
<1>3. ASSUME NEW s \in Others(0), Starts(s) PROVE AppInv'
  BY <1>1, <1>3, StartsApp
<1>4. CASE SendInfo
  BY <1>1, <1>4, SendInfoApp
<1>5. CASE Shutdown
  BY <1>1, <1>5, ShutdownApp
<1>6. ASSUME NEW c \in Client, Train(c) PROVE AppInv'
  BY <1>1, <1>6, PrefetchApp, ForwardApp, LastLayerApp, BackwardApp, SendPushApp DEF Train
<1>7. ASSUME NEW s \in Server, Receive(s) PROVE AppInv'
  BY <1>1, <1>7, RecvDataApp, RecvAckApp DEF Receive
<1>8. ASSUME NEW s \in Server, NEW w \in Worker, Work(s, w) PROVE AppInv'
  <2>1. CASE Info(s, w)
    BY <1>1, <2>1, InfoApp
  <2>2. CASE SetTotals(s, w)
    BY <1>1, <2>2, SetTotalsApp
  <2>3. CASE Pull(s, w)
    BY <1>1, <2>3, PullApp
  <2>4. CASE Terminate(s, w)
    BY <1>1, <2>4, TerminateApp
  <2>5. CASE Push(s, w)
    BY <1>1, <2>5, PushApp
  <2>6. CASE ApplyUpdate(s, w)
    BY <1>1, <2>6, ApplyUpdateApp
  <2>7. CASE AcksWait(s, w)
    BY <1>1, <2>7, AcksWaitApp
  <2>8. CASE Eval(s, w)
    BY <1>1, <2>8, EvalApp
  <2>9. CASE Report(s, w)
    BY <1>1, <2>9, ReportApp
  <2> QED BY <1>8, <2>1, <2>2, <2>3, <2>4, <2>5, <2>6, <2>7, <2>8, <2>9 DEF Work
<1>9. ASSUME NEW t \in Worker \cup {Receiver}, EarlyStop(t) \/ Switch(t) PROVE AppInv'
  BY <1>1, <1>9, EarlyStopApp DEF Threads
<1>10. CASE UNCHANGED vars
  <2>1. UNCHANGED <<conf, main, snd, tot, local, ghost, weights, net, queue, busy>> /\ flaws \subseteq flaws'
    BY <1>10 DEF vars, clients, requests, tensors, peers
  <2>2. QueuesCalm
    BY <1>1, <2>1, BasesHave, QueuesSame
  <2>3. \A s \in Server, u \in Server : Quieter(net[s][u], Layer, net'[s][u])
    BY <2>1, NetUnread
  <2> QED BY <1>1, <2>1, <2>2, <2>3, ThreadStep
<1> QED BY <1>2, <1>3, <1>4, <1>5, <1>6, <1>7, <1>8, <1>9, <1>10 DEF Next

LEMMA AppOnce ==
  ASSUME AckInv, RepInv, AppInv
  PROVE  AppliedOnce
<1> SUFFICES ASSUME NEW s \in Server, NEW l \in Layer, "raced" \notin flaws
             PROVE  /\ (local[s][l] \cup ghost[s][l]) \cap weights[s][l] = {}
                    /\ local[s][l] \cap ghost[s][l] = {}
  BY DEF AppliedOnce
<1>1. Bases /\ conf \in Confs
  BY DEF AckInv, Base, Bases
<1>2. /\ local[s][l] \subseteq Home(s) /\ ghost[s][l] \subseteq Grad \ Home(s)
  <2>1. local[s][l] \subseteq Home(s) /\ ghost[s][l] \subseteq (Grad \ Home(s)) \cup Stain
    BY DEF AppInv, MatricesOK
  <2> QED BY <2>1 DEF Stain
<1>3. ASSUME NEW g \in local[s][l], g \in weights[s][l]
      PROVE  FALSE
  <2>1. HeldAre(s, s, l) /\ <<"local", 0>> \in Stage /\ <<"weights", 0>> \in Stage
    BY HeldAt, StagesIn
  <2>2. g \in Held(<<"local", 0>>, s, s, l) /\ g \in Held(<<"weights", 0>>, s, s, l)
    BY <1>2, <1>3, <2>1 DEF HeldAre
  <2>3. OnePlace(s, s, l)
    BY <1>1, TrackHas DEF Track
  <2>4. <<"local", 0>> = <<"weights", 0>>
    BY <2>1, <2>2, <2>3 DEF OnePlace
  <2> QED BY <2>4
<1>4. ASSUME NEW g \in ghost[s][l], g \in weights[s][l]
      PROVE  FALSE
  <2>1. PICK t : t = ServerOf(g[1])
    OBVIOUS
  <2>2. t \in Server /\ t # s /\ g \in Home(t)
    <3>1. g \in Grad /\ g \notin Home(s)
      BY <1>2
    <3>2. g[1] \in Client
      BY <3>1 DEF Grad
    <3> QED BY <1>1, <2>1, <3>1, <3>2, ClientServer DEF Home
  <2>3. HeldAre(t, s, l) /\ <<"ghost", 0>> \in Stage /\ <<"weights", 0>> \in Stage
    BY HeldAt, StagesIn
  <2>4. g \in Held(<<"ghost", 0>>, t, s, l) /\ g \in Held(<<"weights", 0>>, t, s, l)
    BY <1>4, <2>2, <2>3 DEF HeldAre
  <2>5. OnePlace(t, s, l)
    BY <1>1, <2>2, TrackHas DEF Track
  <2>6. <<"ghost", 0>> = <<"weights", 0>>
    BY <2>3, <2>4, <2>5 DEF OnePlace
  <2> QED BY <2>6
<1> QED BY <1>2, <1>3, <1>4

\* A gradient that is in a server's weights for a layer is not in its localUpdMat or
\* ghostUpdMat, to be applied a second time, and is never in both, however pushes, the
\* servers' updates and their application by workers and receiver interleave
\* (applyUpdate, receiver and tryApplyUpdate), unless a copy of an update was made while
\* it was being applied.
THEOREM GradientsAppliedOnce == Spec => []AppliedOnce
<1>1. AckInv /\ [Next]_vars => AckInv'
  BY EarlyKeeps, CountingKeeps
<1>2. AckInv /\ RepInv /\ AppInv => AppliedOnce
  BY AppOnce
<1>3. Init => AckInv /\ RepInv /\ AppInv
  BY AckInit, RepInit, AppInit
<1>4. AckInv /\ RepInv /\ AppInv /\ [Next]_vars => (AckInv /\ RepInv /\ AppInv)'
  BY <1>1, RepKeeps, AppKeeps
<1> QED BY <1>2, <1>3, <1>4, PTL DEF Spec

-----------------------------------------------------------------------------
(***************************************************************************)
(* Pulls, with BLOCK.  A server that has updated a layer k times has the   *)
(* gradients of k epochs, of all clients (LevelsOK).  What it holds for the*)
(* layer and has not applied is of epoch k: not of an earlier one, since it*)
(* is at one stage at a time, nor of a later one, since a client pushes    *)
(* when all have got the weights of that epoch (FloorsOK).  So an update of*)
(* a server is that of all its clients for one epoch (Block), and the next *)
(* one is whole.  An unblocked pull finds both layers updated as often as  *)
(* there were epochs: together at least twice that, each at most once.     *)
(***************************************************************************)
Rounds(k) == Client \X (0..k - 1)
Block(s, j) == ClientsOf(s) \X {j}
IsBlock(s, S) == \E j \in Nat : S = Block(s, j)

\* Of the phases n and m of two clients: they keep step.
InPace(n, m) == m >= n - (IF n % 4 = 0 THEN 2 ELSE 1)
PaceOK == \A c \in Client, d \in Client : InPace(main[c], main[d])

\* A pull of the client's next layer, before its forward pass.
PullOf(c, e, l) == [op |-> "PULL", client |-> c, epoch |-> e, layer |-> l]
PullOK(s, req) ==
  LET c == req.client IN
  /\ req = PullOf(c, req.epoch, req.layer)
  /\ c \in Client /\ ServerOf(c) = s
  /\ req.epoch \in Nat /\ main[c] = 4 * req.epoch
  /\ req.layer \in Layer /\ req.layer = Len(pulled[c])
PullsOK ==
  /\ \A s \in Server, w \in Worker : \A i : IsPull(queue[s][w], i) => PullOK(s, queue[s][w][i])
  /\ \A s \in Server, w \in Worker, v \in Worker : \A i, j :
       /\ IsPull(queue[s][w], i) /\ IsPull(queue[s][v], j)
       /\ queue[s][w][i].client = queue[s][v][j].client
       => w = v /\ i = j

\* The weights are the last message that the master sends before it is up.
FirstOK ==
  \A s \in Others(0) : boot[0] = "acks" /\ boot[s] # "up" =>
    net[0][s] # <<>> /\ net[0][s][Len(net[0][s])].kind = "DATA"

LevelAt(s, k) ==
  /\ k \in [Layer -> Nat] /\ epoch[s] = k[0] + k[1]
  /\ \A l \in Layer : weights[s][l] = Rounds(k[l])
LevelsOK == DOMAIN epoch = Server /\ \A s \in Server : \E k : LevelAt(s, k)

\* The updates of the servers of T are in G.
Gets(s, G, n) ==
  \E T \in SUBSET Others(s) :
    Cardinality(T) = n /\ \A t \in T : \E j \in Nat : Block(t, j) \subseteq G
GhostsOK == Matrix(ghostUpdCnt) /\ \A s \in Server, l \in Layer : Gets(s, ghost[s][l], ghostUpdCnt[s][l])

SendsOK(s, q) == \A i \in 1..Len(q) : q[i].kind = "DATA" => IsBlock(s, q[i].upd)
CopiesOK ==
  /\ boot[0] = "up" => \A s \in Server, u \in Server : SendsOK(s, net[s][u])
  /\ \A s \in Server, w \in Worker : busy[s][w].at = "apply" => IsBlock(s, busy[s][w].closed)

\* A client in phase n, with weights p, has seen those of epoch e.
Sees(n, p, e) == 4 * e < n \/ (4 * e = n /\ p # <<>>)
FloorsOK ==
  \A c \in Client, e \in Nat : Sees(main[c], pulled[c], e) =>
    \A l \in Layer : Rounds(e) \subseteq weights[ServerOf(c)][l]
PulledOK ==
  \A c \in Client : main[c] >= 0 =>
    \A i \in DOMAIN pulled[c] : pulled[c][i] = Rounds(EpochOf(c))

Exact == LevelsOK /\ GhostsOK /\ CopiesOK /\ FloorsOK /\ PulledOK
Clean == conf.block /\ "raced" \notin flaws
Lists == DOMAIN pulled = Client /\ \A c \in Client : IsQueue(pulled[c])

PullInv == Lists /\ PaceOK /\ PullsOK /\ FirstOK /\ (Clean => Exact)

-----------------------------------------------------------------------------
LEMMA RoundsSame ==
  ASSUME conf' = conf
  PROVE  /\ Server' = Server /\ Client' = Client /\ Layer' = Layer /\ Worker' = Worker
         /\ \A s : Others(s)' = Others(s)
         /\ \A c : ServerOf(c)' = ServerOf(c)
         /\ \A k : Rounds(k)' = Rounds(k)
         /\ \A s, j : Block(s, j)' = Block(s, j)
         /\ \A s, S : IsBlock(s, S)' <=> IsBlock(s, S)
         /\ \A s, G, n : Gets(s, G, n)' <=> Gets(s, G, n)
         /\ \A s, q : SendsOK(s, q)' <=> SendsOK(s, q)
<1>1. Server' = Server /\ Client' = Client /\ Layer' = Layer /\ Worker' = Worker
      /\ \A s : ClientsOf(s)' = ClientsOf(s)
  BY SameConf DEF Layer, Worker
<1>2. \A c : ServerOf(c)' = ServerOf(c)
  BY SameConf
<1>3. \A s : Others(s)' = Others(s)
  BY <1>1 DEF Others
<1>4. \A k : Rounds(k)' = Rounds(k)
  BY <1>1 DEF Rounds
<1>5. \A s, j : Block(s, j)' = Block(s, j)
  BY <1>1 DEF Block
<1>6. \A s, S : IsBlock(s, S)' <=> IsBlock(s, S)
  BY <1>5 DEF IsBlock
<1>7. \A s, G, n : Gets(s, G, n)' <=> Gets(s, G, n)
  BY <1>3, <1>5 DEF Gets
<1>8. \A s, q : SendsOK(s, q)' <=> SendsOK(s, q)
  BY <1>6 DEF SendsOK
<1> QED BY <1>1, <1>2, <1>3, <1>4, <1>5, <1>6, <1>7, <1>8

\* Every server has a client, and as many gradients in an update as it has clients.
LEMMA BlockIs ==
  ASSUME conf \in Confs, NEW s \in Server, NEW j
  PROVE  /\ s \in ClientsOf(s) /\ <<s, j>> \in Block(s, j)
         /\ IsFiniteSet(Block(s, j)) /\ Cardinality(Block(s, j)) = TotOf(s) /\ TotOf(s) \in Nat
<1>1. IsFiniteSet(ClientsOf(s)) /\ Cardinality(ClientsOf(s)) = TotOf(s) /\ TotOf(s) \in Nat
  BY Split
<1>2. IsFiniteSet({j}) /\ Cardinality({j}) = 1
  BY FS_Singleton
<1>3. IsFiniteSet(Block(s, j)) /\ Cardinality(Block(s, j)) = TotOf(s)
  <2>1. IsFiniteSet(Block(s, j)) /\ Cardinality(Block(s, j)) = Cardinality(ClientsOf(s)) * Cardinality({j})
    BY <1>1, <1>2, FS_Product DEF Block
  <2>2. PICK n : n = TotOf(s)
    OBVIOUS
  <2>3. n \in Nat /\ Cardinality(Block(s, j)) = n * 1
    BY <1>1, <1>2, <2>1, <2>2
  <2>4. Cardinality(Block(s, j)) = n
    BY <2>3
  <2> QED BY <2>1, <2>2, <2>4
<1>4. s \in ClientsOf(s)
  <2>1. PICK a, b : a = conf.servers /\ b = conf.clients
    OBVIOUS
  <2>2. a \in Nat \ {0} /\ b \in Nat /\ a <= b /\ s \in 0..a - 1
    BY <2>1, ServersOK DEF Server
  <2>3. s \in 0..b - 1 /\ s % a = s
    BY <2>2
  <2> QED BY <2>1, <2>3 DEF ClientsOf, Client, ServerOf
<1> QED BY <1>1, <1>3, <1>4 DEF Block

LEMMA BlockWhole ==
  ASSUME conf \in Confs, NEW s \in Server, NEW j, NEW S, S \subseteq Block(s, j)
  PROVE  /\ Cardinality(S) \in Nat /\ Cardinality(S) <= TotOf(s)
         /\ Cardinality(S) >= TotOf(s) => S = Block(s, j)
<1>1. IsFiniteSet(Block(s, j)) /\ Cardinality(Block(s, j)) = TotOf(s) /\ TotOf(s) \in Nat
  BY BlockIs
<1>2. PICK B : B = Block(s, j)
  OBVIOUS
<1>3. S \in SUBSET B /\ IsFiniteSet(B)
  BY <1>1, <1>2
<1>4. IsFiniteSet(S) /\ Cardinality(S) <= Cardinality(B) /\ (Cardinality(B) = Cardinality(S) => B = S)
  BY <1>3, FS_Subset
<1>5. Cardinality(S) \in Nat
  BY <1>4, FS_CardinalityType
<1> QED BY <1>1, <1>2, <1>4, <1>5

\* Rounds tell how many they are.
LEMMA RoundsIn ==
  ASSUME conf \in Confs, NEW k \in Nat, NEW e \in Int
  PROVE  /\ \A c \in Client : <<c, e>> \in Rounds(k) <=> 0 <= e /\ e < k
         /\ e \in Nat /\ Rounds(e) \subseteq Rounds(k) => e <= k
         /\ e \in Nat /\ e <= k => Rounds(e) \subseteq Rounds(k)
<1>1. \A c \in Client : <<c, e>> \in Rounds(k) <=> 0 <= e /\ e < k
  BY DEF Rounds
<1>2. ASSUME e \in Nat, Rounds(e) \subseteq Rounds(k)
      PROVE  e <= k
  <2> SUFFICES ASSUME e > k PROVE FALSE
    BY <1>2
  <2>1. <<0, e - 1>> \in Rounds(e)
    <3>1. 0 \in Client /\ e - 1 \in 0..e - 1
      BY <1>2, ServerFacts
    <3> QED BY <3>1 DEF Rounds
  <2>2. e - 1 \in 0..k - 1
    BY <1>2, <2>1 DEF Rounds
  <2> QED BY <1>2, <2>2
<1>3. ASSUME e \in Nat, e <= k
      PROVE  Rounds(e) \subseteq Rounds(k)
  <2>1. 0..e - 1 \subseteq 0..k - 1
    BY <1>3
  <2> QED BY <2>1 DEF Rounds
<1> QED BY <1>1, <1>2, <1>3

\* The updates of all servers make the next round.
LEMMA RoundsNext ==
  ASSUME conf \in Confs, NEW s \in Server, NEW k \in Nat, NEW G, G \subseteq Client \X {k},
         \A t \in Others(s) : Block(t, k) \subseteq G
  PROVE  Rounds(k) \cup Block(s, k) \cup G = Rounds(k + 1)
<1>1. 0..(k + 1) - 1 = (0..k - 1) \cup {k}
  OBVIOUS
<1>2. Rounds(k + 1) = Rounds(k) \cup (Client \X {k})
  BY <1>1 DEF Rounds
<1>3. Block(s, k) \subseteq Client \X {k}
  BY DEF Block, ClientsOf
<1>4. ASSUME NEW c \in Client
      PROVE  <<c, k>> \in Block(s, k) \cup G
  <2>1. PICK t : t = ServerOf(c)
    OBVIOUS
  <2>2. t \in Server /\ <<c, k>> \in Block(t, k)
    BY <2>1, ClientServer DEF Block, ClientsOf
  <2>3. t = s \/ t \in Others(s)
    BY <2>2 DEF Others
  <2> QED BY <2>2, <2>3
<1>5. Client \X {k} \subseteq Block(s, k) \cup G
  BY <1>4
<1> QED BY <1>2, <1>3, <1>5

\* When a gradient has been pushed all servers have the rounds before it.
LEMMA PushedAfter ==
  ASSUME conf \in Confs, ClientsOK, PaceOK, FloorsOK, NEW g \in Grad, NEW l \in Layer, Pushed(g, l),
         NEW u \in Server, NEW j \in Layer
  PROVE  Rounds(g[2]) \subseteq weights[u][j]
<1>1. PICK e, n, m : e = g[2] /\ n = main[g[1]] /\ m = main[u]
  OBVIOUS
<1>2. u \in Client /\ ServerOf(u) = u
  BY BlockIs DEF ClientsOf
<1>3. g[1] \in Client /\ e \in Nat
  BY <1>1, ServersOK DEF Grad
<1>4. n \in Int /\ m \in Int /\ InPace(n, m)
  BY <1>1, <1>2, <1>3 DEF ClientsOK, ClientOK, PaceOK
<1>5. l \in 0..1 /\ (4 * e + 3 - l < n \/ 4 * e + 3 - l = n)
  BY <1>1 DEF Layer, Pushed, Due
<1>6. m >= n - (IF n % 4 = 0 THEN 2 ELSE 1)
  BY <1>4 DEF InPace
<1>7. 4 * e < m
  BY <1>3, <1>4, <1>5, <1>6
<1> QED BY <1>1, <1>2, <1>3, <1>7 DEF FloorsOK, Sees

\* What is known where a gradient has come to a stage.
Rounded == Bases /\ PaceOK /\ FloorsOK /\ "raced" \notin flaws

\* What is held and not applied is of the next round.
LEMMA HeldRound ==
  ASSUME Rounded, NEW s \in Server, NEW u \in Server, NEW l \in Layer,
         NEW k \in Nat, weights[u][l] = Rounds(k),
         NEW p \in Stage, p # <<"weights", 0>>, NEW g \in Held(p, s, u, l)
  PROVE  g \in Block(s, k)
<1>1. Bases /\ conf \in Confs /\ ClientsOK /\ Track(s, u, l) /\ PaceOK /\ FloorsOK /\ "raced" \notin flaws
  BY BasesHave, TrackHas DEF Rounded, AppInv
<1>2. PICK c, e : c = g[1] /\ e = g[2]
  OBVIOUS
<1>3. g \in Home(s) /\ Pushed(g, l) /\ g \in Grad
  BY <1>1 DEF Track, HeldOK, Home
<1>4. g = <<c, e>> /\ c \in ClientsOf(s) /\ c \in Client /\ e \in Nat
  <2>1. g = <<c, e>> /\ c \in Client /\ e \in 0..conf.epochs - 1
    BY <1>2, <1>3 DEF Grad
  <2>2. e \in Nat
    BY <1>1, <2>1, ServersOK
  <2> QED BY <1>2, <1>3, <2>1, <2>2 DEF Home, ClientsOf
<1>5. e <= k
  <2>1. Rounds(e) \subseteq Rounds(k)
    BY <1>1, <1>2, <1>3, PushedAfter
  <2> QED BY <1>1, <1>4, <2>1, RoundsIn
<1>6. ~(e < k)
  <2> SUFFICES ASSUME e < k PROVE FALSE
    OBVIOUS
  <2>1. g \in weights[u][l]
    BY <1>1, <1>4, RoundsIn
  <2>2. HeldAre(s, u, l) /\ <<"weights", 0>> \in Stage
    BY HeldAt, StagesIn
  <2>3. g \in Held(<<"weights", 0>>, s, u, l)
    BY <1>3, <2>1, <2>2 DEF HeldAre
  <2>4. OnePlace(s, u, l)
    BY <1>1 DEF Track
  <2> QED BY <2>2, <2>3, <2>4 DEF OnePlace
<1>7. e = k
  BY <1>4, <1>5, <1>6
<1> QED BY <1>4, <1>7 DEF Block

LEMMA MatrixRounds ==
  ASSUME Rounded, NEW s \in Server, NEW l \in Layer, NEW k \in Nat, weights[s][l] = Rounds(k)
  PROVE  local[s][l] \subseteq Block(s, k) /\ ghost[s][l] \subseteq Client \X {k}
<1>1. Bases /\ conf \in Confs /\ "raced" \notin flaws
  BY BasesHave DEF Rounded
<1>2. ASSUME NEW g \in local[s][l]
      PROVE  g \in Block(s, k)
  <2>1. HeldAre(s, s, l) /\ <<"local", 0>> \in Stage /\ <<"local", 0>> # <<"weights", 0>>
    BY HeldAt, StagesIn
  <2>2. g \in Held(<<"local", 0>>, s, s, l)
    BY <2>1 DEF HeldAre
  <2> QED BY <2>1, <2>2, HeldRound
<1>3. ASSUME NEW g \in ghost[s][l]
      PROVE  g \in Client \X {k}
  <2>1. g \in Grad /\ g \notin Home(s)
    BY <1>1, GhostAway DEF Stain
  <2>2. PICK t : t = ServerOf(g[1])
    OBVIOUS
  <2>3. t \in Server /\ t # s /\ g \in Home(t)
    <3>1. g[1] \in Client
      BY <2>1 DEF Grad
    <3> QED BY <1>1, <2>1, <2>2, <3>1, ClientServer DEF Home
  <2>4. HeldAre(t, s, l) /\ <<"ghost", 0>> \in Stage /\ <<"ghost", 0>> # <<"weights", 0>>
    BY HeldAt, StagesIn
  <2>5. g \in Held(<<"ghost", 0>>, t, s, l)
    BY <2>3, <2>4 DEF HeldAre
  <2>6. g \in Block(t, k)
    BY <2>3, <2>4, <2>5, HeldRound
  <2> QED BY <2>6 DEF Block, ClientsOf
<1> QED BY <1>2, <1>3

\* An update that came is of the round that is held.
LEMMA BlockHeld ==
  ASSUME conf \in Confs, NEW t \in Server, NEW j, NEW k, NEW G, G \subseteq Client \X {k},
         Block(t, j) \subseteq G
  PROVE  j = k
<1>1. <<t, j>> \in Client \X {k}
  BY BlockIs
<1> QED BY <1>1

\* Matrices with another element.
LEMMA GetsNone ==
  ASSUME NEW s \in Server
  PROVE  Gets(s, {}, 0)
<1>1. {} \in SUBSET Others(s) /\ Cardinality({}) = 0 /\ \A t \in {} : \E j \in Nat : Block(t, j) \subseteq {}
  BY FS_EmptySet
<1> QED BY <1>1 DEF Gets

LEMMA GhostsSet ==
  ASSUME GhostsOK, MatricesOK, conf' = conf, NEW s \in Server, NEW l \in Layer, NEW G, NEW n,
         KeepGhost(s, l, G, n), Gets(s, G, n)
  PROVE  GhostsOK'
<1>1. PICK a, b : a = ghost' /\ b = ghostUpdCnt'
  OBVIOUS
<1>2. Matrix(ghost) /\ Matrix(ghostUpdCnt)
  BY DEF GhostsOK, MatricesOK
<1>3. a = [ghost EXCEPT ![s][l] = G] /\ b = [ghostUpdCnt EXCEPT ![s][l] = n]
  BY <1>1 DEF KeepGhost
<1>4. With(ghost, s, l, G, a)
  BY <1>2, <1>3, MatrixSet
<1>5. With(ghostUpdCnt, s, l, n, b)
  BY <1>2, <1>3, MatrixSet
<1>6. ASSUME NEW u \in Server, NEW j \in Layer
      PROVE  Gets(u, ghost'[u][j], ghostUpdCnt'[u][j])
  <2>1. CASE u = s /\ j = l
    BY <1>1, <1>4, <1>5, <2>1 DEF With
  <2>2. CASE u # s \/ j # l
    <3>1. ghost'[u][j] = ghost[u][j] /\ ghostUpdCnt'[u][j] = ghostUpdCnt[u][j]
      BY <1>1, <1>4, <1>5, <2>2 DEF With
    <3> QED BY <3>1 DEF GhostsOK
  <2> QED BY <2>1, <2>2
<1>7. Matrix(ghostUpdCnt)'
  BY <1>1, <1>5, RoundsSame DEF With, Matrix
<1>8. \A u \in Server', j \in Layer' : Gets(u, ghost[u][j], ghostUpdCnt[u][j])'
  BY <1>6, RoundsSame DEF Gets
<1> QED BY <1>7, <1>8 DEF GhostsOK

\* The rounds of s for l are one more.
LEMMA LevelsMore ==
  ASSUME LevelsOK, conf' = conf, NEW s \in Server, NEW l \in Layer, NEW k \in Nat,
         Matrix(weights), weights[s][l] = Rounds(k), With(weights, s, l, Rounds(k + 1), weights'),
         conf \in Confs, epoch' = [epoch EXCEPT ![s] = @ + 1]
  PROVE  LevelsOK'
<1>1. DOMAIN epoch = Server /\ Layer = {0, 1} /\ Layer' = Layer
  BY DEF LevelsOK, Layer
<1>2. ASSUME NEW u \in Server
      PROVE  \E m : LevelAt(u, m)'
  <2>1. PICK m : LevelAt(u, m)
    BY DEF LevelsOK
  <2>2. m \in [Layer -> Nat] /\ epoch[u] = m[0] + m[1] /\ \A j \in Layer : weights[u][j] = Rounds(m[j])
    BY <2>1 DEF LevelAt
  <2>3. CASE u # s
    <3>1. epoch'[u] = epoch[u] /\ \A j \in Layer : weights'[u][j] = weights[u][j]
      BY <1>1, <2>3 DEF With
    <3> QED BY <1>1, <2>2, <3>1, RoundsSame DEF LevelAt
  <2>4. CASE u = s
    <3>1. m[l] = k
      <4>1. m[l] \in Nat /\ Rounds(m[l]) = Rounds(k)
        BY <2>2, <2>4
      <4>2. m[l] <= k /\ k <= m[l]
        BY <4>1, RoundsIn
      <4> QED BY <4>1, <4>2
    <3>2. PICK r : r = [m EXCEPT ![l] = k + 1]
      OBVIOUS
    <3>3. r \in [Layer -> Nat] /\ r[l] = k + 1 /\ \A j \in Layer : j # l => r[j] = m[j]
      BY <2>2, <3>2
    <3>4. epoch'[u] = r[0] + r[1]
      <4>1. epoch'[u] = m[0] + m[1] + 1 /\ m[0] \in Nat /\ m[1] \in Nat
        BY <1>1, <2>2, <2>4
      <4>2. l = 0 => r[0] = m[0] + 1 /\ r[1] = m[1]
        BY <1>1, <3>1, <3>3
      <4>3. l = 1 => r[1] = m[1] + 1 /\ r[0] = m[0]
        BY <1>1, <3>1, <3>3
      <4> QED BY <1>1, <4>1, <4>2, <4>3
    <3>5. \A j \in Layer : weights'[u][j] = Rounds(r[j])
      BY <2>2, <2>4, <3>3 DEF With
    <3> QED BY <1>1, <3>3, <3>4, <3>5, RoundsSame DEF LevelAt
  <2> QED BY <2>3, <2>4
<1>3. DOMAIN epoch' = Server
  BY <1>1
<1> QED BY <1>2, <1>3, RoundsSame DEF LevelsOK

\* What has been applied stays.
Grown == \A u \in Server, j \in Layer : weights[u][j] \subseteq weights'[u][j]

LEMMA LevelsSame ==
  ASSUME LevelsOK, UNCHANGED <<conf, weights, epoch>>
  PROVE  LevelsOK' /\ Grown
<1>1. ASSUME NEW s \in Server
      PROVE  \E k : LevelAt(s, k)'
  <2>1. PICK k : LevelAt(s, k)
    BY DEF LevelsOK
  <2>2. LevelAt(s, k)'
    BY <2>1, RoundsSame DEF LevelAt
  <2> QED BY <2>2
<1> QED BY <1>1, RoundsSame DEF LevelsOK, Grown

\* tryApplyUpdate: it waits for the own update and those of all peers.
LEMMA TryKeeps ==
  ASSUME Rounded, LevelsOK, GhostsOK, conf' = conf, NEW s \in Server, NEW l \in Layer,
         NEW k \in Nat, weights[s][l] = Rounds(k),
         NEW G, G \subseteq Client \X {k}, NEW n, Gets(s, G, n),
         \/ TryApplyUpdate(s, l, G, n)
         \/ KeepGhost(s, l, G, n) /\ UNCHANGED <<tot, local, weights, epoch>>
  PROVE  LevelsOK' /\ GhostsOK' /\ Grown
<1>1. Bases /\ conf \in Confs /\ RepInv /\ MatricesOK /\ Matrix(weights)
  BY BasesHave DEF Rounded, AppInv, MatricesOK
<1>2. CASE KeepGhost(s, l, G, n) /\ UNCHANGED <<weights, epoch>>
  BY <1>1, <1>2, GhostsSet, LevelsSame
<1>3. CASE Cardinality(local[s][l]) >= tot[s] /\ n >= Cardinality(Others(s)) /\ TryApplyUpdate(s, l, G, n)
  <2>1. /\ weights' = [weights EXCEPT ![s][l] = @ \cup local[s][l] \cup G]
        /\ KeepGhost(s, l, {}, 0) /\ epoch' = [epoch EXCEPT ![s] = @ + 1]
    BY <1>3 DEF TryApplyUpdate
  <2>2. local[s][l] = Block(s, k)
    <3>1. local[s][l] \subseteq Block(s, k)
      BY MatrixRounds
    <3>2. PICK a, b, c : a = Cardinality(local[s][l]) /\ b = tot[s] /\ c = TotOf(s)
      OBVIOUS
    <3>3. a \in Nat /\ (a >= c => local[s][l] = Block(s, k))
      BY <1>1, <3>1, <3>2, BlockWhole
    <3>4. b \in Int /\ c \in Nat /\ c <= b
      BY <1>1, <3>2, TotTypes
    <3>5. a >= b
      BY <1>3, <3>2
    <3> QED BY <3>3, <3>4, <3>5
  <2>3. \A t \in Others(s) : Block(t, k) \subseteq G
    <3>1. PICK T \in SUBSET Others(s) :
            Cardinality(T) = n /\ \A t \in T : \E j \in Nat : Block(t, j) \subseteq G
      BY DEF Gets
    <3>2. IsFiniteSet(Server) /\ Others(s) \subseteq Server
      BY <1>1, ServerFacts DEF Others
    <3>3. IsFiniteSet(Others(s))
      BY <3>2, FS_Subset
    <3>4. PICK O : O = Others(s)
      OBVIOUS
    <3>5. /\ T \in SUBSET O /\ IsFiniteSet(O) /\ IsFiniteSet(T)
          /\ Cardinality(T) <= Cardinality(O) /\ (Cardinality(O) = Cardinality(T) => O = T)
      BY <3>3, <3>4, FS_Subset
    <3>6. Cardinality(O) \in Nat /\ Cardinality(T) \in Nat
      BY <3>5, FS_CardinalityType
    <3>7. Cardinality(T) >= Cardinality(O)
      BY <1>3, <3>1, <3>4
    <3>8. O = T
      BY <3>5, <3>6, <3>7
    <3>9. ASSUME NEW t \in Others(s)
          PROVE  Block(t, k) \subseteq G
      <4>1. PICK j \in Nat : Block(t, j) \subseteq G
        BY <3>1, <3>4, <3>8
      <4>2. j = k
        BY <1>1, <3>2, <4>1, BlockHeld
      <4> QED BY <4>1, <4>2
    <3> QED BY <3>9
  <2>4. Rounds(k) \cup local[s][l] \cup G = Rounds(k + 1)
    <3>1. conf \in Confs
      BY <1>1
    <3>2. Rounds(k) \cup Block(s, k) \cup G = Rounds(k + 1)
      BY <2>3, <3>1, RoundsNext
    <3> QED BY <2>2, <3>2
  <2>5. PICK W, r : W = weights' /\ r = Rounds(k + 1)
    OBVIOUS
  <2>6. W = [weights EXCEPT ![s][l] = r]
    BY <2>1, <2>4, <2>5
  <2>7. With(weights, s, l, Rounds(k + 1), W)
    BY <1>1, <2>5, <2>6, MatrixSet
  <2>8. LevelsOK'
    BY <1>1, <2>1, <2>5, <2>7, LevelsMore
  <2>9. GhostsOK'
    BY <1>1, <2>1, GetsNone, GhostsSet
  <2>10. Grown
    <3>1. ASSUME NEW u \in Server, NEW j \in Layer
          PROVE  weights[u][j] \subseteq weights'[u][j]
      <4>1. CASE u = s /\ j = l
        BY <2>4, <2>5, <2>7, <4>1 DEF With
      <4>2. CASE u # s \/ j # l
        BY <2>5, <2>7, <4>2 DEF With
      <4> QED BY <4>1, <4>2
    <3> QED BY <3>1 DEF Grown
  <2> QED BY <2>8, <2>9, <2>10
<1>4. CASE ~(Cardinality(local[s][l]) >= tot[s] /\ n >= Cardinality(Others(s))) /\ TryApplyUpdate(s, l, G, n)
  <2>1. KeepGhost(s, l, G, n) /\ UNCHANGED <<weights, epoch>>
    BY <1>4 DEF TryApplyUpdate
  <2> QED BY <1>2, <2>1
<1> QED BY <1>2, <1>3, <1>4

(* Steps that leave parts of the state alone.                              *)

LEMMA GhostsSame ==
  ASSUME GhostsOK, UNCHANGED <<conf, ghost, ghostUpdCnt>>
  PROVE  GhostsOK'
<1>1. ASSUME NEW s \in Server, NEW l \in Layer
      PROVE  Gets(s, ghost[s][l], ghostUpdCnt[s][l])'
  BY RoundsSame DEF GhostsOK, Gets
<1>2. Matrix(ghostUpdCnt)'
  BY RoundsSame DEF GhostsOK, Matrix
<1> QED BY <1>1, <1>2, RoundsSame DEF GhostsOK

\* The floors of the clients, those that see more included.
LEMMA FloorsStay ==
  ASSUME conf \in Confs, FloorsOK, Grown, conf' = conf,
         \A c \in Client, e \in Nat : Sees(main'[c], pulled'[c], e) =>
           Sees(main[c], pulled[c], e) \/ \A l \in Layer : Rounds(e) \subseteq weights[ServerOf(c)][l]
  PROVE  FloorsOK'
<1>1. ASSUME NEW c \in Client, NEW e \in Nat, Sees(main'[c], pulled'[c], e), NEW l \in Layer
      PROVE  Rounds(e) \subseteq weights'[ServerOf(c)][l]
  <2>1. Rounds(e) \subseteq weights[ServerOf(c)][l]
    BY <1>1 DEF FloorsOK
  <2> QED BY <2>1, ClientServer DEF Grown
<1>2. ASSUME NEW c \in Client, NEW e \in Nat, Sees(main[c], pulled[c], e)', NEW l \in Layer
      PROVE  (Rounds(e) \subseteq weights[ServerOf(c)][l])'
  <2>1. Sees(main'[c], pulled'[c], e)
    BY <1>2 DEF Sees
  <2> QED BY <1>1, <1>2, <2>1, RoundsSame
<1> QED BY <1>2, RoundsSame DEF FloorsOK

\* Requests go from queue to q; those of client c are all gone, and a new one of c's
\* may be appended to the worker k of s.
PullStays(q, c) ==
  \A u \in Server, v \in Worker :
    /\ IsQueue(q[u][v]) /\ Shifts(queue[u][v], q[u][v])
    /\ \A i : IsPull(q[u][v], i) => q[u][v][i].client # c
PullComes(q, c, s, k, m) ==
  /\ \A u \in Server, v \in Worker :
       queue'[u][v] = q[u][v] \/ (u = s /\ v = k /\ queue'[u][v] = Append(q[u][v], m))
  /\ m.op = "PULL" =>
       /\ m = PullOf(c, m.epoch, m.layer) /\ m.client = c /\ c \in Client /\ ServerOf(c) = s /\ m.epoch \in Nat /\ m.layer \in Layer
       /\ main'[c] = 4 * m.epoch /\ m.layer = Len(pulled'[c])

LEMMA PullsStep ==
  ASSUME PullsOK, conf' = conf, NEW q, NEW c, PullStays(q, c), NEW s, NEW k, NEW m,
         PullComes(q, c, s, k, m),
         \A d \in Client : d # c => main'[d] = main[d] /\ pulled'[d] = pulled[d]
  PROVE  PullsOK'
<1> DEFINE
      Old(u, v, i, d) ==
        /\ i \in Nat /\ IsPull(queue[u][v], i + d) /\ queue'[u][v][i] = queue[u][v][i + d]
        /\ queue'[u][v][i].client # c
      New(u, v, i) ==
        u = s /\ v = k /\ i = Len(q[u][v]) + 1 /\ queue'[u][v][i] = m /\ m.op = "PULL"
<1>1. ASSUME NEW u \in Server, NEW v \in Worker
      PROVE  \E d \in Nat : \A i : IsPull(queue'[u][v], i) => Old(u, v, i, d) \/ New(u, v, i)
  <2>1. PICK x, y, z : x = queue[u][v] /\ y = q[u][v] /\ z = queue'[u][v]
    OBVIOUS
  <2>2. IsQueue(y) /\ Shifts(x, y) /\ \A i : IsPull(y, i) => y[i].client # c
    BY <2>1 DEF PullStays
  <2>3. PICK d \in Nat : \A i : IsPull(y, i) => i \in Nat /\ IsPull(x, i + d) /\ x[i + d] = y[i]
    BY <2>2 DEF Shifts
  <2>4. z = y \/ (u = s /\ v = k /\ z = Append(y, m))
    BY <2>1 DEF PullComes
  <2>5. ASSUME NEW i, IsPull(z, i)
        PROVE  Old(u, v, i, d) \/ New(u, v, i)
    <3>1. CASE IsPull(y, i) /\ z[i] = y[i]
      BY <2>1, <2>2, <2>3, <3>1
    <3>2. CASE u = s /\ v = k /\ i = Len(y) + 1 /\ z[i] = m /\ m.op = "PULL"
      BY <2>1, <3>2
    <3>3. CASE z = y
      BY <2>5, <3>1, <3>3
    <3>4. CASE u = s /\ v = k /\ z = Append(y, m)
      <4>1. IsPull(Append(y, m), i)
        BY <2>5, <3>4
      <4>2. \/ IsPull(y, i) /\ Append(y, m)[i] = y[i]
            \/ i = Len(y) + 1 /\ Append(y, m)[i] = m /\ m.op = "PULL"
        BY <2>2, <4>1, PullLast
      <4> QED BY <3>1, <3>2, <3>4, <4>2
    <3> QED BY <2>4, <3>3, <3>4
  <2> QED BY <2>1, <2>5
<1>2. ASSUME NEW u \in Server, NEW v \in Worker, NEW i, IsPull(queue'[u][v], i)
      PROVE  PullOK(u, queue[u][v][i])'
  <2>1. PICK d \in Nat : Old(u, v, i, d) \/ New(u, v, i)
    BY <1>1, <1>2
  <2>2. PICK r : r = queue'[u][v][i]
    OBVIOUS
  <2>3. CASE Old(u, v, i, d)
    <3>1. r = queue[u][v][i + d] /\ IsPull(queue[u][v], i + d) /\ r.client # c
      BY <2>2, <2>3
    <3>2. PullOK(u, r)
      BY <3>1 DEF PullsOK
    <3>3. main'[r.client] = main[r.client] /\ pulled'[r.client] = pulled[r.client]
      BY <3>1, <3>2 DEF PullOK
    <3> QED BY <2>2, <3>2, <3>3, RoundsSame DEF PullOK
  <2>4. CASE New(u, v, i)
    <3>1. r = m /\ m.op = "PULL" /\ u = s
      BY <2>2, <2>4
    <3> QED BY <2>2, <3>1, RoundsSame DEF PullComes, PullOK
  <2> QED BY <2>1, <2>3, <2>4
<1>3. ASSUME NEW u \in Server, NEW v \in Worker, NEW w \in Worker, NEW i, NEW j,
             IsPull(queue'[u][v], i), IsPull(queue'[u][w], j),
             queue'[u][v][i].client = queue'[u][w][j].client
      PROVE  v = w /\ i = j
  <2>1. PICK d \in Nat : \A n : IsPull(queue'[u][v], n) => Old(u, v, n, d) \/ New(u, v, n)
    BY <1>1
  <2>2. PICK e \in Nat : \A n : IsPull(queue'[u][w], n) => Old(u, w, n, e) \/ New(u, w, n)
    BY <1>1
  <2>3. New(u, v, i) => ~Old(u, w, j, e)
    BY <1>3 DEF PullComes
  <2>4. New(u, w, j) => ~Old(u, v, i, d)
    BY <1>3 DEF PullComes
  <2>5. CASE New(u, v, i) /\ New(u, w, j)
    BY <2>5
  <2>6. CASE Old(u, v, i, d) /\ Old(u, w, j, e)
    <3>1. queue[u][v][i + d].client = queue[u][w][j + e].client
      BY <1>3, <2>6
    <3>2. v = w
      BY <2>6, <3>1 DEF PullsOK
    <3>3. Old(u, v, j, d) \/ New(u, v, j)
      BY <1>3, <2>1, <3>2
    <3>4. Old(u, v, j, d)
      BY <1>3, <2>6, <3>2, <3>3 DEF PullComes
    <3>5. queue[u][v][i + d].client = queue[u][v][j + d].client
      BY <1>3, <2>6, <3>2, <3>4
    <3>6. i \in Nat /\ j \in Nat /\ IsPull(queue[u][v], i + d) /\ IsPull(queue[u][v], j + d)
      BY <2>6, <3>4
    <3>60. PICK a, b : a = i + d /\ b = j + d
      OBVIOUS
    <3>601. IsPull(queue[u][v], a) /\ IsPull(queue[u][v], b) /\ queue[u][v][a].client = queue[u][v][b].client
      BY <3>5, <3>6, <3>60
    <3>602. a = b
      BY <3>601 DEF PullsOK
    <3>61. i + d = j + d
      BY <3>60, <3>602
    <3>62. d \in Nat
      BY <2>1
    <3>7. i = j
      BY <3>6, <3>61, <3>62
    <3> QED BY <3>2, <3>7
  <2> QED BY <1>3, <2>1, <2>2, <2>3, <2>4, <2>5, <2>6
<1> HIDE DEF Old, New
<1>4. \A u \in Server', v \in Worker' : \A i : IsPull(queue[u][v], i)' => PullOK(u, queue[u][v][i])'
  BY <1>2, RoundsSame DEF IsPull
<1>5. ASSUME NEW u \in Server', NEW v \in Worker', NEW w \in Worker', NEW i, NEW j,
             IsPull(queue[u][v], i)', IsPull(queue[u][w], j)',
             queue'[u][v][i].client = queue'[u][w][j].client
      PROVE  v = w /\ i = j
  <2>1. u \in Server /\ v \in Worker /\ w \in Worker
    BY <1>5, RoundsSame
  <2>2. IsPull(queue'[u][v], i) /\ IsPull(queue'[u][w], j)
    BY <1>5 DEF IsPull
  <2> QED BY <1>3, <1>5, <2>1, <2>2
<1>6. (\A u \in Server, v \in Worker, w \in Worker : \A i, j :
        /\ IsPull(queue[u][v], i) /\ IsPull(queue[u][w], j)
        /\ queue[u][v][i].client = queue[u][w][j].client
        => v = w /\ i = j)'
  BY <1>5
<1> QED BY <1>4, <1>6 DEF PullsOK

LEMMA PullsCalm ==
  ASSUME RepInv, PullsOK, UNCHANGED conf,
         \A u \in Server, v \in Worker : Duller(queue[u][v], queue'[u][v]),
         NEW c, \A d \in Client : d # c => main'[d] = main[d] /\ pulled'[d] = pulled[d],
         \A u \in Server, v \in Worker : \A i : IsPull(queue[u][v], i) => queue[u][v][i].client # c
  PROVE  PullsOK'
<1>1. PICK q : q = queue'
  OBVIOUS
<1>2. ASSUME NEW u \in Server, NEW v \in Worker
      PROVE  IsQueue(q[u][v]) /\ Shifts(queue[u][v], q[u][v])
  <2>1. IsQueue(queue[u][v])
    BY DEF RepInv, QueuesOK, QueueOK
  <2> QED BY <1>1, <2>1, DullerShifts
<1>3. PullStays(q, c)
  <2>1. ASSUME NEW u \in Server, NEW v \in Worker, NEW i, IsPull(q[u][v], i)
        PROVE  q[u][v][i].client # c
    BY <1>2, <2>1 DEF Shifts
  <2> QED BY <1>2, <2>1 DEF PullStays
<1>4. PICK m : m.op # "PULL"
  <2>1. [op |-> "TERM"].op # "PULL"
    OBVIOUS
  <2> QED BY <2>1
<1>7. PICK z : z = 0
  OBVIOUS
<1>5. PullComes(q, c, z, z, m)
  BY <1>1, <1>4 DEF PullComes
<1>6. conf' = conf
  OBVIOUS
<1> QED BY <1>3, <1>5, <1>6, PullsStep

\* A client that is in a phase after the first has no pull under way.
LEMMA NoPull ==
  ASSUME ClientsOK, PullsOK, NEW c, c \in Client => main[c] % 4 # 0 \/ Len(pulled[c]) \notin Layer
  PROVE  \A u \in Server, v \in Worker : \A i : IsPull(queue[u][v], i) => queue[u][v][i].client # c
<1>1. ASSUME NEW u \in Server, NEW v \in Worker, NEW i, IsPull(queue[u][v], i), queue[u][v][i].client = c
      PROVE  FALSE
  <2>1. PullOK(u, queue[u][v][i])
    BY <1>1 DEF PullsOK
  <2>2. PICK e : e = queue[u][v][i].epoch
    OBVIOUS
  <2>3. c \in Client /\ main[c] = 4 * e /\ e \in Nat /\ Len(pulled[c]) \in Layer
    BY <1>1, <2>1, <2>2 DEF PullOK
  <2>4. (4 * e) % 4 = 0
    BY <2>3
  <2> QED BY <2>3, <2>4
<1> QED BY <1>1

LEMMA PaceOn ==
  ASSUME ClientsOK, PaceOK, conf' = conf, NEW c \in Client, main' = [main EXCEPT ![c] = @ + 1],
         main[c] % 4 = 3 \/ InStep(c)
  PROVE  PaceOK'
<1>1. \A d \in Client : main[d] \in Int /\ main'[d] = IF d = c THEN main[c] + 1 ELSE main[d]
  BY DEF ClientsOK, ClientOK
<1>2. ASSUME NEW a \in Client, NEW b \in Client
      PROVE  InPace(main'[a], main'[b])
  <2>1. PICK n, m, x, y : n = main[a] /\ m = main[b] /\ x = main'[a] /\ y = main'[b]
    OBVIOUS
  <2>2. n \in Int /\ m \in Int /\ m >= n - (IF n % 4 = 0 THEN 2 ELSE 1)
    BY <1>1, <2>1 DEF PaceOK, InPace
  <2>3. CASE a # c
    <3>1. x = n /\ (y = m \/ y = m + 1)
      BY <1>1, <2>1, <2>3
    <3>2. y >= x - (IF x % 4 = 0 THEN 2 ELSE 1)
      BY <2>2, <3>1
    <3> QED BY <2>1, <3>2 DEF InPace
  <2>4. CASE a = c
    <3>1. x = n + 1 /\ (y = m \/ y = m + 1)
      BY <1>1, <2>1, <2>4
    <3>2. n % 4 = 3 \/ m >= n
      BY <2>1, <2>4 DEF InStep
    <3>3. y >= x - (IF x % 4 = 0 THEN 2 ELSE 1)
      BY <2>2, <3>1, <3>2
    <3> QED BY <2>1, <3>3 DEF InPace
  <2> QED BY <2>3, <2>4
<1> QED BY <1>2, RoundsSame DEF PaceOK, InPace

\* What s sends to another server, or has read there, and what its workers close.
Muter(s, q, z) ==
  \/ z = q
  \/ q # <<>> /\ z = Tail(q)
  \/ \E m : (m.kind = "DATA" => IsBlock(s, m.upd)) /\ z = Append(q, m)
AllDuller == \A u \in Server, v \in Worker : Duller(queue[u][v], queue'[u][v])
AllMuter == \A s \in Server, u \in Server : Muter(s, net[s][u], net'[s][u])
NewBlocks ==
  \A s \in Server, w \in Worker : busy'[s][w].at = "apply" =>
    busy'[s][w] = busy[s][w] \/ IsBlock(s, busy'[s][w].closed)

LEMMA SendsMore ==
  ASSUME NEW s, NEW q, IsQueue(q), SendsOK(s, q), NEW z, Muter(s, q, z)
  PROVE  SendsOK(s, z)
<1>1. CASE z = q
  BY <1>1
<1>2. CASE q # <<>> /\ z = Tail(q)
  <2>1. PICK n : n = Len(q)
    OBVIOUS
  <2>2. n \in Nat /\ Len(z) = n - 1 /\ \A i \in 1..n - 1 : z[i] = q[i + 1]
    BY <1>2, <2>1, QueueLen, QueueTail
  <2>3. ASSUME NEW i \in 1..Len(z), z[i].kind = "DATA"
        PROVE  IsBlock(s, z[i].upd)
    <3>1. i \in 1..n - 1
      BY <2>2, <2>3
    <3>2. PICK j : j = i + 1
      OBVIOUS
    <3>3. j \in 1..n /\ z[i] = q[j]
      BY <2>2, <3>1, <3>2
    <3> QED BY <2>1, <2>3, <3>3 DEF SendsOK
  <2> QED BY <2>3 DEF SendsOK
<1>3. ASSUME NEW m, m.kind = "DATA" => IsBlock(s, m.upd), z = Append(q, m)
      PROVE  SendsOK(s, z)
  <2>1. PICK n : n = Len(q)
    OBVIOUS
  <2>2. n \in Nat /\ Len(z) = n + 1 /\ (\A i \in 1..n : z[i] = q[i]) /\ z[n + 1] = m
    BY <1>3, <2>1, QueueLen, QueueAppend
  <2>3. ASSUME NEW i \in 1..Len(z), z[i].kind = "DATA"
        PROVE  IsBlock(s, z[i].upd)
    <3>1. i \in 1..n \/ i = n + 1
      BY <2>2, <2>3
    <3>2. CASE i \in 1..n
      <4>1. z[i] = q[i] /\ i \in 1..Len(q)
        BY <2>1, <2>2, <3>2
      <4> QED BY <2>3, <4>1 DEF SendsOK
    <3>3. CASE i = n + 1
      BY <1>3, <2>2, <2>3, <3>3
    <3> QED BY <3>1, <3>2, <3>3
  <2> QED BY <2>3 DEF SendsOK
<1> QED BY <1>1, <1>2, <1>3 DEF Muter

LEMMA CopiesStep ==
  ASSUME Wired(net, Server), CopiesOK, UNCHANGED <<conf, boot>>,
         net' = net \/ AllMuter, NewBlocks
  PROVE  CopiesOK'
<1>1. ASSUME boot[0] = "up", NEW s \in Server, NEW u \in Server
      PROVE  SendsOK(s, net[s][u])'
  <2>1. SendsOK(s, net[s][u]) /\ IsQueue(net[s][u]) /\ Muter(s, net[s][u], net'[s][u])
    BY <1>1 DEF CopiesOK, Wired, AllMuter, Muter
  <2>2. SendsOK(s, net'[s][u])
    BY <2>1, SendsMore
  <2> QED BY <2>2, RoundsSame DEF SendsOK
<1>2. ASSUME NEW s \in Server, NEW w \in Worker, busy'[s][w].at = "apply"
      PROVE  IsBlock(s, busy'[s][w].closed)
  BY <1>2 DEF NewBlocks, CopiesOK
<1>3. \A s \in Server', w \in Worker' : (busy[s][w].at = "apply" => IsBlock(s, busy[s][w].closed))'
  BY <1>2, RoundsSame DEF IsBlock
<1>4. boot'[0] = "up" => \A s \in Server', u \in Server' : SendsOK(s, net[s][u])'
  BY <1>1, RoundsSame
<1> QED BY <1>3, <1>4 DEF CopiesOK

LEMMA FirstSame ==
  ASSUME FirstOK, UNCHANGED <<conf, boot>>, net' = net \/ boot[0] = "up"
  PROVE  FirstOK'
<1>1. CASE boot[0] = "up"
  BY <1>1 DEF FirstOK
<1>2. CASE net' = net
  <2>1. Others(0)' = Others(0)
    BY RoundsSame
  <2> QED BY <1>2, <2>1 DEF FirstOK
<1> QED BY <1>1, <1>2

LEMMA ListsSame ==
  ASSUME Lists, UNCHANGED <<conf, pulled>>
  PROVE  Lists'
BY RoundsSame DEF Lists

LEMMA PulledSame ==
  ASSUME PulledOK, conf' = conf,
         \A c \in Client : main'[c] >= 0 => pulled'[c] = <<>> \/
           (main[c] >= 0 /\ pulled'[c] = pulled[c] /\ main'[c] \div 4 = main[c] \div 4)
  PROVE  PulledOK'
<1>1. ASSUME NEW c \in Client', main'[c] >= 0, NEW i \in DOMAIN pulled'[c]
      PROVE  pulled'[c][i] = Rounds(main'[c] \div 4)
  <2>1. c \in Client
    BY RoundsSame
  <2>2. CASE pulled'[c] = <<>>
    <3>1. DOMAIN <<>> = {}
      OBVIOUS
    <3> QED BY <1>1, <2>2, <3>1
  <2>3. CASE main[c] >= 0 /\ pulled'[c] = pulled[c] /\ main'[c] \div 4 = main[c] \div 4
    BY <1>1, <2>1, <2>3 DEF PulledOK, EpochOf
  <2> QED BY <1>1, <2>1, <2>2, <2>3
<1> QED BY <1>1, RoundsSame DEF PulledOK, EpochOf

\* Steps that neither go on with a client nor give it weights.
LEMMA StepPull ==
  ASSUME Bases, PullInv, UNCHANGED <<conf, main, pulled>>, flaws \subseteq flaws', AllDuller, FirstOK',
         Clean' => Grown /\ LevelsOK' /\ GhostsOK' /\ CopiesOK'
  PROVE  PullInv'
<1>1. Lists'
  BY ListsSame DEF PullInv
<1>2. PaceOK'
  BY RoundsSame DEF PullInv, PaceOK, InPace
<1>3. PullsOK'
  <2>1. RepInv /\ PullsOK
    BY BasesHave DEF PullInv
  <2>2. PICK c : \A u \in Server, v \in Worker : \A i : IsPull(queue[u][v], i) => queue[u][v][i].client # c
    <3>1. PICK c : c = conf.clients
      OBVIOUS
    <3>2. c \in Nat
      BY <3>1, BasesHave, ServerFacts
    <3>3. c \notin Client
      BY <3>1, <3>2 DEF Client
    <3>4. ASSUME NEW u \in Server, NEW v \in Worker, NEW i, IsPull(queue[u][v], i)
          PROVE  queue[u][v][i].client # c
      <4>1. PullOK(u, queue[u][v][i])
        BY <2>1, <3>4 DEF PullsOK
      <4> QED BY <3>3, <4>1 DEF PullOK
    <3> QED BY <3>4
  <2>3. \A d \in Client : d # c => main'[d] = main[d] /\ pulled'[d] = pulled[d]
    OBVIOUS
  <2> QED BY <2>1, <2>2, <2>3, PullsCalm DEF AllDuller
<1>4. ASSUME Clean'
      PROVE  Exact'
  <2>1. Clean /\ Exact /\ Grown
    BY <1>4 DEF Clean, PullInv
  <2>2. FloorsOK'
    <3>1. \A c \in Client, e \in Nat : Sees(main'[c], pulled'[c], e) => Sees(main[c], pulled[c], e)
      OBVIOUS
    <3> QED BY <2>1, <3>1, BasesHave, FloorsStay DEF Exact
  <2>3. PulledOK'
    <3>1. \A c \in Client : main'[c] >= 0 =>
            (main[c] >= 0 /\ pulled'[c] = pulled[c] /\ main'[c] \div 4 = main[c] \div 4)
      OBVIOUS
    <3> QED BY <2>1, <3>1, PulledSame DEF Exact
  <2> QED BY <1>4, <2>2, <2>3 DEF Exact
<1> QED BY <1>1, <1>2, <1>3, <1>4 DEF PullInv

\* Steps that do not apply anything either.
LEMMA StillPull ==
  ASSUME Bases, PullInv, UNCHANGED <<conf, boot, main, pulled, weights, epoch, ghost, ghostUpdCnt>>,
         flaws \subseteq flaws', AllDuller, net' = net \/ (boot[0] = "up" /\ AllMuter), Clean => NewBlocks
  PROVE  PullInv'
<1>1. FirstOK'
  BY FirstSame DEF PullInv
<1>2. ASSUME Clean'
      PROVE  Grown /\ LevelsOK' /\ GhostsOK' /\ CopiesOK'
  <2>1. Clean /\ Exact
    BY <1>2 DEF Clean, PullInv
  <2> QED BY <2>1, BasesHave, LevelsSame, GhostsSame, CopiesStep DEF Exact
<1> QED BY <1>1, <1>2, StepPull

\* What threads do.
LEMMA GoStill ==
  ASSUME RepInv, NEW s \in Server, NEW t \in Threads, NEW b, Goto(s, t, b), UNCHANGED queue
  PROVE  AllDuller /\ ((b.at = "apply" => IsBlock(s, b.closed)) => NewBlocks)
<1>1. \A u \in Server, v \in Threads : busy'[u][v] = IF u = s /\ v = t THEN b ELSE busy[u][v]
  BY GotoAll
<1>2. Worker \subseteq Threads
  BY DEF Threads
<1> QED BY <1>1, <1>2 DEF AllDuller, Duller, NewBlocks

LEMMA FinishStill ==
  ASSUME RepInv, NEW s \in Server, NEW t \in Threads, Finish(s, t), t \in Worker => queue[s][t] # <<>>
  PROVE  AllDuller /\ NewBlocks
<1>1. /\ \A u \in Server, v \in Worker :
           queue'[u][v] = IF u = s /\ v = t THEN Tail(queue[u][v]) ELSE queue[u][v]
      /\ \A u \in Server, v \in Threads :
           busy'[u][v] = IF u = s /\ v = t THEN [at |-> "idle"] ELSE busy[u][v]
  BY FinishAll
<1>2. Worker \subseteq Threads
  BY DEF Threads
<1>3. AllDuller
  BY <1>1 DEF AllDuller, Duller
<1>4. [at |-> "idle"].at # "apply"
  OBVIOUS
<1>5. NewBlocks
  BY <1>1, <1>2, <1>4 DEF NewBlocks
<1> QED BY <1>3, <1>5

LEMMA RequestStill ==
  ASSUME RepInv, NEW s \in Server, NEW m, m.op # "PULL", Request(s, m)
  PROVE  AllDuller
<1>1. ASSUME NEW u \in Server, NEW v \in Worker
      PROVE  Duller(queue[u][v], queue'[u][v])
  <2>0. queue'[u][v] = IF u = s /\ v = rr[s] THEN Append(queue[u][v], m) ELSE queue[u][v]
    BY RequestAt
  <2>1. queue'[u][v] = queue[u][v] \/ queue'[u][v] = Append(queue[u][v], m)
    BY <2>0
  <2> QED BY <2>1 DEF Duller
<1> QED BY <1>1 DEF AllDuller

LEMMA BusyStill ==
  ASSUME UNCHANGED busy
  PROVE  NewBlocks
BY DEF NewBlocks

(* Steps that have nothing to do with weights.                             *)

\* What they leave alone.
Aside ==
  UNCHANGED <<conf, boot, main, pulled, weights, epoch, ghost, ghostUpdCnt>> /\ flaws \subseteq flaws'

\* Thread t of s is done, or goes on to something else than the update.
Passes(s, t) ==
  \/ Finish(s, t) /\ (t \in Worker => queue[s][t] # <<>>)
  \/ \E b : b.at # "apply" /\ Goto(s, t, b) /\ UNCHANGED queue

LEMMA ThreadPull ==
  ASSUME Bases, PullInv, Aside, net' = net \/ (boot[0] = "up" /\ AllMuter),
         NEW s \in Server, NEW t \in Threads, Passes(s, t)
  PROVE  PullInv'
<1>1. AllDuller /\ NewBlocks
  <2>1. CASE Finish(s, t) /\ (t \in Worker => queue[s][t] # <<>>)
    BY <2>1, BasesHave, FinishStill
  <2>2. ASSUME NEW b, b.at # "apply", Goto(s, t, b), UNCHANGED queue
        PROVE  AllDuller /\ NewBlocks
    BY <2>2, BasesHave, GoStill
  <2> QED BY <2>1, <2>2 DEF Passes
<1> QED BY <1>1, StillPull DEF Aside

LEMMA GlobalPasses ==
  ASSUME NEW t, NEW node, NEW sum, UpdateGlobalAccLoss(t, node, sum), t \in Worker => queue[0][t] # <<>>
  PROVE  Passes(0, t)
<1>1. ASSUME NEW e, Goto(0, t, [at |-> "early", epoch |-> e]), UNCHANGED requests
      PROVE  Passes(0, t)
  <2>1. [at |-> "early", epoch |-> e].at # "apply"
    OBVIOUS
  <2> QED BY <1>1, <2>1 DEF Passes, requests
<1>2. Finish(0, t) \/ \E e : Goto(0, t, [at |-> "early", epoch |-> e]) /\ UNCHANGED requests
  BY DEF UpdateGlobalAccLoss
<1> QED BY <1>1, <1>2 DEF Passes

\* Until the master is up all threads are idle.
LEMMA BusyUp ==
  ASSUME AckInv, NEW s \in Server, NEW t \in Threads, busy[s][t].at # "idle"
  PROVE  boot[0] = "up"
BY DEF AckInv, Early, AllIdle

LEMMA OneMuter ==
  ASSUME conf \in Confs, Wired(net, Server), NEW a \in Server, NEW b \in Server, NEW n,
         \/ /\ net[a][b] # <<>> /\ n = Tail(net[a][b])
         \/ \E m : (m.kind = "DATA" => IsBlock(a, m.upd)) /\ n = Append(net[a][b], m),
         net' = [net EXCEPT ![a][b] = n]
  PROVE  AllMuter
<1>1. PICK r : r = net'
  OBVIOUS
<1>2. DOMAIN net = Server /\ \A s \in Server : DOMAIN net[s] = Server
  BY DEF Wired
<1>3. r = [net EXCEPT ![a][b] = n]
  BY <1>1
<1>4. \A s \in Server, u \in Server : r[s][u] = IF s = a /\ u = b THEN n ELSE net[s][u]
  BY <1>2, <1>3, TwoLevels
<1>5. ASSUME NEW s \in Server, NEW u \in Server
      PROVE  Muter(s, net[s][u], net'[s][u])
  <2>1. CASE s = a /\ u = b
    <3>1. net'[s][u] = n
      BY <1>1, <1>4, <2>1
    <3> QED BY <2>1, <3>1 DEF Muter
  <2>2. CASE ~(s = a /\ u = b)
    <3>1. net'[s][u] = net[s][u]
      BY <1>1, <1>4, <2>2
    <3> QED BY <3>1 DEF Muter
  <2> QED BY <2>1, <2>2
<1> QED BY <1>5 DEF AllMuter

LEMMA CalmWork ==
  ASSUME AckInv, Bases, PullInv, NEW s \in Server, NEW w \in Worker,
         Info(s, w) \/ SetTotals(s, w) \/ Terminate(s, w) \/ AcksWait(s, w) \/ Eval(s, w) \/ Report(s, w)
  PROVE  PullInv'
<1>1. w \in Threads /\ RepInv /\ conf \in Confs /\ Wired(net, Server)
  BY BasesHave DEF Threads
<1>2. ASSUME NEW op, Serves(s, w, op)
      PROVE  queue[s][w] # <<>>
  BY <1>1, <1>2, ServesHas
<1>3. busy[s][w].at # "idle" => queue[s][w] # <<>>
  BY <1>1, BusyHas
<1>4. CASE Info(s, w)
  <2>1. [at |-> "totals"].at # "apply"
    OBVIOUS
  <2>2. Passes(s, w)
    BY <1>4, <2>1 DEF Info, Passes, requests
  <2>3. Aside /\ net' = net
    BY <1>4 DEF Info, Aside, started, tensors, peers
  <2> QED BY <1>1, <2>2, <2>3, ThreadPull
<1>5. CASE SetTotals(s, w)
  <2>1. Passes(s, w)
    BY <1>3, <1>5 DEF SetTotals, At, Passes
  <2>2. Aside /\ net' = net
    BY <1>5 DEF SetTotals, Aside, started, clients, peers
  <2> QED BY <1>1, <2>1, <2>2, ThreadPull
<1>6. CASE Terminate(s, w)
  <2>1. Passes(s, w)
    BY <1>2, <1>6 DEF Terminate, Passes
  <2>2. Aside /\ net' = net
    BY <1>6 DEF Terminate, Aside, started, clients, tensors, peers
  <2> QED BY <1>1, <2>1, <2>2, ThreadPull
<1>7. CASE AcksWait(s, w)
  <2>1. Passes(s, w)
    BY <1>3, <1>7 DEF AcksWait, At, Passes
  <2>2. Aside /\ net' = net
    BY <1>7 DEF AcksWait, Aside, started, clients, tensors, peers
  <2> QED BY <1>1, <2>1, <2>2, ThreadPull
<1>8. CASE Eval(s, w)
  <2>1. queue[s][w] # <<>>
    BY <1>2, <1>8 DEF Eval
  <2>2. Finish(s, w) \/ \E x : Goto(s, w, [at |-> "report", sum |-> x]) /\ UNCHANGED requests
    BY <1>8 DEF Eval
  <2>3. ASSUME NEW x, Goto(s, w, [at |-> "report", sum |-> x]), UNCHANGED requests
        PROVE  Passes(s, w)
    <3>1. [at |-> "report", sum |-> x].at # "apply"
      OBVIOUS
    <3> QED BY <2>3, <3>1 DEF Passes, requests
  <2>4. Passes(s, w)
    BY <2>1, <2>2, <2>3 DEF Passes
  <2>5. Aside /\ net' = net
    BY <1>8 DEF Eval, Aside, started, clients, tensors, peers
  <2> QED BY <1>1, <2>4, <2>5, ThreadPull
<1>9. CASE Report(s, w)
  <2>1. busy[s][w].at = "report"
    BY <1>9 DEF Report, At
  <2>2. queue[s][w] # <<>> /\ boot[0] = "up"
    BY <1>1, <1>3, <2>1, BusyUp
  <2>3. Aside
    BY <1>9 DEF Report, Aside, started, clients, tensors
  <2>4. CASE s = 0
    <3>1. UpdateGlobalAccLoss(w, s, busy[s][w].sum) /\ net' = net
      BY <1>9, <2>4 DEF Report
    <3>2. Passes(0, w)
      BY <2>2, <2>4, <3>1, GlobalPasses
    <3> QED BY <1>1, <2>3, <2>4, <3>1, <3>2, ThreadPull
  <2>5. CASE s # 0
    <3>1. PICK m : m = [kind |-> "ACCLOSS", sum |-> busy[s][w].sum]
      OBVIOUS
    <3>2. net' = [net EXCEPT ![s][0] = Append(@, m)] /\ Finish(s, w)
      BY <1>9, <2>5, <3>1 DEF Report
    <3>3. m.kind # "DATA" /\ 0 \in Server
      BY <1>1, <3>1, ServerFacts
    <3>4. PICK n : n = Append(net[s][0], m)
      OBVIOUS
    <3>5. net' = [net EXCEPT ![s][0] = n]
      BY <3>2, <3>4
    <3>6. AllMuter
      BY <1>1, <3>3, <3>4, <3>5, OneMuter
    <3>7. Passes(s, w)
      BY <2>2, <3>2 DEF Passes
    <3> QED BY <1>1, <2>2, <2>3, <3>6, <3>7, ThreadPull
  <2> QED BY <2>4, <2>5
<1> QED BY <1>4, <1>5, <1>6, <1>7, <1>8, <1>9

LEMMA CalmStops ==
  ASSUME Bases, PullInv, NEW t \in Threads, EarlyStop(t) \/ Switch(t)
  PROVE  PullInv'
<1>1. 0 \in Server /\ RepInv
  BY BasesHave, ServerFacts
<1>2. t \in Worker => queue[0][t] # <<>>
  <2>1. busy[0][t].at = "early" \/ busy[0][t].at = "switch"
    BY DEF EarlyStop, Switch, At
  <2>2. busy[0][t].at # "idle"
    BY <2>1
  <2> QED BY <1>1, <2>2, BusyHas
<1>3. Aside /\ net' = net
  BY DEF EarlyStop, Switch, Aside, started, clients, tensors, peers
<1>4. Passes(0, t)
  <2>1. Finish(0, t) \/ \E x : Goto(0, t, [at |-> "switch", to |-> x]) /\ UNCHANGED requests
    BY DEF EarlyStop, Switch
  <2>2. ASSUME NEW x, Goto(0, t, [at |-> "switch", to |-> x]), UNCHANGED requests
        PROVE  Passes(0, t)
    <3>1. [at |-> "switch", to |-> x].at # "apply"
      OBVIOUS
    <3> QED BY <2>2, <3>1 DEF Passes, requests
  <2> QED BY <1>2, <2>1, <2>2 DEF Passes
<1> QED BY <1>1, <1>3, <1>4, ThreadPull

LEMMA CalmReceive ==
  ASSUME AckInv, Bases, PullInv, NEW s \in Server, NEW t \in Others(s), RecvAck(s, t) \/ RecvAccLoss(s, t)
  PROVE  PullInv'
<1>1. RepInv /\ conf \in Confs /\ Wired(net, Server) /\ t \in Server /\ boot[0] = "up"
  <2>1. Receive(s)
    BY DEF Receive
  <2> QED BY <2>1, BasesHave, EarlyReceiveNone DEF Others
<1>2. AllMuter
  <2>1. PICK n : n = Tail(net[t][s])
    OBVIOUS
  <2>2. net[t][s] # <<>> /\ net' = [net EXCEPT ![t][s] = n]
    BY <2>1 DEF RecvAck, RecvAccLoss, Receives
  <2> QED BY <1>1, <2>1, <2>2, OneMuter
<1>3. Aside
  BY DEF RecvAck, RecvAccLoss, Aside, started, clients, tensors
<1>4. CASE RecvAck(s, t)
  <2>1. AllDuller /\ NewBlocks
    <3>1. UNCHANGED <<queue, busy>>
      BY <1>4 DEF RecvAck, requests
    <3> QED BY <3>1, BusyStill DEF AllDuller, Duller
  <2> QED BY <1>1, <1>2, <1>3, <2>1, StillPull DEF Aside
<1>5. CASE RecvAccLoss(s, t)
  <2>1. Receiver \notin Worker /\ Receiver \in Threads
    <3>1. Workers \in Nat
      BY ServersOK
    <3> QED BY <3>1 DEF Receiver, Worker, Threads
  <2>2. s = 0 /\ Passes(0, Receiver)
    BY <1>5, <2>1, GlobalPasses DEF RecvAccLoss
  <2> QED BY <1>1, <1>2, <1>3, <2>1, <2>2, ThreadPull
<1> QED BY <1>4, <1>5

LEMMA CalmRequests ==
  ASSUME Bases, PullInv, SendInfo \/ Shutdown \/ \E c \in Client : SendPush(c)
  PROVE  PullInv'
<1>1. RepInv /\ conf \in Confs
  BY BasesHave
<1>2. Aside /\ net' = net /\ busy' = busy
  BY DEF SendInfo, Shutdown, SendPush, Aside, started, tensors, peers
<1>3. AllDuller
  <2>1. CASE SendInfo
    <3>1. PICK k : k \in Server /\ informed = 2 * k
      BY <2>1 DEF SendInfo
    <3>2. informed \div 2 = k
      BY <1>1, <3>1, ServerFacts
    <3>3. PICK m : m = [op |-> "INFO", cnt |-> SplitTot(k, conf.clients, conf.servers)]
      OBVIOUS
    <3>4. Request(k, m) /\ m.op # "PULL"
      BY <2>1, <3>2, <3>3 DEF SendInfo
    <3> QED BY <1>1, <3>1, <3>4, RequestStill
  <2>2. CASE Shutdown
    <3>1. queue' = [s \in Server |-> [queue[s] EXCEPT ![rr[s]] = Append(@, [op |-> "TERM"])]]
      BY <2>2 DEF Shutdown
    <3>2. [op |-> "TERM"].op # "PULL"
      OBVIOUS
    <3>3. ASSUME NEW u \in Server, NEW v \in Worker
          PROVE  Duller(queue[u][v], queue'[u][v])
      <4>1. DOMAIN queue[u] = Worker
        BY <1>1 DEF RepInv, QueuesOK, QueueTypes
      <4>2. queue'[u][v] = queue[u][v] \/ queue'[u][v] = Append(queue[u][v], [op |-> "TERM"])
        BY <3>1, <4>1
      <4> QED BY <3>2, <4>2 DEF Duller
    <3> QED BY <3>3 DEF AllDuller
  <2>3. ASSUME NEW c \in Client, SendPush(c)
        PROVE  AllDuller
    <3>1. PICK m : m = [op |-> "PUSH", client |-> c, layer |-> snd[c], epoch |-> EpochOf(c)]
      OBVIOUS
    <3>2. Request(ServerOf(c), m) /\ m.op # "PULL" /\ ServerOf(c) \in Server
      BY <1>1, <2>3, <3>1, ClientServer DEF SendPush
    <3> QED BY <1>1, <3>2, RequestStill
  <2> QED BY <2>1, <2>2, <2>3
<1> QED BY <1>2, <1>3, BusyStill, StillPull DEF Aside

\* Nothing happens.
LEMMA SamePull ==
  ASSUME Bases, PullInv, UNCHANGED vars
  PROVE  PullInv'
<1>1. Aside /\ UNCHANGED <<net, queue, busy>>
  BY DEF vars, Aside, started, clients, tensors, peers, requests
<1>2. AllDuller
  BY <1>1 DEF AllDuller, Duller
<1> QED BY <1>1, <1>2, BusyStill, StillPull DEF Aside

(* Clients.                                                                *)

LEMMA Both ==
  /\ Cardinality(Layer) = 2
  /\ \A x : Len(x) = 2 => x # <<>> /\ Len(x) \notin Layer
<1>1. PICK a, b : a = 0 /\ b = 1
  OBVIOUS
<1>2. a \in Int /\ b \in Int /\ Layer = a..b /\ a <= b
  BY <1>1 DEF Layer
<1>3. Cardinality(Layer) = b - a + 1
  BY <1>2, FS_Interval
<1>4. Cardinality(Layer) = 2
  BY <1>1, <1>3
<1>5. Len(<<>>) = 0 /\ 0 # 2 /\ 2 \notin Layer
  BY DEF Layer
<1>6. ASSUME NEW x, Len(x) = 2
      PROVE  x # <<>> /\ Len(x) \notin Layer
  BY <1>5, <1>6
<1> QED BY <1>4, <1>6

\* Client c goes on to the next phase of its epoch.
LEMMA PhasePull ==
  ASSUME Bases, PullInv,
         UNCHANGED <<conf, boot, net, busy, pulled, weights, epoch, ghost, ghostUpdCnt, flaws>>,
         NEW c \in Client, main' = [main EXCEPT ![c] = @ + 1], InStep(c), main[c] % 4 # 3,
         main[c] % 4 = 0 => Len(pulled[c]) = 2, AllDuller
  PROVE  PullInv'
<1>1. ClientsOK /\ RepInv /\ conf \in Confs /\ Wired(net, Server) /\ PullsOK /\ PaceOK /\ Lists /\ FirstOK
  BY BasesHave DEF AppInv, PullInv
<1>2. PICK n : n = main[c]
  OBVIOUS
<1>3. n \in Int /\ -1 <= n /\ n % 4 # 3
  BY <1>1, <1>2 DEF ClientsOK, ClientOK
<1>4. 0 <= n /\ (n + 1) \div 4 = n \div 4
  BY <1>3
<1>5. \A d \in Client : main'[d] = IF d = c THEN n + 1 ELSE main[d]
  BY <1>1, <1>2 DEF ClientsOK
<1>6. Lists' /\ FirstOK' /\ PaceOK'
  <2>1. main[c] % 4 = 3 \/ InStep(c)
    OBVIOUS
  <2> QED BY <1>1, <2>1, ListsSame, FirstSame, PaceOn
<1>7. PullsOK'
  <2>1. main[c] % 4 # 0 \/ Len(pulled[c]) \notin Layer
    BY Both
  <2>2. \A u \in Server, v \in Worker : \A i : IsPull(queue[u][v], i) => queue[u][v][i].client # c
    BY <1>1, <2>1, NoPull
  <2>3. \A d \in Client : d # c => main'[d] = main[d] /\ pulled'[d] = pulled[d]
    BY <1>5
  <2> QED BY <1>1, <2>2, <2>3, PullsCalm DEF AllDuller
<1>8. ASSUME Clean'
      PROVE  Exact'
  <2>1. Clean /\ Exact
    BY <1>8 DEF Clean, PullInv
  <2>2. LevelsOK' /\ Grown /\ GhostsOK'
    BY <2>1, LevelsSame, GhostsSame DEF Exact
  <2>3. CopiesOK'
    BY <1>1, <2>1, BusyStill, CopiesStep DEF Exact
  <2>4. FloorsOK'
    <3>1. ASSUME NEW d \in Client, NEW e \in Nat, Sees(main'[d], pulled'[d], e)
          PROVE  Sees(main[d], pulled[d], e)
      <4>1. CASE d # c
        <5>1. main'[d] = main[d]
          BY <1>5, <4>1
        <5> QED BY <3>1, <5>1
      <4>2. CASE d = c
        <5>1. 4 * e < n + 1 \/ 4 * e = n + 1
          BY <1>5, <3>1, <4>2 DEF Sees
        <5>2. 4 * e < n \/ 4 * e = n
          BY <1>3, <5>1
        <5>3. CASE 4 * e = n
          <6>1. n % 4 = 0
            BY <5>3
          <6>2. Len(pulled[c]) = 2
            BY <1>2, <6>1
          <6>3. pulled[c] # <<>>
            BY <6>2, Both
          <6> QED BY <1>2, <4>2, <5>3, <6>3 DEF Sees
        <5> QED BY <1>2, <4>2, <5>2, <5>3 DEF Sees
      <4> QED BY <4>1, <4>2
    <3> QED BY <1>1, <2>1, <2>2, <3>1, FloorsStay DEF Exact
  <2>5. PulledOK'
    <3>1. ASSUME NEW d \in Client, main'[d] >= 0
          PROVE  main[d] >= 0 /\ pulled'[d] = pulled[d] /\ main'[d] \div 4 = main[d] \div 4
      <4>1. CASE d # c
        BY <1>5, <3>1, <4>1
      <4>2. CASE d = c
        BY <1>2, <1>4, <1>5, <4>2
      <4> QED BY <4>1, <4>2
    <3> QED BY <2>1, <3>1, PulledSame DEF Exact
  <2> QED BY <2>2, <2>3, <2>4, <2>5 DEF Exact
<1> QED BY <1>6, <1>7, <1>8 DEF PullInv

LEMMA PhasesPull ==
  ASSUME Bases, PullInv, NEW c \in Client, Forward(c) \/ LastLayer(c) \/ Backward(c)
  PROVE  PullInv'
<1>1. RepInv /\ conf \in Confs /\ ClientsOK
  BY BasesHave DEF AppInv
<1>2. UNCHANGED <<conf, boot, net, busy, pulled, weights, epoch, ghost, ghostUpdCnt, flaws>>
  BY DEF Forward, LastLayer, Backward, started, tensors, peers
<1>3. /\ main' = [main EXCEPT ![c] = @ + 1] /\ InStep(c) /\ main[c] % 4 # 3
      /\ main[c] % 4 = 0 => Len(pulled[c]) = 2
  <2> QED BY Both DEF Forward, LastLayer, Backward, Phase
<1>4. AllDuller
  <2>1. CASE UNCHANGED queue
    BY <2>1 DEF AllDuller, Duller
  <2>2. CASE LastLayer(c) /\ "EVAL" \in conf.traffic
    <3>1. PICK m : m = [op |-> "EVAL", client |-> c, epoch |-> EpochOf(c)]
      OBVIOUS
    <3>2. Request(ServerOf(c), m) /\ m.op # "PULL" /\ ServerOf(c) \in Server
      BY <1>1, <2>2, <3>1, ClientServer DEF LastLayer
    <3> QED BY <1>1, <3>2, RequestStill
  <2> QED BY <2>1, <2>2 DEF Forward, LastLayer, Backward, requests
<1> QED BY <1>2, <1>3, <1>4, PhasePull

\* It asks for the weights of the next epoch, and has none.
LEMMA PrefetchPull ==
  ASSUME Bases, PullInv, NEW c \in Client, Prefetch(c)
  PROVE  PullInv'
<1>1. ClientsOK /\ RepInv /\ conf \in Confs /\ Wired(net, Server) /\ PullsOK /\ PaceOK /\ Lists /\ FirstOK
  BY BasesHave DEF AppInv, PullInv
<1>2. /\ UNCHANGED <<conf, boot, net, busy, weights, epoch, ghost, ghostUpdCnt, flaws>>
      /\ main' = [main EXCEPT ![c] = @ + 1] /\ pulled' = [pulled EXCEPT ![c] = <<>>]
      /\ main[c] % 4 = 3
  BY DEF Prefetch, Phase, started, tensors, peers
<1>3. PICK n, e : n = main[c] /\ e = n \div 4 + 1
  OBVIOUS
<1>4. n \in Int /\ -1 <= n /\ n % 4 = 3
  BY <1>1, <1>2, <1>3 DEF ClientsOK, ClientOK
<1>5. e \in Nat /\ n + 1 = 4 * e
  BY <1>3, <1>4
<1>6. /\ \A d \in Client : main'[d] = IF d = c THEN n + 1 ELSE main[d]
      /\ DOMAIN pulled' = Client /\ \A d \in Client : pulled'[d] = IF d = c THEN <<>> ELSE pulled[d]
  BY <1>1, <1>2, <1>3 DEF ClientsOK, Lists
<1>7. Lists' /\ FirstOK' /\ PaceOK'
  <2>1. Lists'
    BY <1>1, <1>2, <1>6, QueueEmpty, RoundsSame DEF Lists
  <2> QED BY <1>1, <1>2, <2>1, FirstSame, PaceOn
<1>8. PullsOK'
  <2>1. PICK q, s, k, m : /\ q = queue /\ s = ServerOf(c) /\ k = rr[s]
                          /\ m = PullOf(c, e, 0)
    OBVIOUS
  <2>2. m.op = "PULL" /\ m.client = c /\ m.epoch = e /\ m.layer = 0
    BY <2>1 DEF PullOf
  <2>3. s \in Server /\ Request(s, m)
    <3>1. s \in Server
      BY <1>1, <2>1, ClientServer
    <3> QED BY <1>3, <2>1, <3>1 DEF Prefetch, EpochOf, PullOf
  <2>4. PullStays(q, c)
    <3>1. \A u \in Server, v \in Worker : \A i : IsPull(queue[u][v], i) => queue[u][v][i].client # c
      <4>1. main[c] % 4 # 0
        BY <1>2
      <4> QED BY <1>1, <4>1, NoPull
    <3>2. \A u \in Server, v \in Worker : IsQueue(queue[u][v])
      BY <1>1 DEF RepInv, QueuesOK, QueueOK
    <3> QED BY <2>1, <3>1, <3>2, ShiftsSame DEF PullStays
  <2>5. PullComes(q, c, s, k, m)
    <3>1. \A u \in Server, v \in Worker :
            queue'[u][v] = IF u = s /\ v = rr[s] THEN Append(queue[u][v], m) ELSE queue[u][v]
      BY <1>1, <2>3, RequestAt
    <3>2. \A u \in Server, v \in Worker :
            queue'[u][v] = q[u][v] \/ (u = s /\ v = k /\ queue'[u][v] = Append(q[u][v], m))
      BY <2>1, <3>1
    <3>3. main'[c] = 4 * e /\ Len(pulled'[c]) = 0
      <4>1. Len(<<>>) = 0
        OBVIOUS
      <4> QED BY <1>5, <1>6, <4>1
    <3>4. 0 \in Layer
      BY DEF Layer
    <3> QED BY <1>5, <2>1, <2>2, <3>2, <3>3, <3>4 DEF PullComes
  <2>6. \A d \in Client : d # c => main'[d] = main[d] /\ pulled'[d] = pulled[d]
    BY <1>6
  <2>7. conf' = conf
    BY <1>2
  <2> QED BY <1>1, <2>4, <2>5, <2>6, <2>7, PullsStep
<1>9. ASSUME Clean'
      PROVE  Exact'
  <2>1. Clean /\ Exact
    BY <1>2, <1>9 DEF Clean, PullInv
  <2>2. LevelsOK' /\ Grown /\ GhostsOK'
    BY <1>2, <2>1, LevelsSame, GhostsSame DEF Exact
  <2>3. CopiesOK'
    BY <1>1, <1>2, <2>1, BusyStill, CopiesStep DEF Exact
  <2>4. FloorsOK'
    <3>1. ASSUME NEW d \in Client, NEW f \in Nat, Sees(main'[d], pulled'[d], f)
          PROVE  Sees(main[d], pulled[d], f)
      <4>1. CASE d # c
        <5>1. main'[d] = main[d] /\ pulled'[d] = pulled[d]
          BY <1>6, <4>1
        <5> QED BY <3>1, <5>1
      <4>2. CASE d = c
        <5>1. 4 * f < n + 1
          BY <1>6, <3>1, <4>2 DEF Sees
        <5>2. 4 * f < n
          BY <1>4, <5>1
        <5> QED BY <1>3, <4>2, <5>2 DEF Sees
      <4> QED BY <4>1, <4>2
    <3> QED BY <1>1, <1>2, <2>1, <2>2, <3>1, FloorsStay DEF Exact
  <2>5. PulledOK'
    <3>1. ASSUME NEW d \in Client, main'[d] >= 0
          PROVE  pulled'[d] = <<>> \/
                   (main[d] >= 0 /\ pulled'[d] = pulled[d] /\ main'[d] \div 4 = main[d] \div 4)
      BY <1>6, <3>1
    <3> QED BY <1>2, <2>1, <3>1, PulledSame DEF Exact
  <2> QED BY <2>2, <2>3, <2>4, <2>5 DEF Exact
<1> QED BY <1>7, <1>8, <1>9 DEF PullInv

\* A client before its forward pass has not pushed for its epoch, so that its server has
\* updated both layers at most as often as there were epochs before: if it has not
\* together less than twice that often, exactly as often.
LEMMA LevelsReached ==
  ASSUME Bases, LevelsOK, NEW c \in Client, NEW s, s = ServerOf(c),
         NEW e \in Nat, main[c] = 4 * e, 2 * e <= epoch[s]
  PROVE  \A l \in Layer : weights[s][l] = Rounds(e)
<1>1. conf \in Confs /\ s \in Server
  BY BasesHave, ClientServer
<1>2. PICK k : LevelAt(s, k)
  BY <1>1 DEF LevelsOK
<1>3. /\ k \in [Layer -> Nat] /\ epoch[s] = k[0] + k[1]
      /\ \A l \in Layer : weights[s][l] = Rounds(k[l])
  BY <1>2 DEF LevelAt
<1>4. ASSUME NEW l \in Layer
      PROVE  k[l] <= e
  <2>1. PICK n : n = k[l]
    OBVIOUS
  <2>2. n \in Nat /\ weights[s][l] = Rounds(n)
    BY <1>3, <2>1
  <2>3. SUFFICES ASSUME n >= 1 PROVE n <= e
    BY <2>1, <2>2
  <2>4. PICK g : g = <<c, n - 1>>
    OBVIOUS
  <2>5. g \in weights[s][l]
    <3>1. n - 1 \in 0..n - 1
      BY <2>2, <2>3
    <3> QED BY <2>2, <2>4, <3>1 DEF Rounds
  <2>6. g \in Home(s)
    <3>1. weights[s][l] \subseteq Grad \cup {Torn}
      BY <1>1, BasesHave DEF AppInv, MatricesOK
    <3>2. c \in Nat
      BY <1>1, ServerFacts DEF Client
    <3>3. c # -1
      BY <3>2
    <3>4. g # Torn
      BY <2>4, <3>3 DEF Torn
    <3>5. g \in Grad /\ ServerOf(g[1]) = s
      BY <2>4, <2>5, <3>1, <3>4
    <3> QED BY <3>5 DEF Home
  <2>7. Pushed(g, l)
    <3>1. HeldAre(s, s, l) /\ <<"weights", 0>> \in Stage
      BY HeldAt, StagesIn
    <3>2. g \in Held(<<"weights", 0>>, s, s, l)
      BY <2>5, <2>6, <3>1 DEF HeldAre
    <3> QED BY <1>1, <3>1, <3>2, TrackHas DEF Track, HeldOK
  <2>8. 4 * (n - 1) + 3 - l <= 4 * e
    <3>1. g[1] = c /\ g[2] = n - 1
      BY <2>4
    <3>2. PICK d : d = 4 * (n - 1) + 3 - l
      OBVIOUS
    <3>3. Due(g, l) = d
      BY <3>1, <3>2 DEF Due
    <3>4. d < 4 * e \/ d = 4 * e
      BY <2>7, <3>1, <3>3 DEF Pushed
    <3>5. d \in Int
      BY <2>2, <3>2 DEF Layer
    <3> QED BY <3>2, <3>4, <3>5
  <2> QED BY <2>2, <2>8 DEF Layer
<1>5. k[0] = e /\ k[1] = e
  <2>1. PICK a, b : a = k[0] /\ b = k[1]
    OBVIOUS
  <2>2. a \in Nat /\ b \in Nat /\ a <= e /\ b <= e
    BY <1>3, <1>4, <2>1 DEF Layer
  <2>3. 2 * e <= a + b
    BY <1>3, <2>1
  <2>4. a = e /\ b = e
    BY <2>2, <2>3
  <2> QED BY <2>1, <2>4
<1> QED BY <1>3, <1>5 DEF Layer

\* The pull of layer l by client c in epoch e that a worker of s serves: the queues are q
\* without it, and m is the next one, if there is one.
PullAt(s, c, e, l, q, k, m) ==
  /\ c \in Client /\ e \in Nat /\ l \in Layer
  /\ ServerOf(c) = s /\ main[c] = 4 * e /\ l = Len(pulled[c])
  /\ conf.block => ~(e * 2 > epoch[s])
  /\ pulled' = [pulled EXCEPT ![c] = Append(@, weights[s][l])]
  /\ PullStays(q, c)
  /\ m.op = "PULL" => m = PullOf(c, e, l + 1) /\ l + 1 \in Layer
  /\ \A u \in Server, v \in Worker :
       queue'[u][v] = q[u][v] \/ (u = s /\ v = k /\ queue'[u][v] = Append(q[u][v], m))

LEMMA PullServed ==
  ASSUME Bases, PullsOK, NEW s \in Server, NEW w \in Worker, Pull(s, w)
  PROVE  \E c, e, l, q, k, m : PullAt(s, c, e, l, q, k, m)
<1>1. PICK h : h = Head(queue[s][w])
  OBVIOUS
<1>2. queue[s][w] # <<>> /\ queue[s][w][1].op = "PULL" /\ h = queue[s][w][1]
  BY <1>1, BasesHave, ServesHas DEF Pull
<1>3. RepInv /\ IsQueue(queue[s][w]) /\ Len(queue[s][w]) \in Nat /\ Len(queue[s][w]) >= 1
  <2>1. RepInv /\ IsQueue(queue[s][w])
    BY BasesHave DEF RepInv, QueuesOK, QueueOK
  <2> QED BY <1>2, <2>1, QueueLen, QueueTail
<1>4. IsPull(queue[s][w], 1)
  BY <1>2, <1>3 DEF IsPull
<1>5. PullOK(s, h)
  BY <1>2, <1>4 DEF PullsOK
<1>6. PICK c, e, l : c = h.client /\ e = h.epoch /\ l = h.layer
  OBVIOUS
<1>7. /\ h = PullOf(c, e, l) /\ c \in Client /\ e \in Nat /\ l \in Layer
      /\ ServerOf(c) = s /\ main[c] = 4 * e /\ l = Len(pulled[c])
  BY <1>5, <1>6 DEF PullOK
<1>8. /\ ~Blocked(s, h) /\ pulled' = [pulled EXCEPT ![c] = Append(@, weights[s][l])]
  BY <1>1, <1>6 DEF Pull
<1>9. conf.block => ~(e * 2 > epoch[s])
  BY <1>6, <1>8 DEF Blocked
<1>10. PICK q, k, m : PullMoves(s, w, q, k, m)
  BY <1>3, PullMoved
<1>11. PICK x : x = Tail(queue[s][w])
  OBVIOUS
<1>12. x = Tail(queue[s][w]) /\ \A u \in Server, v \in Worker : q[u][v] = IF u = s /\ v = w THEN x ELSE queue[u][v]
  BY <1>10, <1>11 DEF PullMoves
<1>13. PullStays(q, c)
  <2>1. ASSUME NEW u \in Server, NEW v \in Worker
        PROVE  IsQueue(q[u][v]) /\ Shifts(queue[u][v], q[u][v])
    <3>1. CASE u = s /\ v = w
      <4>1. IsQueue(x) /\ Shifts(queue[s][w], x)
        BY <1>2, <1>3, <1>12, ShiftsTail, QueueTail
      <4> QED BY <1>12, <3>1, <4>1
    <3>2. CASE ~(u = s /\ v = w)
      <4>1. q[u][v] = queue[u][v] /\ IsQueue(queue[u][v])
        BY <1>3, <1>12, <3>2 DEF RepInv, QueuesOK, QueueOK
      <4> QED BY <4>1, ShiftsSame
    <3> QED BY <3>1, <3>2
  <2>2. ASSUME NEW u \in Server, NEW v \in Worker, NEW i, IsPull(q[u][v], i), q[u][v][i].client = c
        PROVE  FALSE
    <3>1. CASE u = s /\ v = w
      <4>1. q[u][v] = x
        BY <1>12, <3>1
      <4>2. PICK j : j = i + 1
        OBVIOUS
      <4>3. IsQueue(queue[s][w]) /\ queue[s][w] # <<>> /\ x = Tail(queue[s][w]) /\ IsPull(x, i)
        BY <1>2, <1>3, <1>12, <2>2, <4>1
      <4>4. i \in Nat /\ IsPull(queue[s][w], j) /\ queue[s][w][j] = x[i]
        BY <4>2, <4>3, ShiftsTail
      <4>5. queue[s][w][j].client = c /\ queue[s][w][1].client = c
        BY <1>2, <1>6, <2>2, <4>1, <4>4
      <4>6. j = 1
        BY <1>4, <4>4, <4>5 DEF PullsOK
      <4>7. i = 0
        BY <4>2, <4>4, <4>6
      <4> QED BY <2>2, <4>7 DEF IsPull
    <3>2. CASE ~(u = s /\ v = w)
      <4>1. q[u][v] = queue[u][v]
        BY <1>12, <3>2
      <4>2. IsPull(queue[u][v], i) /\ queue[u][v][i].client = c
        BY <2>2, <4>1
      <4>3. PullOK(u, queue[u][v][i])
        BY <4>2 DEF PullsOK
      <4>4. u = s
        BY <1>7, <4>2, <4>3 DEF PullOK
      <4>5. v = w
        BY <1>2, <1>4, <1>6, <4>2, <4>4 DEF PullsOK
      <4> QED BY <3>2, <4>4, <4>5
    <3> QED BY <3>1, <3>2
  <2> QED BY <2>1, <2>2 DEF PullStays
<1>14. m.op = "PULL" => m = PullOf(c, e, l + 1) /\ l + 1 \in Layer
  <2>1. PICK r : r = [h EXCEPT !.layer = @ + 1]
    OBVIOUS
  <2>2. r = PullOf(c, e, l + 1)
    BY <1>7, <2>1 DEF PullOf
  <2> QED BY <1>1, <1>6, <1>10, <2>1, <2>2 DEF PullMoves
<1>15. \A u \in Server, v \in Worker :
         queue'[u][v] = q[u][v] \/ (u = s /\ v = k /\ queue'[u][v] = Append(q[u][v], m))
  BY <1>10 DEF PullMoves
<1>16. PullAt(s, c, e, l, q, k, m)
  BY <1>7, <1>8, <1>9, <1>13, <1>14, <1>15 DEF PullAt
<1> QED BY <1>16

\* A pull goes from queue to queue, and the client has the weights of one layer more.
LEMMA PullQueues ==
  ASSUME PullsOK, Lists, UNCHANGED <<conf, main>>, NEW s, NEW c, NEW e, NEW l, NEW q, NEW k, NEW m,
         PullAt(s, c, e, l, q, k, m)
  PROVE  PullsOK' /\ Lists'
<1>1. c \in Client /\ DOMAIN pulled = Client /\ \A d \in Client : IsQueue(pulled[d])
  BY DEF PullAt, Lists
<1>2. PICK p, x : p = pulled[c] /\ x = weights[s][l]
  OBVIOUS
<1>3. IsQueue(Append(p, x)) /\ Len(Append(p, x)) = Len(p) + 1
  BY <1>1, <1>2, QueueAppend
<1>4. /\ DOMAIN pulled' = Client
      /\ \A d \in Client : pulled'[d] = IF d = c THEN Append(p, x) ELSE pulled[d]
  BY <1>1, <1>2 DEF PullAt
<1>5. Lists'
  <2>1. \A d \in Client : IsQueue(pulled'[d])
    BY <1>1, <1>3, <1>4
  <2> QED BY <1>4, <2>1, RoundsSame DEF Lists
<1>6. PullsOK'
  <2>1. PullComes(q, c, s, k, m)
    <3>1. ASSUME m.op = "PULL"
          PROVE  /\ m = PullOf(c, m.epoch, m.layer) /\ m.client = c
                 /\ m.epoch \in Nat /\ m.layer \in Layer
                 /\ main'[c] = 4 * m.epoch /\ m.layer = Len(pulled'[c])
      <4>1. m = PullOf(c, e, l + 1) /\ l + 1 \in Layer /\ e \in Nat /\ main[c] = 4 * e /\ l = Len(p)
        BY <1>2, <3>1 DEF PullAt
      <4>2. m.client = c /\ m.epoch = e /\ m.layer = l + 1
        BY <4>1 DEF PullOf
      <4>3. main'[c] = 4 * e /\ Len(pulled'[c]) = l + 1
        BY <1>1, <1>3, <1>4, <4>1
      <4> QED BY <4>1, <4>2, <4>3
    <3> QED BY <1>1, <3>1 DEF PullComes, PullAt
  <2>2. PullStays(q, c)
    BY DEF PullAt
  <2>3. \A d \in Client : d # c => main'[d] = main[d] /\ pulled'[d] = pulled[d]
    BY <1>4
  <2>4. conf' = conf
    OBVIOUS
  <2> QED BY <2>1, <2>2, <2>3, <2>4, PullsStep
<1> QED BY <1>5, <1>6

LEMMA PullPull ==
  ASSUME Bases, PullInv, NEW s \in Server, NEW w \in Worker, Pull(s, w)
  PROVE  PullInv'
<1>1. ClientsOK /\ RepInv /\ conf \in Confs /\ Wired(net, Server) /\ PullsOK /\ PaceOK /\ Lists /\ FirstOK
  BY BasesHave DEF AppInv, PullInv
<1>2. UNCHANGED <<conf, boot, main, net, busy, weights, epoch, ghost, ghostUpdCnt, flaws>>
  BY DEF Pull, started, tensors, peers
<1>3. PICK c, e, l, q, k, m : PullAt(s, c, e, l, q, k, m)
  BY <1>1, PullServed
<1>4. PullsOK' /\ Lists'
  BY <1>1, <1>2, <1>3, PullQueues
<1>5. FirstOK' /\ PaceOK'
  <2>1. PaceOK'
    BY <1>1, <1>2, RoundsSame DEF PaceOK, InPace
  <2> QED BY <1>1, <1>2, <2>1, FirstSame
<1>6. /\ c \in Client /\ e \in Nat /\ l \in Layer /\ s = ServerOf(c) /\ main[c] = 4 * e
      /\ conf.block => ~(e * 2 > epoch[s])
      /\ pulled' = [pulled EXCEPT ![c] = Append(@, weights[s][l])]
  BY <1>3 DEF PullAt
<1>7. ASSUME Clean'
      PROVE  Exact'
  <2>1. Clean /\ Exact
    BY <1>2, <1>7 DEF Clean, PullInv
  <2>2. LevelsOK' /\ Grown /\ GhostsOK'
    BY <1>2, <2>1, LevelsSame, GhostsSame DEF Exact
  <2>3. CopiesOK'
    BY <1>1, <1>2, <2>1, BusyStill, CopiesStep DEF Exact
  <2>4. \A j \in Layer : weights[s][j] = Rounds(e)
    <3>1. epoch[s] \in Nat
      <4>1. PICK h : h \in [Layer -> Nat] /\ epoch[s] = h[0] + h[1]
        BY <2>1 DEF Exact, LevelsOK, LevelAt
      <4> QED BY <4>1 DEF Layer
    <3>2. 2 * e <= epoch[s]
      BY <1>6, <2>1, <3>1 DEF Clean
    <3> QED BY <1>6, <2>1, <3>2, LevelsReached DEF Exact
  <2>5. PICK p, x : p = pulled[c] /\ x = Rounds(e)
    OBVIOUS
  <2>6. \A d \in Client : pulled'[d] = IF d = c THEN Append(p, x) ELSE pulled[d]
    BY <1>1, <1>6, <2>4, <2>5 DEF Lists
  <2>7. FloorsOK'
    <3>1. ASSUME NEW d \in Client, NEW f \in Nat, Sees(main'[d], pulled'[d], f)
          PROVE  Sees(main[d], pulled[d], f) \/ \A j \in Layer : Rounds(f) \subseteq weights[ServerOf(d)][j]
      <4>1. main'[d] = main[d]
        BY <1>2
      <4>2. CASE d # c
        BY <2>6, <3>1, <4>1, <4>2
      <4>3. CASE d = c
        <5>1. 4 * f < main[d] \/ 4 * f = 4 * e
          BY <1>6, <3>1, <4>1, <4>3 DEF Sees
        <5>2. 4 * f < main[d] \/ f = e
          BY <1>6, <5>1
        <5> QED BY <1>6, <2>4, <4>3, <5>2 DEF Sees
      <4> QED BY <4>2, <4>3
    <3> QED BY <1>1, <1>2, <2>1, <2>2, <3>1, FloorsStay DEF Exact
  <2>8. PulledOK'
    <3>1. ASSUME NEW d \in Client, main'[d] >= 0, NEW i \in DOMAIN (pulled'[d])
          PROVE  pulled'[d][i] = Rounds(main[d] \div 4)
      <4>1. \A j \in DOMAIN pulled[d] : pulled[d][j] = Rounds(main[d] \div 4)
        BY <1>2, <2>1, <3>1 DEF Exact, PulledOK, EpochOf
      <4>2. CASE d # c
        BY <2>6, <3>1, <4>1, <4>2
      <4>3. CASE d = c
        <5>1. IsQueue(p) /\ pulled'[d] = Append(p, x)
          BY <1>1, <2>5, <2>6, <4>3 DEF Lists
        <5>2. /\ Len(p) \in Nat /\ DOMAIN p = 1..Len(p)
              /\ DOMAIN Append(p, x) = 1..Len(p) + 1
          BY <5>1 DEF IsQueue
        <5>3. i \in 1..Len(p) \/ i = Len(p) + 1
          BY <3>1, <5>1, <5>2
        <5>4. main[d] \div 4 = e
          BY <1>6, <4>3
        <5>5. CASE i \in 1..Len(p)
          <6>1. Append(p, x)[i] = p[i]
            BY <5>1, <5>5, QueueAppend
          <6> QED BY <2>5, <4>1, <4>3, <5>1, <5>2, <5>5, <6>1
        <5>6. CASE i = Len(p) + 1
          <6>1. Append(p, x)[i] = x
            BY <5>1, <5>6, QueueAppend
          <6> QED BY <2>5, <5>1, <5>4, <6>1
        <5> QED BY <5>3, <5>5, <5>6
      <4> QED BY <4>2, <4>3
    <3>2. \A d \in Client : main'[d] >= 0 => \A i \in DOMAIN (pulled'[d]) : pulled'[d][i] = Rounds(main'[d] \div 4)
      BY <1>2, <3>1
    <3> QED BY <1>2, <3>2, RoundsSame DEF PulledOK, EpochOf, Rounds
  <2> QED BY <2>2, <2>3, <2>7, <2>8 DEF Exact
<1> QED BY <1>4, <1>5, <1>7 DEF PullInv

(* Steps that move gradients.                                              *)

\* What s holds for the next round, while pulls are exact.
LEMMA RoundNext ==
  ASSUME Bases, PullInv, Clean, NEW s \in Server, NEW l \in Layer
  PROVE  Rounded /\ Exact /\ \E k \in Nat : weights[s][l] = Rounds(k)
<1>1. Rounded /\ Exact
  BY DEF PullInv, Clean, Exact, Rounded
<1>2. PICK h : h \in [Layer -> Nat] /\ \A j \in Layer : weights[s][j] = Rounds(h[j])
  BY <1>1 DEF Exact, LevelsOK, LevelAt
<1> QED BY <1>1, <1>2

\* An update that is closed is whole.
LEMMA PushCloses ==
  ASSUME Bases, PullInv, Clean, NEW s \in Server, NEW w \in Worker, NEW l \in Layer, NEW g,
         g \in Asks(queue[s][w], busy[s][w], l), Cardinality(local[s][l] \cup {g}) = tot[s]
  PROVE  IsBlock(s, local[s][l] \cup {g})
<1>1. Rounded /\ conf \in Confs /\ RepInv
  BY RoundNext, BasesHave
<1>2. PICK k \in Nat : weights[s][l] = Rounds(k)
  BY RoundNext
<1>3. PICK p : p = <<"ask", w>>
  OBVIOUS
<1>4. p \in Stage /\ p # <<"weights", 0>> /\ g \in Held(p, s, s, l)
  <2>1. HeldAre(s, s, l) /\ p \in Stage
    BY <1>3, HeldAt, StagesIn
  <2>2. "ask" # "weights"
    OBVIOUS
  <2>3. p # <<"weights", 0>>
    BY <1>3, <2>2
  <2> QED BY <1>3, <2>1, <2>3 DEF HeldAre
<1>5. g \in Block(s, k)
  BY <1>1, <1>2, <1>4, HeldRound
<1>6. local[s][l] \subseteq Block(s, k)
  BY <1>1, <1>2, MatrixRounds
<1>7. PICK S, a, b, c : /\ S = local[s][l] \cup {g} /\ a = Cardinality(S) /\ b = tot[s] /\ c = TotOf(s)
  OBVIOUS
<1>8. S \subseteq Block(s, k)
  BY <1>5, <1>6, <1>7
<1>9. a \in Nat /\ (a >= c => S = Block(s, k))
  BY <1>1, <1>7, <1>8, BlockWhole
<1>10. c \in Nat /\ b \in Int /\ c <= b
  BY <1>1, <1>7, TotTypes
<1>11. a = b
  BY <1>7
<1>12. S = Block(s, k)
  BY <1>9, <1>10, <1>11
<1> QED BY <1>2, <1>7, <1>12 DEF IsBlock

LEMMA PushPull ==
  ASSUME Bases, PullInv, NEW s \in Server, NEW w \in Worker, Push(s, w)
  PROVE  PullInv'
<1>1. RepInv /\ conf \in Confs /\ Matrix(local) /\ w \in Threads
  BY BasesHave DEF AppInv, MatricesOK, Threads
<1>2. /\ UNCHANGED <<conf, boot, main, pulled, net, weights, epoch, ghost, ghostUpdCnt>>
      /\ flaws \subseteq flaws'
  BY DEF Push, started, clients, peers
<1>3. PICK l \in Layer : \E g : PushOf(s, w, l, g)
  BY PushServed
<1>4. PICK g : PushOf(s, w, l, g)
  BY <1>3
<1>5. PICK S : S = local[s][l] \cup {g}
  OBVIOUS
<1>6. local'[s][l] = S
  <2>1. PICK m : m = local'
    OBVIOUS
  <2>2. m = [local EXCEPT ![s][l] = S]
    BY <1>4, <1>5, <2>1 DEF PushOf
  <2>3. m[s][l] = S
    BY <1>1, <2>2 DEF Matrix
  <2> QED BY <2>1, <2>3
<1>7. AllDuller /\ (Clean => NewBlocks)
  <2>1. CASE Cardinality(S) = tot[s]
    <3>1. PICK b : b = [at |-> "apply", layer |-> l, closed |-> S]
      OBVIOUS
    <3>2. Goto(s, w, b) /\ UNCHANGED queue
      BY <1>4, <1>6, <2>1, <3>1 DEF PushOf, requests
    <3>3. Clean => IsBlock(s, S)
      BY <1>4, <1>5, <2>1, PushCloses DEF PushOf
    <3>4. b.closed = S
      BY <3>1
    <3> QED BY <1>1, <3>2, <3>3, <3>4, GoStill
  <2>2. CASE Cardinality(S) # tot[s]
    <3>1. Finish(s, w)
      BY <1>4, <1>6, <2>2 DEF PushOf
    <3>2. queue[s][w] # <<>>
      BY <1>4 DEF PushOf
    <3> QED BY <1>1, <3>1, <3>2, FinishStill
  <2> QED BY <2>1, <2>2
<1> QED BY <1>2, <1>7, StillPull

LEMMA ApplyUpdatePull ==
  ASSUME AckInv, Bases, PullInv, NEW s \in Server, NEW w \in Worker, ApplyUpdate(s, w)
  PROVE  PullInv'
<1>1. AppInv /\ conf \in Confs /\ RepInv /\ AllAsksOK /\ Wired(net, Server)
  BY BasesHave
<1>2. /\ UNCHANGED <<conf, boot, main, pulled, queue>> /\ flaws \subseteq flaws'
      /\ conf' = conf
  BY DEF ApplyUpdate, started, clients, requests
<1>3. PICK y, l, b : y = busy[s][w] /\ l = y.layer /\ b = [at |-> "acks"]
  OBVIOUS
<1>4. y.at = "apply" /\ Goto(s, w, b) /\ w \in Threads /\ TryApplyUpdate(s, l, ghost[s][l], ghostUpdCnt[s][l])
  BY <1>3 DEF ApplyUpdate, At, Threads
<1>5. boot[0] = "up"
  <2>1. busy[s][w].at # "idle"
    BY <1>3, <1>4
  <2> QED BY <1>4, <2>1, BusyUp
<1>6. l \in Layer
  BY <1>1, <1>3, <1>4, QueueHas DEF AsksOK
<1>7. AllDuller /\ NewBlocks
  <2>1. b.at # "apply"
    BY <1>3
  <2> QED BY <1>1, <1>2, <1>4, <2>1, GoStill
<1>8. FirstOK'
  BY <1>2, <1>5, FirstSame DEF PullInv
<1>9. ASSUME Clean'
      PROVE  Grown /\ LevelsOK' /\ GhostsOK' /\ CopiesOK'
  <2>1. Clean /\ local[s][l] = y.closed
    BY <1>2, <1>3, <1>9 DEF Clean, ApplyUpdate
  <2>2. Rounded /\ Exact
    BY <1>6, <2>1, RoundNext
  <2>3. PICK k \in Nat : weights[s][l] = Rounds(k)
    BY <1>6, <2>1, RoundNext
  <2>4. ghost[s][l] \subseteq Client \X {k} /\ Gets(s, ghost[s][l], ghostUpdCnt[s][l])
    BY <1>6, <2>2, <2>3, MatrixRounds DEF Exact, GhostsOK
  <2>5. Grown /\ LevelsOK' /\ GhostsOK'
    BY <1>2, <1>4, <1>6, <2>2, <2>3, <2>4, TryKeeps DEF Exact
  <2>6. PICK m : m = [kind |-> "DATA", layer |-> l, upd |-> local[s][l]]
    OBVIOUS
  <2>7. SendsAll(s, m)
    BY <1>3, <2>1, <2>6 DEF ApplyUpdate, SendsAll
  <2>8. m.kind = "DATA" => IsBlock(s, m.upd)
    BY <1>3, <1>4, <2>1, <2>2, <2>6 DEF Exact, CopiesOK
  <2>9. AllMuter
    <3>1. \A a \in Server, u \in Server :
            net'[a][u] = IF a = s /\ u # s THEN Append(net[a][u], m) ELSE net[a][u]
      BY <1>1, <2>7, SendsTo
    <3> QED BY <2>8, <3>1 DEF AllMuter, Muter
  <2>10. CopiesOK'
    BY <1>1, <1>2, <1>7, <2>2, <2>9, CopiesStep DEF Exact
  <2> QED BY <2>5, <2>10
<1> QED BY <1>2, <1>7, <1>8, <1>9, StepPull

\* An update that comes is of the round that its receiver waits for, and the first of its
\* sender.
LEMMA UpdateComes ==
  ASSUME Bases, Rounded, Exact, NEW s \in Server, NEW t \in Others(s), NEW k \in Nat, NEW l \in Layer,
         weights[s][l] = Rounds(k), net[t][s] # <<>>, SendsOK(t, net[t][s]),
         Head(net[t][s]).kind = "DATA", Head(net[t][s]).layer = l,
         NEW G, G = ghost[s][l] \cup Head(net[t][s]).upd
  PROVE  G \subseteq Client \X {k} /\ Gets(s, G, ghostUpdCnt[s][l] + 1)
<1>1. conf \in Confs /\ NetOK /\ Wired(net, Server) /\ t \in Server /\ t # s
  BY BasesHave DEF Others
<1>2. PICK q, upd : q = net[t][s] /\ upd = Head(q).upd
  OBVIOUS
<1>3. Stain = {}
  BY DEF Rounded, Stain
<1>4. IsQueue(q) /\ q # <<>> /\ SendsOK(t, q) /\ UpdatesOK(q, Layer, Home(t))
  BY <1>1, <1>2, <1>3 DEF Wired, NetOK
<1>5. PICK j \in Nat : upd = Block(t, j)
  <2>1. Len(q) \in Nat /\ Len(q) >= 1 /\ Head(q) = q[1]
    BY <1>4, RestOfQueue
  <2>2. 1 \in 1..Len(q) /\ q[1].kind = "DATA"
    BY <1>2, <2>1
  <2> QED BY <1>2, <1>4, <2>1, <2>2 DEF SendsOK, IsBlock
<1>6. upd \subseteq Home(t) /\ upd \subseteq OnWay(q, l)
  <2>1. PICK U : U = Home(t)
    OBVIOUS
  <2> QED BY <1>2, <1>4, <2>1, ChanLess
<1>7. HeldAre(t, s, l) /\ <<"net", 0>> \in Stage /\ <<"ghost", 0>> \in Stage
  BY HeldAt, StagesIn
<1>8. \A g \in upd : g \in Held(<<"net", 0>>, t, s, l)
  BY <1>1, <1>2, <1>6, <1>7 DEF HeldAre
<1>9. <<t, j>> \in upd /\ t \in ClientsOf(t)
  BY <1>1, <1>5, BlockIs
<1>10. j = k
  <2>1. PICK p, g : p = <<"net", 0>> /\ g = <<t, j>>
    OBVIOUS
  <2>2. "net" # "weights"
    OBVIOUS
  <2>3. p # <<"weights", 0>> /\ p \in Stage /\ g \in Held(p, t, s, l)
    BY <1>7, <1>8, <1>9, <2>1, <2>2
  <2>4. g \in Block(t, k)
    BY <1>1, <2>3, HeldRound
  <2> QED BY <2>1, <2>4 DEF Block
<1>11. ghost[s][l] \subseteq Client \X {k}
  BY MatrixRounds
<1>12. G \subseteq Client \X {k}
  <2>1. ClientsOf(t) \subseteq Client
    BY DEF ClientsOf
  <2> QED BY <1>2, <1>5, <1>10, <1>11, <2>1 DEF Block
<1>13. PICK T \in SUBSET Others(s) :
         /\ Cardinality(T) = ghostUpdCnt[s][l]
         /\ \A u \in T : \E i \in Nat : Block(u, i) \subseteq ghost[s][l]
  BY DEF Exact, GhostsOK, Gets
<1>14. t \notin T
  <2> SUFFICES ASSUME t \in T
               PROVE  FALSE
    OBVIOUS
  <2>1. PICK i \in Nat : Block(t, i) \subseteq ghost[s][l]
    BY <1>13
  <2>2. i = k
    BY <1>1, <1>11, <2>1, BlockHeld
  <2>3. <<t, k>> \in ghost[s][l] /\ <<t, k>> \in upd
    BY <1>1, <1>9, <1>10, <2>1, <2>2, BlockIs
  <2>4. <<t, k>> \in Held(<<"ghost", 0>>, t, s, l) /\ <<t, k>> \in Held(<<"net", 0>>, t, s, l)
    BY <1>1, <1>6, <1>7, <1>8, <2>3 DEF HeldAre
  <2>5. OnePlace(t, s, l)
    BY <1>1, TrackHas DEF Track, Rounded
  <2>6. <<"ghost", 0>> = <<"net", 0>>
    BY <1>7, <2>4, <2>5 DEF OnePlace
  <2>7. "ghost" # "net"
    OBVIOUS
  <2> QED BY <2>6, <2>7
<1>15. PICK Z, n : Z = T \cup {t} /\ n = ghostUpdCnt[s][l]
  OBVIOUS
<1>16. Cardinality(Z) = n + 1
  <2>1. IsFiniteSet(Server) /\ T \subseteq Server
    BY <1>1, ServerFacts DEF Others
  <2>2. IsFiniteSet(T)
    BY <2>1, FS_Subset
  <2>3. Cardinality(T \cup {t}) = Cardinality(T) + 1
    BY <1>14, <2>2, FS_AddElement
  <2> QED BY <1>13, <1>15, <2>3
<1>17. ASSUME NEW u \in Z
       PROVE  \E i \in Nat : Block(u, i) \subseteq G
  BY <1>2, <1>5, <1>13, <1>15
<1>18. Gets(s, G, n + 1)
  <2>1. Z \in SUBSET Others(s)
    BY <1>15
  <2> QED BY <1>16, <1>17, <2>1 DEF Gets
<1> QED BY <1>12, <1>15, <1>18

LEMMA RecvDataPull ==
  ASSUME AckInv, Bases, PullInv, NEW s \in Server, NEW t \in Others(s), RecvData(s, t)
  PROVE  PullInv'
<1>1. conf \in Confs /\ Wired(net, Server) /\ NetOK /\ t \in Server /\ t # s /\ boot[0] = "up"
  <2>1. Receive(s)
    BY DEF Receive
  <2> QED BY <2>1, BasesHave, EarlyReceiveNone DEF Others
<1>2. UNCHANGED <<conf, boot, main, pulled, queue, busy, flaws>> /\ conf' = conf
  BY DEF RecvData, started, clients, requests
<1>3. AllDuller /\ NewBlocks
  BY <1>2, BusyStill DEF AllDuller, Duller
<1>4. FirstOK'
  BY <1>1, <1>2, FirstSame DEF PullInv
<1>5. AllMuter
  <2>1. PICK ack : ack = [kind |-> "ACK"]
    OBVIOUS
  <2>2. \A a \in Server, u \in Server :
          net'[a][u] = IF a = t /\ u = s THEN Tail(net[a][u])
                       ELSE IF a = s /\ u = t THEN Append(net[a][u], ack) ELSE net[a][u]
    BY <1>1, <2>1, UpdateRead
  <2>3. ack.kind # "DATA" /\ net[t][s] # <<>>
    BY <2>1 DEF RecvData, Receives
  <2> QED BY <2>2, <2>3 DEF AllMuter, Muter
<1>6. ASSUME Clean'
      PROVE  Grown /\ LevelsOK' /\ GhostsOK' /\ CopiesOK'
  <2>1. Clean
    BY <1>2, <1>6 DEF Clean
  <2>2. Rounded /\ Exact
    BY <2>1 DEF PullInv, Clean, Exact, Rounded
  <2>3. CopiesOK'
    BY <1>1, <1>2, <1>3, <1>5, <2>2, CopiesStep DEF Exact
  <2>4. PICK l, G, n : /\ l = Head(net[t][s]).layer /\ G = ghost[s][l] \cup Head(net[t][s]).upd
                       /\ n = ghostUpdCnt[s][l] + 1
    OBVIOUS
  <2>5. /\ net[t][s] # <<>> /\ Head(net[t][s]).kind = "DATA"
        /\ \/ TryApplyUpdate(s, l, G, n)
           \/ KeepGhost(s, l, G, n) /\ UNCHANGED <<tot, local, weights, epoch>>
    BY <2>4 DEF RecvData, Receives
  <2>6. l \in Layer
    <3>1. PICK U : U = Home(t) \cup Stain
      OBVIOUS
    <3>2. IsQueue(net[t][s]) /\ UpdatesOK(net[t][s], Layer, U)
      BY <1>1, <3>1 DEF Wired, NetOK
    <3> QED BY <2>4, <2>5, <3>2, ChanLess
  <2>7. PICK k \in Nat : weights[s][l] = Rounds(k)
    BY <2>1, <2>6, RoundNext
  <2>8. SendsOK(t, net[t][s])
    BY <1>1, <2>2 DEF Exact, CopiesOK
  <2>9. G \subseteq Client \X {k} /\ Gets(s, G, n)
    <3>1. Head(net[t][s]).layer = l /\ G = ghost[s][l] \cup Head(net[t][s]).upd
      BY <2>4
    <3>2. G \subseteq Client \X {k} /\ Gets(s, G, ghostUpdCnt[s][l] + 1)
      BY <2>2, <2>5, <2>6, <2>7, <2>8, <3>1, UpdateComes
    <3> QED BY <2>4, <3>2
  <2> QED BY <1>2, <2>2, <2>3, <2>5, <2>6, <2>7, <2>9, TryKeeps DEF Exact
<1> QED BY <1>2, <1>3, <1>4, <1>6, StepPull

(* The start.                                                              *)

LEMMA SetUpPull ==
  ASSUME Bases, PullInv, SetUp, flaws \subseteq flaws', FirstOK',
         boot'[0] = "up" => \A s \in Server, u \in Server : SendsOK(s, net'[s][u]),
         Clean' => \A s \in Server, l \in Layer : weights'[s][l] = weights[s][l]
  PROVE  PullInv'
<1>1. UNCHANGED <<conf, main, pulled, queue, busy, ghost, ghostUpdCnt, epoch>> /\ conf' = conf
  BY DEF SetUp, clients, requests
<1>2. AllDuller
  BY <1>1 DEF AllDuller, Duller
<1>3. ASSUME Clean'
      PROVE  Grown /\ LevelsOK' /\ GhostsOK' /\ CopiesOK'
  <2>1. Exact
    BY <1>1, <1>3 DEF Clean, PullInv
  <2>2. \A s \in Server, l \in Layer : weights'[s][l] = weights[s][l]
    BY <1>3
  <2>3. Grown
    BY <2>2 DEF Grown
  <2>4. LevelsOK'
    <3>1. ASSUME NEW s \in Server
          PROVE  \E k : LevelAt(s, k)'
      <4>1. PICK k : LevelAt(s, k)
        BY <2>1 DEF Exact, LevelsOK
      <4>2. LevelAt(s, k)'
        BY <1>1, <2>2, <4>1, RoundsSame DEF LevelAt
      <4> QED BY <4>2
    <3> QED BY <1>1, <2>1, <3>1, RoundsSame DEF Exact, LevelsOK
  <2>5. GhostsOK'
    BY <1>1, <2>1, GhostsSame DEF Exact
  <2>6. CopiesOK'
    <3>1. \A s \in Server, w \in Worker : busy[s][w].at = "apply" => IsBlock(s, busy[s][w].closed)
      BY <2>1 DEF Exact, CopiesOK
    <3>2. Server' = Server /\ Worker' = Worker /\ \A s, S : IsBlock(s, S)' <=> IsBlock(s, S)
      BY <1>1, RoundsSame
    <3>3. ( \A s \in Server, w \in Worker : busy[s][w].at = "apply" => IsBlock(s, busy[s][w].closed) )'
      BY <1>1, <3>1, <3>2
    <3>4. ( boot[0] = "up" => \A s \in Server, u \in Server : SendsOK(s, net[s][u]) )'
      <4>1. \A s, q : SendsOK(s, q)' <=> SendsOK(s, q)
        BY <1>1, RoundsSame
      <4>2. ASSUME boot'[0] = "up", NEW s \in Server, NEW u \in Server
            PROVE  SendsOK(s, net[s][u])'
        <5>1. SendsOK(s, net'[s][u])
          BY <4>2
        <5> QED BY <3>2, <5>1 DEF SendsOK
      <4> QED BY <3>2, <4>2
    <3> QED BY <3>3, <3>4 DEF CopiesOK
  <2> QED BY <2>3, <2>4, <2>5, <2>6
<1> QED BY <1>1, <1>2, <1>3, StepPull

\* The weights are behind INITDONE.
LEMMA MasterPull ==
  ASSUME AckInv, Bases, PullInv, MasterStarts
  PROVE  PullInv'
<1>1. boot[0] # "up"
  BY StartedNoStart
<1>2. /\ 0 \in Server /\ Others(0) = Server \ {0} /\ Wired(net, Server) /\ DOMAIN boot = Server
      /\ \A s \in Server, t \in Server : IsQueue(net[s][t]) /\ Len(net[s][t]) \in Nat
  BY <1>1, EarlyFacts
<1>3. SetUp /\ flaws \subseteq flaws' /\ weights' = weights /\ conf' = conf
  BY DEF MasterStarts, PollServers, CountServers, CountAcks, SetUp
<1>4. FirstOK
  BY DEF PullInv
<1>5. Others(0)' = Others(0)
  BY <1>3, RoundsSame
<1>6. FirstOK' /\ (boot'[0] = "up" => \A s \in Server, u \in Server : SendsOK(s, net'[s][u]))
  <2>1. CASE boot'[0] \in {"polls", "sleeps"}
    BY <2>1 DEF FirstOK
  <2>2. CASE CountServers /\ boot'[0] \notin {"polls", "sleeps"}
    <3>1. PICK a, d : a = [kind |-> "INITDONE"] /\ d = [kind |-> "DATA", layer |-> 0, upd |-> {}]
      OBVIOUS
    <3>2. /\ boot' = [boot EXCEPT ![0] = "acks"]
          /\ net' = [t \in Server |-> [u \in Server |->
                 IF u = 0 THEN <<>>
                 ELSE IF t = 0 THEN net[t][u] \o <<a>> \o <<d>> ELSE net[t][u]]]
      BY <1>2, <2>2, <3>1 DEF CountServers, Booted, FirstWeights
    <3>3. boot'[0] = "acks"
      BY <1>2, <3>2
    <3>4. ASSUME NEW s \in Others(0)
          PROVE  net'[0][s] # <<>> /\ net'[0][s][Len(net'[0][s])].kind = "DATA"
      <4>1. PICK q, x, r : q = net[0][s] /\ x = Append(q, a) /\ r = Append(x, d)
        OBVIOUS
      <4>2. IsQueue(q) /\ IsQueue(x) /\ IsQueue(r) /\ Len(x) \in Nat /\ Len(r) = Len(x) + 1
            /\ r[Len(x) + 1] = d
        <5>1. IsQueue(q)
          BY <1>2, <4>1
        <5>2. IsQueue(x)
          BY <4>1, <5>1, QueueAppend
        <5> QED BY <4>1, <5>1, <5>2, QueueAppend, QueueLen
      <4>3. net'[0][s] = r
        <5>1. net'[0][s] = q \o <<a>> \o <<d>>
          BY <1>2, <3>2, <4>1
        <5>2. q \o <<a>> = x
          BY <4>1, <4>2, QueueConcat
        <5>3. x \o <<d>> = r
          BY <4>1, <4>2, QueueConcat
        <5> QED BY <5>1, <5>2, <5>3
      <4>4. r # <<>>
        BY <4>2, QueueNone
      <4>5. r[Len(r)] = d /\ d.kind = "DATA"
        BY <3>1, <4>2
      <4> QED BY <4>3, <4>4, <4>5
    <3> QED BY <1>5, <3>3, <3>4 DEF FirstOK
  <2>3. CASE CountAcks
    <3>1. boot[0] = "acks"
      BY <2>3 DEF CountAcks, Boots
    <3>2. CASE remaining = 0 /\ Booted(0, "up") /\ net' = net
      <4>1. boot'[0] = "up"
        BY <1>2, <3>2 DEF Booted
      <4>2. ASSUME NEW s \in Server, NEW u \in Server
            PROVE  SendsOK(s, net'[s][u])
        <5>1. PICK q : q = net[s][u]
          OBVIOUS
        <5>2. Places(q, "DATA") = {} /\ DOMAIN q = 1..Len(q)
          BY <1>2, <3>1, <3>2, <5>1, AllAnswered, QueueLen
        <5>3. SendsOK(s, q)
          BY <5>2 DEF SendsOK, Places
        <5> QED BY <3>2, <5>1, <5>3
      <4> QED BY <4>1, <4>2 DEF FirstOK
    <3>3. ASSUME NEW t \in Server, net' = [net EXCEPT ![t][0] = Tail(@)], boot' = boot
          PROVE  FirstOK' /\ boot'[0] # "up"
      <4>1. PICK z, r : z = Tail(net[t][0]) /\ r = net'
        OBVIOUS
      <4>2. r = [net EXCEPT ![t][0] = z]
        BY <3>3, <4>1
      <4>3. \A u \in Server, v \in Server : r[u][v] = IF u = t /\ v = 0 THEN z ELSE net[u][v]
        BY <1>2, <4>2, TwoLevels DEF Wired
      <4>4. \A s \in Others(0) : net'[0][s] = net[0][s]
        BY <1>2, <4>1, <4>3
      <4> QED BY <1>1, <1>4, <1>5, <3>3, <4>4 DEF FirstOK
    <3> QED BY <2>3, <3>2, <3>3 DEF CountAcks
  <2>4. CASE PollServers
    BY <1>2, <2>1, <2>4 DEF PollServers, Booted
  <2> QED BY <2>1, <2>2, <2>3, <2>4 DEF MasterStarts
<1> QED BY <1>3, <1>6, SetUpPull

\* The first weights are those that there are.
LEMMA FirstTaken ==
  ASSUME AckInv, boot[0] # "up", Bases, PullInv, Clean, NEW s \in Others(0), boot[s] = "weights",
         net[0][s] # <<>>
  PROVE  /\ Head(net[0][s]).kind = "DATA" /\ Head(net[0][s]).upd = {}
         /\ \A l \in Layer : weights[s][l] = {}
<1>1. 0 \in Server /\ s \in Server /\ s # 0 /\ conf \in Confs /\ NetOK /\ AppInv
  BY BasesHave, ServerFacts DEF Others
<1>2. PICK q : q = net[0][s]
  OBVIOUS
<1>3. StartNet /\ IsQueue(q)
  BY <1>1, <1>2, EarlyFacts
<1>4. boot[0] = "acks" /\ Len(q) = 1
  BY <1>2, <1>3 DEF StartNet, MasterSent
<1>5. q[1].kind = "DATA" /\ Head(q) = q[1] /\ q # <<>>
  <2>1. q[Len(q)].kind = "DATA"
    BY <1>2, <1>4 DEF PullInv, FirstOK
  <2> QED BY <1>2, <1>3, <1>4, <2>1, RestOfQueue
<1>6. Head(q).upd = {}
  <2>1. Head(q).upd \subseteq {Torn}
    BY <1>2, <1>5, FirstNone
  <2>2. PICK U : U = Home(0)
    OBVIOUS
  <2>3. UpdatesOK(q, Layer, U)
    <3>1. Stain = {}
      BY DEF Clean, Stain
    <3> QED BY <1>1, <1>2, <2>2, <3>1 DEF NetOK
  <2>4. Head(q).upd \subseteq U
    BY <1>3, <1>5, <2>3, ChanLess
  <2>5. Torn \notin U
    BY <1>1, <2>2, TornApart
  <2> QED BY <2>1, <2>4, <2>5
<1>7. ASSUME NEW l \in Layer
      PROVE  weights[s][l] = {}
  <2>1. PICK k \in Nat : weights[s][l] = Rounds(k)
    BY <1>1, RoundNext
  <2>2. weights[s][l] \cap Home(s) = {}
    <3>1. <<"weights", 0>> \in Stage /\ HeldAre(s, s, l)
      BY StagesIn, HeldAt
    <3>2. Held(<<"weights", 0>>, s, s, l) = {}
      BY <1>1, <3>1, EarlyNone
    <3> QED BY <3>1, <3>2 DEF HeldAre
  <2>3. k = 0
    <3> SUFFICES ASSUME k # 0
                 PROVE  FALSE
      OBVIOUS
    <3>1. s \in Client /\ ServerOf(s) = s
      BY <1>1, BlockIs DEF ClientsOf
    <3>2. PICK j : j = 0
      OBVIOUS
    <3>3. conf.epochs \in Nat \ {0}
      BY <1>1, ServersOK
    <3>4. <<s, j>> \in Home(s)
      BY <3>1, <3>2, <3>3 DEF Home, Grad
    <3>5. <<s, j>> \in Rounds(k)
      BY <2>1, <3>1, <3>2 DEF Rounds
    <3> QED BY <2>1, <2>2, <3>4, <3>5
  <2> QED BY <2>1, <2>3 DEF Rounds
<1> QED BY <1>2, <1>5, <1>6, <1>7

LEMMA StartsPull ==
  ASSUME AckInv, Bases, PullInv, NEW s \in Others(0), Starts(s)
  PROVE  PullInv'
<1>1. boot[0] # "up" /\ s # 0 /\ s \in Server /\ 0 \in Server /\ Others(0) = Server \ {0} /\ DOMAIN boot = Server
      /\ StartNet /\ \A u \in Server, v \in Server : IsQueue(net[u][v])
  BY StartedNoStart, EarlyFacts DEF Others
<1>2. PICK t \in Others(s) : HearMaster(s, t) \/ HearDone(s, t) \/ TakeWeights(s, t)
  BY DEF Starts
<1>3. SetUp /\ flaws \subseteq flaws' /\ conf' = conf
  BY <1>2 DEF HearMaster, HearDone, TakeWeights, SetUp
<1>4. PICK m : Hears(s, t) /\ Answers(s, t, m)
  BY <1>2 DEF HearMaster, HearDone, TakeWeights
<1>5. /\ t = 0 /\ net[0][s] # <<>> /\ net'[0][s] = Tail(net[0][s])
      /\ \A u \in Server, v \in Server : <<u, v>> \notin {<<0, s>>, <<s, 0>>} => net'[u][v] = net[u][v]
  BY <1>1, <1>4, AnswerNet
<1>6. boot'[0] = boot[0] /\ \A u \in Others(0) : u # s => boot'[u] = boot[u]
  BY <1>1, <1>2 DEF HearMaster, HearDone, TakeWeights, Booted
<1>7. boot'[s] # "up" => boot[s] \in {"waits", "ready"}
  BY <1>1, <1>2 DEF HearMaster, HearDone, TakeWeights, Booted, Boots
<1>8. FirstOK'
  <2>1. ASSUME NEW u \in Others(0), boot'[0] = "acks", boot'[u] # "up"
        PROVE  net'[0][u] # <<>> /\ net'[0][u][Len(net'[0][u])].kind = "DATA"
    <3>1. CASE u # s
      <4>1. net'[0][u] = net[0][u] /\ boot[u] # "up" /\ boot[0] = "acks"
        BY <1>1, <1>5, <1>6, <2>1, <3>1
      <4> QED BY <4>1 DEF PullInv, FirstOK
    <3>2. CASE u = s
      <4>1. PICK q, z : q = net[0][s] /\ z = Tail(q)
        OBVIOUS
      <4>2. boot[s] \in {"waits", "ready"} /\ boot[0] = "acks"
        BY <1>6, <1>7, <2>1, <3>2
      <4>3. boot[s] # "up" /\ boot[s] # "weights"
        BY <4>2
      <4>4. Len(q) >= 2
        BY <1>1, <4>1, <4>2, <4>3 DEF StartNet, MasterSent
      <4>5. q[Len(q)].kind = "DATA"
        BY <4>1, <4>2, <4>3 DEF PullInv, FirstOK
      <4>6. /\ IsQueue(z) /\ Len(q) \in Nat /\ Len(z) = Len(q) - 1
            /\ \A i \in 1..Len(q) - 1 : z[i] = q[i + 1]
        BY <1>1, <1>5, <4>1, RestOfQueue
      <4>7. PICK n : n = Len(q)
        OBVIOUS
      <4>8. Len(z) = n - 1 /\ n - 1 \in 1..n - 1 /\ (n - 1) + 1 = n
        BY <4>4, <4>6, <4>7
      <4>9. z[n - 1] = q[(n - 1) + 1]
        BY <4>6, <4>7, <4>8
      <4>10. z[Len(z)].kind = "DATA"
        BY <4>5, <4>7, <4>8, <4>9
      <4>11. z # <<>>
        BY <4>6, <4>8, QueueNone
      <4> QED BY <1>5, <3>2, <4>1, <4>10, <4>11
    <3> QED BY <3>1, <3>2
  <2> QED BY <1>3, <2>1, RoundsSame DEF FirstOK
<1>9. ASSUME Clean', NEW u \in Server, NEW l \in Layer
      PROVE  weights'[u][l] = weights[u][l]
  <2>1. CASE weights' = weights
    BY <2>1
  <2>2. CASE TakeWeights(s, t)
    <3>1. Clean /\ boot[s] = "weights"
      BY <1>3, <1>9, <2>2 DEF Clean, TakeWeights, Boots
    <3>2. /\ Head(net[0][s]).kind = "DATA" /\ Head(net[0][s]).upd = {}
          /\ \A j \in Layer : weights[s][j] = {}
      BY <1>1, <1>5, <3>1, FirstTaken
    <3>3. PICK z, r : z = [j \in Layer |-> {}] /\ r = weights'
      OBVIOUS
    <3>4. r = [weights EXCEPT ![s] = z]
      BY <1>5, <2>2, <3>2, <3>3 DEF TakeWeights
    <3>5. DOMAIN weights = Server
      BY BasesHave DEF AppInv, MatricesOK, Matrix
    <3>6. r[u] = IF u = s THEN z ELSE weights[u]
      BY <3>4, <3>5
    <3> QED BY <3>2, <3>3, <3>6
  <2> QED BY <1>2, <2>1, <2>2 DEF HearMaster, HearDone
<1> QED BY <1>1, <1>3, <1>6, <1>8, <1>9, SetUpPull

(* Pulls are exact.                                                        *)

LEMMA PullInit == Init => PullInv
<1> SUFFICES ASSUME Init PROVE PullInv
  OBVIOUS
<1>0. boot[0] = "polls"
  <2>1. 0 \in Server
    BY ServerFacts DEF Init
  <2> QED BY <2>1 DEF Init
<1>1. Lists /\ PaceOK /\ FirstOK
  <2>1. Lists
    BY QueueEmpty DEF Init, Lists
  <2>2. \A c \in Client : main[c] = -1
    BY DEF Init
  <2>3. PaceOK
    BY <2>2 DEF PaceOK, InPace
  <2>4. FirstOK
    BY <1>0 DEF FirstOK
  <2> QED BY <2>1, <2>3, <2>4
<1>2. PullsOK
  <2>1. Len(<<>>) = 0
    BY QueueEmpty
  <2>2. \A s \in Server, w \in Worker : \A i : ~IsPull(queue[s][w], i)
    <3>1. \A s \in Server, w \in Worker : queue[s][w] = <<>>
      BY DEF Init
    <3> QED BY <2>1, <3>1 DEF IsPull
  <2> QED BY <2>2 DEF PullsOK
<1>3. LevelsOK
  <2>1. PICK k : k = [l \in Layer |-> 0]
    OBVIOUS
  <2>2. k \in [Layer -> Nat] /\ k[0] + k[1] = 0 /\ \A l \in Layer : Rounds(k[l]) = {}
    BY <2>1 DEF Layer, Rounds
  <2>3. \A s \in Server : LevelAt(s, k)
    BY <2>2 DEF Init, LevelAt
  <2> QED BY <2>3 DEF Init, LevelsOK
<1>4. GhostsOK
  <2>1. Matrix(ghostUpdCnt)
    BY DEF Init, Matrix
  <2>2. \A s \in Server, l \in Layer : ghost[s][l] = {} /\ ghostUpdCnt[s][l] = 0
    BY DEF Init
  <2> QED BY <2>1, <2>2, GetsNone DEF GhostsOK
<1>5. CopiesOK
  <2>1. \A s \in Server, w \in Worker : busy[s][w].at # "apply"
    BY DEF Init
  <2> QED BY <1>0, <2>1 DEF CopiesOK
<1>6. FloorsOK /\ PulledOK
  BY DEF Init, FloorsOK, PulledOK, Sees
<1> QED BY <1>1, <1>2, <1>3, <1>4, <1>5, <1>6 DEF PullInv, Exact

LEMMA PullKeeps ==
  ASSUME AckInv, RepInv, AppInv, PullInv, [Next]_vars
  PROVE  PullInv'
<1>1. Bases
  BY DEF AckInv, Base, Bases
<1>2. CASE MasterStarts
  BY <1>1, <1>2, MasterPull
<1>3. ASSUME NEW s \in Others(0), Starts(s) PROVE PullInv'
  BY <1>1, <1>3, StartsPull
<1>4. CASE SendInfo \/ Shutdown
  BY <1>1, <1>4, CalmRequests
<1>5. ASSUME NEW c \in Client, Train(c) PROVE PullInv'
  BY <1>1, <1>5, PrefetchPull, PhasesPull, CalmRequests DEF Train
<1>6. ASSUME NEW s \in Server, Receive(s) PROVE PullInv'
  BY <1>1, <1>6, RecvDataPull, CalmReceive DEF Receive
<1>7. ASSUME NEW s \in Server, NEW w \in Worker, Work(s, w) PROVE PullInv'
  <2>1. CASE Pull(s, w)
    BY <1>1, <2>1, PullPull
  <2>2. CASE Push(s, w)
    BY <1>1, <2>2, PushPull
  <2>3. CASE ApplyUpdate(s, w)
    BY <1>1, <2>3, ApplyUpdatePull
  <2>4. CASE Info(s, w) \/ SetTotals(s, w) \/ Terminate(s, w) \/ AcksWait(s, w) \/ Eval(s, w) \/ Report(s, w)
    BY <1>1, <2>4, CalmWork
  <2> QED BY <1>7, <2>1, <2>2, <2>3, <2>4 DEF Work
<1>8. ASSUME NEW t \in Worker \cup {Receiver}, EarlyStop(t) \/ Switch(t) PROVE PullInv'
  BY <1>1, <1>8, CalmStops DEF Threads
<1>9. CASE UNCHANGED vars
  BY <1>1, <1>9, SamePull
<1> QED BY <1>2, <1>3, <1>4, <1>5, <1>6, <1>7, <1>8, <1>9 DEF Next

\* With BLOCK, a pull in the forward pass of an epoch gets weights that have the gradients
\* of all clients for all epochs before, each once, and nothing else, however pulls, pushes
\* and the servers' updates interleave (sendTensors, recvUpdateTensor, applyUpdate and
\* receiver), unless a copy of an update was made while it was being applied.
THEOREM PullsAreExact == Spec => []PullsExact
<1>1. AckInv /\ [Next]_vars => AckInv'
  BY EarlyKeeps, CountingKeeps
<1>2. PullInv => PullsExact
  BY DEF PullInv, Clean, Exact, PulledOK, Rounds, PullsExact
<1>3. Init => AckInv /\ RepInv /\ AppInv /\ PullInv
  BY AckInit, RepInit, AppInit, PullInit
<1>4. AckInv /\ RepInv /\ AppInv /\ PullInv /\ [Next]_vars => (AckInv /\ RepInv /\ AppInv /\ PullInv)'
  BY <1>1, RepKeeps, AppKeeps, PullKeeps
<1> QED BY <1>2, <1>3, <1>4, PTL DEF Spec

=============================================================================
