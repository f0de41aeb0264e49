-------------------------- MODULE ExchangeRoundProofs --------------------------
(***************************************************************************)
(* Theorems about the values that the servers of Exchange send each other, *)
(* for every graph, any number of chunks, layers and epochs.  When a       *)
(* scatter thread of a sync build sets its counters back, it has counted   *)
(* all values of its scatter phase and none of a later one (NoneUncounted):*)
(* RoundInv is what this takes, no server leaves a barrier that another one*)
(* has not entered (Together), a scatter thread knows its direction        *)
(* (DirInv), and each value is in one place between its chunk and the count*)
(* (SendInv).  And a phase reads nothing but values of its own epoch       *)
(* (InputsAreFresh): FreshInv says of the rows of a chunk, of the messages *)
(* on their way and of the ghosts from when to when they hold those of     *)
(* which epoch and scatter phase.  RoundInv and FreshInv hold until a      *)
(* server stops before the last epoch (InStep): its last barrier lets      *)
(* another server go on by itself.  In CPU and GPU builds none does.       *)
(***************************************************************************)
EXTENDS ExchangeProofs

-----------------------------------------------------------------------------
(* The steps that send, store and count nothing, one by one.               *)

LEMMA SilentCalls ==
  ASSUME SendInv, AlignInv, AlignInv', NEW n \in Node,
         Main(n) \/ SchedHalt(n) \/ SchedBarrier(n) \/ SchedUnblock(n)
           \/ BeginBarrier(n) \/ BeginScatter(n) \/ ScatterLeave(n) \/ Check(n)
  PROVE  Silent
<1>1. scatter \in [Node -> {"run", "wait", "woken", "barrier", "reset"}]
  BY DEF AlignInv, AlignTypes
<1>2. ASSUME UNCHANGED <<conf, chunk, place, todo, currEpoch, net, hand, ghostVtcsRecvd, scatter>>
      PROVE  Silent
  BY <1>2, SilentStill DEF Closing
<1>3. CASE Main(n)
  BY <1>2, <1>3 DEF Main, StartBarrier, LoadChunks, EndBarrier, Done, queues, scheduler, scatterer,
                    counters, receivers
<1>4. CASE SchedHalt(n) \/ SchedBarrier(n) \/ SchedUnblock(n)
  BY <1>2, <1>4 DEF SchedHalt, SchedBarrier, SchedUnblock, queues, scheduler, scatterer,
                    counters, receivers
<1>5. CASE BeginBarrier(n) \/ BeginScatter(n)
  BY <1>2, <1>5 DEF BeginBarrier, BeginScatter, queues, scheduler, scatterer, counters, receivers
<1>6. CASE ScatterLeave(n)
  <2>1. /\ UNCHANGED <<conf, chunk, place, todo, currEpoch, net, hand, ghostVtcsRecvd>>
        /\ where[n] = "scatter" /\ scatter' = [scatter EXCEPT ![n] = "reset"]
    BY <1>6 DEF ScatterLeave, Leave, queues, scheduler, counters, receivers
  <2>2. scatter[n] = "barrier"
    <3>1. stage[n] = "running" /\ \E s \in 0..Scatters : Running(n, s)
      BY <2>1, SiteFacts
    <3> QED BY <2>1, <3>1 DEF Running, Blocking
  <2>3. \A m \in Node : Closing(m)' <=> Closing(m)
    BY <1>1, <2>1, <2>2 DEF Closing
  <2> QED BY <2>1, <2>3, SilentStill
<1>7. CASE Check(n)
  <2>1. /\ UNCHANGED <<conf, chunk, place, todo, currEpoch, net, hand, ghostVtcsRecvd>>
        /\ \E s \in {scatter[n], "woken"} : /\ scatter' = [scatter EXCEPT ![n] = s]
                                            /\ s # scatter[n] => scatter[n] = "wait"
    BY <1>7 DEF Check, queues, scheduler, counters
  <2>2. \A m \in Node : Closing(m)' <=> Closing(m)
    BY <1>1, <2>1 DEF Closing
  <2> QED BY <2>1, <2>2, SilentStill
<1> QED BY <1>3, <1>4, <1>5, <1>6, <1>7

LEMMA SilentWork ==
  ASSUME SendInv, AlignInv, AlignInv', NEW n \in Node, NEW i \in ChunkId, Work(n, i)
  PROVE  Silent
<1>1. PICK q \in {"GA", "AV", "SC", "sch"} : \E c : Send(n, i, q, c)
  BY DEF Work, Gather, ApplyVertex, ApplyEdge
<1>2. /\ Steady /\ UNCHANGED <<conf, todo, net, hand, ghostVtcsRecvd, entered>>
      /\ place[n][i] \in {"AE", "GA", "AV"} /\ InQueue(n, i, place[n][i])
  BY DEF Work, Gather, ApplyVertex, ApplyEdge, Steady, run, scheduler, scatterer, counters, receivers, InQueue
<1>3. todo[n][i] = {}
  BY <1>2 DEF SendInv, TodoAt
<1>4. q \in Place /\ (q \in Scattered <=> place[n][i] \in Scattered)
  BY <1>1, <1>2 DEF Place, Scattered
<1> QED BY <1>1, <1>2, <1>3, <1>4, SilentMoved

LEMMA SilentPass ==
  ASSUME SendInv, AlignInv, AlignInv', NEW n \in Node, NEW i \in ChunkId,
         SchedPass(n, i) \/ Count(n, i) \/ ScatterStash(n, i)
  PROVE  Silent
<1>1. CASE SchedPass(n, i)
  <2>1. /\ Send(n, i, FirstQueue, chunk[n][i]) /\ Steady
        /\ UNCHANGED <<conf, todo, net, hand, ghostVtcsRecvd, entered>>
        /\ place[n][i] = "sch" /\ InQueue(n, i, place[n][i])
    BY <1>1 DEF SchedPass, Schedulable, Steady, run, scheduler, scatterer, counters, receivers, InQueue
  <2>2. todo[n][i] = {}
    BY <2>1 DEF SendInv, TodoAt
  <2>3. FirstQueue \in Place /\ (FirstQueue \in Scattered <=> place[n][i] \in Scattered)
    BY <2>1 DEF Place, Scattered, FirstQueue
  <2> QED BY <2>1, <2>2, <2>3, SilentMoved
<1>2. CASE Count(n, i)
  <2>1. /\ Send(n, i, "send", chunk[n][i]) /\ Steady
        /\ UNCHANGED <<conf, todo, net, hand, ghostVtcsRecvd, entered>>
        /\ place[n][i] = "count" /\ InQueue(n, i, place[n][i])
    BY <1>2 DEF Count, Steady, run, scheduler, scatterer, receivers, InQueue
  <2>2. "send" \in Place /\ ("send" \in Scattered <=> place[n][i] \in Scattered)
    BY <2>1 DEF Place, Scattered
  <2> QED BY <2>1, <2>2, SilentMoved
<1>3. CASE ScatterStash(n, i)
  <2>1. /\ Send(n, i, "stash", chunk[n][i]) /\ Steady /\ todo[n][i] = {}
        /\ UNCHANGED <<conf, todo, net, hand, ghostVtcsRecvd, entered>>
        /\ place[n][i] = "send" /\ InQueue(n, i, place[n][i])
    BY <1>3 DEF ScatterStash, Steady, run, scheduler, scatterer, counters, receivers, InQueue
  <2>2. "stash" \in Place /\ ("stash" \in Scattered <=> place[n][i] \in Scattered)
    BY <2>1 DEF Place, Scattered
  <2> QED BY <2>1, <2>2, SilentMoved
<1> QED BY <1>1, <1>2, <1>3

\* The first chunk of an epoch: no scatter phase is behind it, the round is the same.
LEMMA StartGap ==
  ASSUME AlignInv, AlignInv', NEW n \in Node, NEW i \in ChunkId, SchedStart(n, i)
  PROVE  /\ Gap(n) = Scatters /\ Gap(n)' = 0 /\ currEpoch'[n] = currEpoch[n] + 1
         /\ ~Closing(n) /\ \A j \in ChunkId : place[n][j] = "sch"
<1>1. /\ UNCHANGED <<conf, stage, where, entered, scatter, scBlock>>
      /\ schBlock' = [schBlock EXCEPT ![n] = TRUE] /\ ~schBlock[n]
      /\ currEpoch' = [currEpoch EXCEPT ![n] = @ + 1]
      /\ stage[n] = "running" /\ where[n] = ""
  BY DEF SchedStart, Schedulable, InQueue, run
<1>2. GapOK(n) /\ conf \in Confs /\ schBlock \in [Node -> BOOLEAN] /\ currEpoch \in [Node -> 0..conf.numEpochs]
  BY Gaps, AlignFacts DEF GapsOK, AlignInv, AlignTypes
<1>3. Running(n, Gap(n)) /\ Gap(n) \in 0..Scatters /\ currEpoch[n] \in Nat
  BY <1>1, <1>2 DEF GapOK
<1>4. AllNext(n) /\ \A j \in ChunkId : place[n][j] = "sch"
  BY <1>1, <1>3 DEF Running, Blocking, AllNext
<1>5. i \in ChunkId /\ chunk[n][i].epoch = currEpoch[n] + 1 /\ currEpoch[n] # currEpoch[n] + 1
  BY <1>3, <1>4 DEF AllNext
<1>6. Gap(n) = Scatters
  BY <1>3, <1>4, <1>5 DEF Running, ChunkAt, Scattered
<1>7. scatter[n] = "run" /\ scBlock[n]
  BY <1>3, <1>4, <1>5 DEF Running, Blocking, Scattered
<1>8. Extra(n) = 1
  BY <1>1 DEF Extra
<1>9. schBlock'[n] /\ currEpoch'[n] = currEpoch[n] + 1
  BY <1>1, <1>2
<1>10. Extra(n)' = 0
  BY <1>1, <1>7, <1>9 DEF Extra
<1>11. Node' = Node /\ Scatters' = Scatters /\ \A e, s : Base(e, s)' = Base(e, s)
  BY <1>1, ConfSame
<1>12. GapOK(n)'
  BY <1>11, GapsNext DEF GapsOK
<1>13. PICK t : t = Gap(n)'
  OBVIOUS
<1>14. PICK e : e = currEpoch[n]
  OBVIOUS
<1>15. t \in 0..Scatters /\ entered[n] = Base(e + 1, t)' + Extra(n)'
  BY <1>1, <1>9, <1>11, <1>12, <1>13, <1>14 DEF GapOK, Running
<1>16. e \in Nat /\ Base(e + 1, t)' = Base(e + 1, t)
  BY <1>3, <1>11, <1>14
<1>17. entered[n] = Base(e, Scatters) + 1
  BY <1>3, <1>6, <1>8, <1>14 DEF Running
<1>18. Base(e + 1, t) = Base(e + 1, 0)
  <2>1. Base(e + 1, 0) = Base(e, Scatters) + 1
    BY <1>2, <1>16, BaseFacts
  <2>2. Base(e + 1, t) \in Int /\ entered[n] = Base(e + 1, t) + 0
    BY <1>2, <1>10, <1>15, <1>16, BaseFacts
  <2> QED BY <1>17, <2>1, <2>2, AddZero
<1>19. t = 0
  <2>1. 0 \in 0..Scatters /\ e + 1 \in Nat
    BY <1>2, <1>16, ScatterFacts
  <2> QED BY <1>2, <1>15, <1>18, <2>1, BarsApart
<1> QED BY <1>4, <1>6, <1>7, <1>9, <1>13, <1>19 DEF Closing

LEMMA SilentStart ==
  ASSUME SendInv, AlignInv, AlignInv', NEW n \in Node, NEW i \in ChunkId, SchedStart(n, i)
  PROVE  Silent
<1>1. /\ UNCHANGED <<conf, todo, net, hand, ghostVtcsRecvd, scatter>>
      /\ currEpoch' = [currEpoch EXCEPT ![n] = @ + 1]
      /\ Send(n, i, FirstQueue, chunk[n][i])
  BY DEF SchedStart, counters, receivers
<1>2. /\ chunk \in [Node -> [ChunkId -> Chunk]] /\ place \in [Node -> [ChunkId -> Place]]
      /\ currEpoch \in [Node -> 0..conf.numEpochs] /\ conf \in Confs /\ conf.numEpochs \in Nat
  BY AlignFacts, ScatterFacts DEF AlignInv, AlignTypes
<1>3. /\ Gap(n) = Scatters /\ Gap(n)' = 0 /\ currEpoch'[n] = currEpoch[n] + 1
      /\ ~Closing(n) /\ \A j \in ChunkId : place[n][j] = "sch"
  BY StartGap
<1>4. /\ \A m \in Node \ {n} : place'[m] = place[m] /\ chunk'[m] = chunk[m] /\ currEpoch'[m] = currEpoch[m]
      /\ \A j \in ChunkId : place'[n][j] \in {"sch", "GA", "AV"}
  BY <1>1, <1>2, <1>3 DEF Send, FirstQueue
<1>5. \A m \in Node : Closing(m)' <=> Closing(m)
  BY <1>1 DEF Closing
<1>6. \A m \in Node \ {n} : RoundSame(m)
  BY <1>1, <1>4, <1>5, GapSame, RoundStays
<1>7. RoundSame(n)
  <2>1. Scatters' = Scatters /\ ChunkId' = ChunkId /\ Scatters \in Nat /\ Scatters > 1 /\ currEpoch[n] \in Nat
    BY <1>1, <1>2, ConfSame, ScatterFacts
  <2>2. Passed(n) = (currEpoch[n] - 1) * Scatters + Scatters
    BY <1>3 DEF Passed
  <2>3. Passed(n)' = currEpoch[n] * Scatters + 0
    <3>1. Passed(n)' = (currEpoch[n] + 1 - 1) * Scatters + 0
      BY <1>3, <2>1 DEF Passed
    <3> QED BY <2>1, <3>1
  <2>4. Passed(n)' = Passed(n)
    BY <2>1, <2>2, <2>3
  <2>5. ExpectedDir(n)' = ExpectedDir(n)
    <3>1. After(Gap(n))' = 1 /\ After(Gap(n)) = 1
      BY <1>3, <2>1 DEF After
    <3>2. ExpectedDir(n) = DirOf(After(Gap(n)))
      BY <1>3 DEF ExpectedDir
    <3>3. ExpectedDir(n)' = DirOf(After(Gap(n)))'
      BY <1>3, <1>5 DEF ExpectedDir
    <3>4. DirOf(After(Gap(n)))' = DirOf(After(Gap(n)))
      BY <1>1, <3>1 DEF DirOf, Turn
    <3> QED BY <3>2, <3>3, <3>4
  <2>6. \A j \in ChunkId : Begun(n, j)' = Begun(n, j)
    BY <1>3, <1>4, <2>4 DEF Begun, Scattered
  <2> QED BY <1>3, <1>5, <2>4, <2>5, <2>6 DEF RoundSame
<1>8. \A m \in Node, j \in ChunkId : place'[m][j] \in {"send", "count"} \/ todo[m][j] = {}
  BY <1>3, <1>4 DEF SendInv, TodoAt
<1> QED BY <1>1, <1>6, <1>7, <1>8 DEF Silent

-----------------------------------------------------------------------------
(* The values of a round: each has one sender, and one chunk there.        *)

LEMMA GhostFacts ==
  ASSUME conf \in Confs, NEW n \in Node, NEW dir
  PROVE  /\ IsFiniteSet(Ghosts(conf.graph, n, dir))
         /\ \A m \in Node : \A v \in GhostMap(conf.graph, m, n, dir) :
              /\ m # n /\ v \in Ghosts(conf.graph, n, dir) /\ conf.graph.part[v] = m
              /\ \E j \in ChunkId : Holds(m, j, v)
         /\ \A v \in Ghosts(conf.graph, n, dir) :
              \E m \in Node \ {n} : v \in GhostMap(conf.graph, m, n, dir)
<1>1. IsGraph(conf.graph) /\ conf.numLambdas \in Nat \ {0}
  BY ConfFacts
<1>2. IsFiniteSet(Ghosts(conf.graph, n, dir))
  BY <1>1, GhostsAreVertices
<1>3. /\ Arcs(conf.graph) \subseteq Vertices(conf.graph) \X Vertices(conf.graph)
      /\ \A e \in Arcs(conf.graph) : conf.graph.part[e[1]] \in Servers(conf.graph)
                                     /\ conf.graph.part[e[2]] \in Servers(conf.graph)
  BY <1>1, ArcsOfVertices
<1>4. ASSUME NEW m \in Node, NEW v \in GhostMap(conf.graph, m, n, dir)
      PROVE  m # n /\ v \in Ghosts(conf.graph, n, dir) /\ conf.graph.part[v] = m /\ v \in Vertices(conf.graph)
  <2>1. CASE dir = "FORWARD"
    <3>1. PICK e \in Arcs(conf.graph) : /\ v = e[1] /\ conf.graph.part[e[1]] = m
                                        /\ conf.graph.part[e[2]] = n /\ n # m
      BY <2>1 DEF GhostMap, ForwardDsts
    <3>2. e[1] \in Vertices(conf.graph)
      BY <1>3
    <3> QED BY <2>1, <3>1, <3>2 DEF Ghosts, InEdgeGhosts
  <2>2. CASE dir # "FORWARD"
    <3>1. PICK e \in Arcs(conf.graph) : /\ v = e[2] /\ conf.graph.part[e[2]] = m
                                        /\ conf.graph.part[e[1]] = n /\ n # m
      BY <2>2 DEF GhostMap, BackwardDsts
    <3>2. e[2] \in Vertices(conf.graph)
      BY <1>3
    <3> QED BY <2>2, <3>1, <3>2 DEF Ghosts, OutEdgeGhosts
  <2> QED BY <2>1, <2>2
<1>5. ASSUME NEW m \in Node, NEW v \in GhostMap(conf.graph, m, n, dir)
      PROVE  \E j \in ChunkId : Holds(m, j, v)
  <2>1. v \in Local(conf.graph, m)
    BY <1>4 DEF Local
  <2>2. LocalId(conf.graph, m, v) \in 0..LocalVtxCnt(conf.graph, m) - 1
    BY <2>1, RowsFacts
  <2>3. LocalVtxCnt(conf.graph, m) \in Nat
    <3>1. IsFiniteSet(Local(conf.graph, m))
      BY <1>1, FS_Subset DEF IsGraph, Local
    <3> QED BY <3>1, FS_CardinalityType DEF LocalVtxCnt
  <2>4. ChunksCover(LocalVtxCnt(conf.graph, m), conf.numLambdas)
    BY <1>1, <2>3, ChunksShareOut
  <2> QED BY <2>2, <2>4 DEF ChunksCover, Holds, Rows, ChunkId
<1>6. ASSUME NEW v \in Ghosts(conf.graph, n, dir)
      PROVE  \E m \in Node \ {n} : v \in GhostMap(conf.graph, m, n, dir)
  <2>1. CASE dir = "FORWARD"
    <3>1. PICK e \in Arcs(conf.graph) : /\ v = e[1] /\ conf.graph.part[e[2]] = n
                                        /\ conf.graph.part[e[1]] # n
      BY <2>1 DEF Ghosts, InEdgeGhosts
    <3>2. conf.graph.part[e[1]] \in Node
      BY <1>3 DEF Node
    <3> QED BY <2>1, <3>1, <3>2 DEF GhostMap, ForwardDsts
  <2>2. CASE dir # "FORWARD"
    <3>1. PICK e \in Arcs(conf.graph) : /\ v = e[2] /\ conf.graph.part[e[1]] = n
                                        /\ conf.graph.part[e[2]] # n
      BY <2>2 DEF Ghosts, OutEdgeGhosts
    <3>2. conf.graph.part[e[2]] \in Node
      BY <1>3 DEF Node
    <3> QED BY <2>2, <3>1, <3>2 DEF GhostMap, BackwardDsts
  <2> QED BY <2>1, <2>2
<1> QED BY <1>2, <1>4, <1>5, <1>6

LEMMA OneHolder ==
  ASSUME conf \in Confs, NEW m \in Node, NEW i \in ChunkId, NEW j \in ChunkId, NEW v,
         Holds(m, i, v), Holds(m, j, v)
  PROVE  i = j
<1>1. IsGraph(conf.graph) /\ conf.numLambdas \in Nat \ {0}
  BY ConfFacts
<1>2. LocalVtxCnt(conf.graph, m) \in Nat
  <2>1. IsFiniteSet(Local(conf.graph, m))
    BY <1>1, FS_Subset DEF IsGraph, Local
  <2> QED BY <2>1, FS_CardinalityType DEF LocalVtxCnt
<1>3. ChunksCover(LocalVtxCnt(conf.graph, m), conf.numLambdas)
  BY <1>1, <1>2, ChunksShareOut
<1> QED BY <1>3 DEF ChunksCover, Holds, Rows, ChunkId

LEMMA WantedFacts ==
  ASSUME conf \in Confs, NEW n \in Node
  PROVE  /\ IsFiniteSet(Wants(n)) /\ Cardinality(Wants(n)) \in Nat
         /\ Owed(n) \subseteq Wants(n) /\ IsFiniteSet(Owed(n)) /\ Cardinality(Owed(n)) \in Nat
         /\ Cardinality(Owed(n)) <= Cardinality(Wants(n))
         /\ \A m \in Node : \A v \in Wanted(n, m) :
              m # n /\ v \in Wants(n) /\ conf.graph.part[v] = m /\ \E j \in ChunkId : Holds(m, j, v)
         /\ \A v \in Wants(n) : \E m \in Node \ {n} : v \in Wanted(n, m)
<1>1. /\ IsFiniteSet(Wants(n))
      /\ \A m \in Node : \A v \in Wanted(n, m) :
           m # n /\ v \in Wants(n) /\ conf.graph.part[v] = m /\ \E j \in ChunkId : Holds(m, j, v)
      /\ \A v \in Wants(n) : \E m \in Node \ {n} : v \in Wanted(n, m)
  BY GhostFacts DEF Wants, Wanted
<1>2. Owed(n) \subseteq Wants(n)
  BY DEF Owed
<1> QED BY <1>1, <1>2, FS_Subset, FS_CardinalityType

\* Nothing is owed: no batch, no value is under way to n.
LEMMA OwedNothing ==
  ASSUME conf \in Confs, SendInv, NEW n \in Node, Owed(n) = {}
  PROVE  /\ \A m \in Node, j \in ChunkId : \A b \in todo[m][j] : b.to # n
         /\ \A m \in Node : \A k \in Places(net[m][n], "data") : net[m][n][k].rows = {}
         /\ \A msg \in hand[n] : msg.rows = {}
         /\ \A m \in Node, j \in ChunkId : \A v \in Wanted(n, m) :
              Holds(m, j, v) => ~(Begun(m, j) < Expected(n))
<1>1. ASSUME NEW m \in Node, NEW v \in Wanted(n, m)
      PROVE  ~Unsent(n, m, v) /\ ~OnNet(n, m, v) /\ ~InHand(n, v)
  BY WantedFacts DEF Owed
<1>2. ASSUME NEW m \in Node, NEW j \in ChunkId, NEW b \in todo[m][j], b.to = n PROVE FALSE
  <2>1. BatchOK(m, j, b)
    BY DEF SendInv, TodoAt
  <2>2. PICK v \in b.vtcs : v \in Wanted(n, m) /\ Holds(m, j, v)
    BY <1>2, <2>1 DEF BatchOK
  <2>3. Unsent(n, m, v)
    BY <1>2, <2>2 DEF Unsent
  <2> QED BY <1>1, <2>2, <2>3
<1>3. ASSUME NEW m \in Node, NEW k \in Places(net[m][n], "data"), NEW x \in net[m][n][k].rows PROVE FALSE
  <2>1. InTime(n, net[m][n][k]) /\ net[m][n][k].from = m
    BY DEF SendInv, NetAt
  <2>2. x[1] \in Wanted(n, m)
    BY <2>1 DEF InTime
  <2>3. OnNet(n, m, x[1])
    BY DEF OnNet
  <2> QED BY <1>1, <2>2, <2>3
<1>4. ASSUME NEW msg \in hand[n], NEW x \in msg.rows PROVE FALSE
  <2>1. InTime(n, msg)
    BY DEF SendInv, HandAt
  <2>2. msg.from \in Node /\ x[1] \in Wanted(n, msg.from)
    BY <2>1 DEF InTime
  <2>3. InHand(n, x[1])
    BY DEF InHand
  <2> QED BY <1>1, <2>2, <2>3
<1>5. \A m \in Node, j \in ChunkId : \A v \in Wanted(n, m) : Holds(m, j, v) => ~(Begun(m, j) < Expected(n))
  BY <1>1 DEF Unsent
<1> QED BY <1>2, <1>3, <1>4, <1>5

-----------------------------------------------------------------------------
(* The end of a scatter phase.                                             *)

LEMMA StashFacts ==
  ASSUME AlignInv, NEW n \in Node, AllIn(n, "stash")
  PROVE  /\ conf \in Confs /\ Popped(n) /\ Gap(n) \in 0..Scatters /\ Gap(n) < Scatters /\ Scatters \in Nat
         /\ After(Gap(n)) = Gap(n) + 1 /\ Running(n, Gap(n)) /\ stage[n] = "running"
         /\ \A i \in ChunkId : place[n][i] = "stash"
<1>1. GapOK(n) /\ conf \in Confs /\ 0 \in ChunkId
  BY Gaps, AlignFacts, ConfFacts DEF GapsOK
<1>2. stage[n] = "running" /\ \A i \in ChunkId : place[n][i] = "stash"
  BY <1>1 DEF AllIn, InQueue
<1>3. Gap(n) < Scatters
  BY <1>1, <1>2 DEF GapOK, ChunkAt, Scattered
<1>4. Popped(n)
  BY <1>1, <1>2 DEF Popped, Scattered
<1>5. Gap(n) \in 0..Scatters /\ Scatters \in Nat
  BY <1>1, ScatterFacts DEF GapOK
<1>6. After(Gap(n)) = Gap(n) + 1
  BY <1>3, <1>5 DEF After
<1> QED BY <1>1, <1>2, <1>3, <1>4, <1>5, <1>6 DEF GapOK

\* The counters are complete: all values of the phase have come.
LEMMA CompleteOwed ==
  ASSUME AlignInv, SendInv, DirInv, NEW n \in Node, AllIn(n, "stash"), ~Closing(n), Complete(n)
  PROVE  /\ Owed(n) = {} /\ ExpectedDir(n) = Final(n)
         /\ ghostVtcsRecvd[n] = Cardinality(Ghosts(conf.graph, n, Final(n)))
<1>1. conf \in Confs /\ Popped(n) /\ After(Gap(n)) = Gap(n) + 1
  BY StashFacts
<1>2. ExpectedDir(n) = Final(n) /\ currDir[n] = Final(n)
  BY <1>1 DEF ExpectedDir, Final, DirInv
<1>3. ghostVtcsRecvd[n] = Cardinality(Wants(n))
  BY <1>2 DEF Complete, TotalGhostCnt, Wants
<1>4. ghostVtcsRecvd[n] <= Cardinality(Wants(n)) - Cardinality(Owed(n))
  BY DEF SendInv, CountAt
<1>5. IsFiniteSet(Owed(n)) /\ Cardinality(Owed(n)) \in Nat /\ Cardinality(Wants(n)) \in Nat
  BY <1>1, WantedFacts
<1>6. Cardinality(Owed(n)) = 0
  BY <1>3, <1>4, <1>5
<1>7. Owed(n) = {}
  BY <1>5, <1>6, FS_EmptySet
<1> QED BY <1>2, <1>3, <1>7 DEF Wants

LEMMA InTimeEmpty ==
  ASSUME conf' = conf, NEW n \in Node, NEW msg, InTime(n, msg), msg.rows = {}
  PROVE  InTime(n, msg)'
BY ConfSame DEF InTime

\* A server begins to wait for the others: it is owed nothing more of this phase, and
\* all of the next one from then on.
Closes(n) ==
  /\ conf' = conf /\ UNCHANGED <<chunk, place, todo, currEpoch, net, hand, ghostVtcsRecvd>>
  /\ ~Closing(n) /\ Closing(n)'
  /\ \A m \in Node : /\ Gap(m)' = Gap(m) /\ Passed(m)' = Passed(m)
                      /\ \A j \in ChunkId : Begun(m, j)' = Begun(m, j)
  /\ \A m \in Node \ {n} : RoundSame(m) /\ SameFor(m)
  /\ \A m \in Node, k \in Node : SenderSame(m, k)
  /\ Owed(n) = {} /\ ExpectedDir(n) = Final(n)
  /\ ghostVtcsRecvd[n] = Cardinality(Ghosts(conf.graph, n, Final(n)))

LEMMA WaitCloses ==
  ASSUME SendInv, DirInv, AlignInv, AlignInv', NEW n \in Node, ScatterWait(n)
  PROVE  Silent \/ Closes(n)
<1>1. /\ UNCHANGED <<conf, chunk, place, todo, currEpoch, net, hand, ghostVtcsRecvd>>
      /\ AllIn(n, "stash") /\ scatter[n] \in {"run", "woken"}
  BY DEF ScatterWait, queues, scheduler, counters, receivers
<1>2. \/ ~Complete(n) /\ scatter' = [scatter EXCEPT ![n] = "wait"]
      \/ Complete(n) /\ scatter' = [scatter EXCEPT ![n] = "barrier"]
  BY DEF ScatterWait
<1>3. scatter \in [Node -> {"run", "wait", "woken", "barrier", "reset"}] /\ conf \in Confs
  BY DEF AlignInv, AlignTypes
<1>4. ~Closing(n) /\ \A m \in Node \ {n} : Closing(m)' <=> Closing(m)
  BY <1>1, <1>2, <1>3 DEF Closing
<1>5. CASE ~Complete(n)
  <2>1. ~Closing(n)'
    BY <1>2, <1>3, <1>5 DEF Closing
  <2> QED BY <1>1, <1>4, <2>1, SilentStill
<1>6. CASE Complete(n)
  <2>1. Closing(n)'
    BY <1>2, <1>3, <1>6 DEF Closing
  <2>2. \A m \in Node : Gap(m)' = Gap(m)
    BY <1>1, GapSame
  <2>3. Node' = Node /\ ChunkId' = ChunkId /\ Scatters' = Scatters
    BY <1>1, ConfSame
  <2>4. \A m \in Node \ {n} : RoundSame(m)
    BY <1>1, <1>4, <2>2, RoundStays
  <2>5. \A m \in Node : /\ Passed(m)' = Passed(m)
                        /\ \A j \in ChunkId : Begun(m, j)' = Begun(m, j)
    BY <1>1, <2>2, <2>3 DEF Passed, Begun, Scattered
  <2>6. \A m \in Node \ {n} : SameFor(m)
    BY <2>4 DEF SameFor, RoundSame, Expected
  <2>7. \A m \in Node, k \in Node : SenderSame(m, k)
    BY <1>1, <2>5 DEF SenderSame, InTimeSame
  <2>8. /\ Owed(n) = {} /\ ExpectedDir(n) = Final(n)
        /\ ghostVtcsRecvd[n] = Cardinality(Ghosts(conf.graph, n, Final(n)))
    BY <1>1, <1>4, <1>6, CompleteOwed
  <2> QED BY <1>1, <1>4, <2>1, <2>2, <2>4, <2>5, <2>6, <2>7, <2>8 DEF Closes
<1> QED BY <1>5, <1>6

LEMMA WaitSends ==
  ASSUME SendInv, DirInv, Together, AlignInv, AlignInv', NEW n \in Node, ScatterWait(n)
  PROVE  SendInv'
<1>1. Silent \/ Closes(n)
  BY WaitCloses
<1>2. CASE Silent
  BY <1>2, SendKept
<1>3. CASE Closes(n)
  <2>1. /\ conf' = conf /\ UNCHANGED <<chunk, place, todo, currEpoch, net, hand, ghostVtcsRecvd>>
        /\ ~Closing(n) /\ Closing(n)'
    BY <1>3 DEF Closes
  <2>2. \A m \in Node : Gap(m)' = Gap(m)
    BY <1>3 DEF Closes
  <2>3. Node' = Node /\ ChunkId' = ChunkId /\ Scatters' = Scatters /\ conf \in Confs
    BY <2>1, ConfSame, AlignFacts
  <2>4. \A m \in Node \ {n} : RoundSame(m)
    BY <1>3 DEF Closes
  <2>5. \A m \in Node : /\ Passed(m)' = Passed(m)
                        /\ \A j \in ChunkId : Begun(m, j)' = Begun(m, j)
    BY <1>3 DEF Closes
  <2>6. \A m \in Node \ {n} : SameFor(m)
    BY <1>3 DEF Closes
  <2>7. \A m \in Node, k \in Node : SenderSame(m, k)
    BY <1>3 DEF Closes
  <2>8. /\ Owed(n) = {} /\ ExpectedDir(n) = Final(n)
        /\ ghostVtcsRecvd[n] = Cardinality(Ghosts(conf.graph, n, Final(n)))
    BY <1>3 DEF Closes
  <2>9. /\ \A m \in Node, j \in ChunkId : \A b \in todo[m][j] : b.to # n
        /\ \A m \in Node : \A k \in Places(net[m][n], "data") : net[m][n][k].rows = {}
        /\ \A msg \in hand[n] : msg.rows = {}
        /\ \A m \in Node, j \in ChunkId : \A v \in Wanted(n, m) :
             Holds(m, j, v) => ~(Begun(m, j) < Expected(n))
    BY <2>3, <2>8, OwedNothing
  <2>10. \A m \in Node, j \in ChunkId : TodoAt(m, j)'
    <3>1. ASSUME NEW m \in Node, NEW j \in ChunkId PROVE TodoAt(m, j)'
      <4>1. TodoAt(m, j)
        BY DEF SendInv
      <4>2. \A b \in todo[m][j] : b.to \in Node \ {n}
        BY <2>9, <4>1 DEF TodoAt, BatchOK
      <4> QED BY <2>1, <2>5, <2>6, <4>1, <4>2, TodoKept DEF TodoAt
    <3> QED BY <3>1
  <2>11. \A m \in Node, k \in Node : NetAt(m, k)'
    <3>1. ASSUME NEW m \in Node, NEW k \in Node PROVE NetAt(m, k)'
      <4>1. NetAt(m, k)
        BY DEF SendInv
      <4>2. CASE k # n
        BY <2>1, <2>6, <2>7, <4>1, <4>2, NetSame
      <4>3. CASE k = n
        <5>1. ASSUME NEW p \in Places(net[m][n], "data")
              PROVE  InTime(n, net[m][n][p])'
          <6>1. PICK msg : msg = net[m][n][p]
            OBVIOUS
          <6>2. InTime(n, msg) /\ msg.rows = {}
            BY <2>9, <4>1, <4>3, <6>1 DEF NetAt
          <6>3. InTime(n, msg)'
            BY <2>1, <6>2, InTimeEmpty
          <6> QED BY <2>1, <6>1, <6>3 DEF InTime
        <5> QED BY <2>1, <4>1, <4>3, <5>1, NetKept
      <4> QED BY <4>2, <4>3
    <3> QED BY <3>1
  <2>12. \A m \in Node : HandAt(m)'
    <3>1. ASSUME NEW m \in Node, m # n PROVE HandAt(m)'
      BY <2>1, <2>6, <2>7, <3>1, HandSame DEF SendInv
    <3>2. HandAt(n)'
      <4>1. ASSUME NEW msg \in hand[n]
            PROVE  InTime(n, msg)' /\ net'[msg.from][n] = net[msg.from][n]
        BY <2>1, <2>9, InTimeEmpty DEF SendInv, HandAt
      <4> QED BY <2>1, <4>1, HandKept DEF SendInv
    <3> QED BY <3>1, <3>2
  <2>13. \A m \in Node : ClosedAt(m)'
    <3>1. ASSUME NEW m \in Node, m # n PROVE ClosedAt(m)'
      BY <2>1, <2>4, <2>5, <3>1, ClosedKept DEF SendInv, RoundSame
    <3>2. ClosedAt(n)'
      <4>1. Final(n)' = Final(n)
        BY <2>1, <2>2 DEF Final, DirOf, Turn
      <4>2. ASSUME NEW m \in Node \ {n}, NEW j \in ChunkId, Begun(m, j) = Passed(n),
                   NEW v \in GhostMap(conf.graph, m, n, Final(n)), Holds(m, j, v)
            PROVE  FALSE
        <5>1. v \in Wanted(n, m)
          BY <2>8, <4>2 DEF Wanted
        <5>2. Passed(n) \in Nat /\ Expected(n) = Passed(n) + 1
          BY <2>1, PassedIs DEF Expected
        <5>3. Begun(m, j) < Expected(n)
          BY <4>2, <5>2
        <5> QED BY <2>9, <4>2, <5>1, <5>3
      <4>3. \A m, j, v : Holds(m, j, v)' <=> Holds(m, j, v)
        BY <2>1, HoldsSame
      <4> QED BY <2>1, <2>3, <2>5, <4>1, <4>2, <4>3 DEF ClosedAt
    <3> QED BY <3>1, <3>2
  <2>14. \A m \in Node : CountAt(m)'
    <3>1. ASSUME NEW m \in Node, m # n PROVE CountAt(m)'
      <4>1. Owed(m)' = Owed(m)
        BY <2>1, <2>5, <2>6, <3>1, OwedSame
      <4> QED BY <2>1, <2>4, <2>6, <3>1, <4>1, CountKept DEF SendInv, RoundSame
    <3>2. CountAt(n)'
      <4>1. Final(n)' = Final(n)
        BY <2>1, <2>2 DEF Final, DirOf, Turn
      <4> QED BY <2>1, <2>8, <4>1 DEF CountAt
    <3> QED BY <3>1, <3>2
  <2> QED BY <2>3, <2>10, <2>11, <2>12, <2>13, <2>14 DEF SendInv
<1> QED BY <1>1, <1>2, <1>3

-----------------------------------------------------------------------------
(* The next scatter phase: what was expected before is expected now.       *)

LEMMA ResetGap ==
  ASSUME AlignInv, AlignInv', NEW n \in Node, ScatterReset(n)
  PROVE  /\ Gap(n) < Scatters /\ Gap(n)' = Gap(n) + 1 /\ Gap(n) \in Nat
         /\ Closing(n) /\ ~Closing(n)'
         /\ \A m \in Node \ {n} : Closing(m)' <=> Closing(m)
         /\ \A j \in ChunkId : place[n][j] = "stash" /\ place'[n][j] = "AE"
         /\ \A m \in Node \ {n} : place'[m] = place[m]
<1>1. /\ UNCHANGED <<conf, chunk, currEpoch>>
      /\ scatter[n] = "reset" /\ scatter' = [scatter EXCEPT ![n] = "run"]
      /\ place' = [place EXCEPT ![n] = [i \in ChunkId |-> "AE"]]
  BY DEF ScatterReset, scheduler
<1>2. /\ scatter \in [Node -> {"run", "wait", "woken", "barrier", "reset"}] /\ conf \in Confs
      /\ place \in [Node -> [ChunkId -> Place]]
  BY DEF AlignInv, AlignTypes
<1>3. Closing(n) /\ ~Closing(n)' /\ \A m \in Node \ {n} : Closing(m)' <=> Closing(m)
  BY <1>1, <1>2 DEF Closing
<1>4. Gap(n) < Scatters /\ \A j \in ChunkId : place[n][j] = "stash"
  BY <1>3, ClosingFacts
<1>5. (\A j \in ChunkId : place'[n][j] = "AE") /\ \A m \in Node \ {n} : place'[m] = place[m]
  BY <1>1, <1>2
<1>6. GapOK(n) /\ Scatters \in Nat
  BY <1>2, Gaps, ScatterFacts DEF GapsOK
<1>7. PICK s : s = Gap(n) + 1
  OBVIOUS
<1>8. s \in 0..Scatters /\ s > 0
  BY <1>4, <1>6, <1>7 DEF GapOK
<1>9. \A j \in ChunkId : chunk[n][j].epoch = currEpoch[n] /\ Between(chunk[n][j], s)
  BY <1>4, <1>6, <1>7 DEF GapOK, ChunkAt, Scattered
<1>10. Node' = Node /\ ChunkId' = ChunkId /\ Scatters' = Scatters
  BY <1>1, ConfSame
<1>11. \A j \in ChunkId : ChunkAt(n, j, s)'
  <2>1. SUFFICES ASSUME NEW j \in ChunkId PROVE ChunkAt(n, j, s)'
    OBVIOUS
  <2>2. chunk'[n][j] = chunk[n][j] /\ currEpoch'[n] = currEpoch[n]
    BY <1>1
  <2>3. Between(chunk[n][j], s)'
    BY <1>1, <1>9, <2>2, BetweenSame DEF Between, DirOf, LayerOf, Turn, Scatters
  <2> QED BY <1>5, <1>8, <1>9, <2>2, <2>3 DEF ChunkAt
<1>12. Gap(n)' = s
  BY <1>8, <1>10, <1>11, GapsFoundNext DEF GapFound
<1> QED BY <1>3, <1>4, <1>5, <1>6, <1>7, <1>12 DEF GapOK

LEMMA ResetRounds ==
  ASSUME AlignInv, AlignInv', NEW n \in Node, ScatterReset(n)
  PROVE  /\ conf' = conf /\ SameFor(n) /\ Passed(n)' = Passed(n) + 1 /\ Passed(n) \in Nat
         /\ \A m \in Node \ {n} : RoundSame(m)
         /\ \A m \in Node : \A j \in ChunkId : Begun(m, j)' = Begun(m, j)
<1>1. UNCHANGED <<conf, chunk, currEpoch>>
  BY DEF ScatterReset, scheduler
<1>2. /\ Gap(n) < Scatters /\ Gap(n)' = Gap(n) + 1 /\ Gap(n) \in Nat
      /\ Closing(n) /\ ~Closing(n)'
      /\ \A m \in Node \ {n} : Closing(m)' <=> Closing(m)
      /\ \A j \in ChunkId : place[n][j] = "stash" /\ place'[n][j] = "AE"
      /\ \A m \in Node \ {n} : place'[m] = place[m]
  BY ResetGap
<1>3. Node' = Node /\ ChunkId' = ChunkId /\ Scatters' = Scatters
  BY <1>1, ConfSame
<1>4. \A m \in Node \ {n} : RoundSame(m)
  BY <1>1, <1>2, GapSame, RoundStays
<1>5. Passed(n) \in Nat
  BY PassedIs
<1>6. Passed(n)' = Passed(n) + 1
  <2>1. PICK a : a = (currEpoch[n] - 1) * Scatters
    OBVIOUS
  <2>2. currEpoch[n] \in Nat /\ Scatters \in Nat
    BY PassedIs
  <2>3. a \in Int
    BY <2>1, <2>2
  <2>4. Passed(n) = a + Gap(n) /\ Passed(n)' = a + (Gap(n) + 1)
    BY <1>1, <1>2, <1>3, <2>1 DEF Passed
  <2> QED BY <1>2, <2>3, <2>4
<1>7. Expected(n)' = Expected(n)
  BY <1>2, <1>5, <1>6 DEF Expected
<1>8. ExpectedDir(n)' = ExpectedDir(n)
  <2>1. ExpectedDir(n) = DirOf(After(Gap(n) + 1))
    BY <1>2 DEF ExpectedDir
  <2>2. ExpectedDir(n)' = DirOf(After(Gap(n)))'
    BY <1>2 DEF ExpectedDir
  <2>3. After(Gap(n))' = After(Gap(n) + 1)
    BY <1>2, <1>3 DEF After
  <2>4. DirOf(After(Gap(n)))' = DirOf(After(Gap(n) + 1))
    BY <1>1, <2>3 DEF DirOf, Turn
  <2> QED BY <2>1, <2>2, <2>4
<1>9. \A j \in ChunkId : Begun(n, j)' = Begun(n, j)
  BY <1>2, <1>6 DEF Begun, Scattered
<1> QED BY <1>1, <1>4, <1>5, <1>6, <1>7, <1>8, <1>9 DEF RoundSame, SameFor

\* In the sync builds nobody has begun the phase that a server is about to wait for.
LEMMA NotBegun ==
  ASSUME AlignInv, Together, NEW n \in Node, Closing(n), ~Async, NEW m \in Node, NEW j \in ChunkId
  PROVE  Begun(m, j) < Expected(n)
<1>1. /\ Passed(n) \in Nat /\ Passed(m) \in Nat /\ Passed(m) <= Passed(n) + 1
      /\ Popped(m) => Passed(m) <= Passed(n)
  BY InTurn, PassedIs
<1>2. Expected(n) = Passed(n) + 2
  BY DEF Expected
<1>3. CASE place[m][j] \in Scattered
  <2>1. Popped(m) /\ Begun(m, j) = Passed(m) + 1
    BY <1>3 DEF Popped, Begun
  <2> QED BY <1>1, <1>2, <2>1
<1>4. CASE place[m][j] \notin Scattered
  BY <1>1, <1>2, <1>4 DEF Begun
<1> QED BY <1>3, <1>4

LEMMA AllUnsent ==
  ASSUME AlignInv, Together, conf \in Confs, NEW n \in Node, Closing(n), ~Async
  PROVE  Owed(n) = Wants(n)
<1>1. ASSUME NEW v \in Wants(n)
      PROVE  v \in Owed(n)
  <2>1. PICK m \in Node \ {n} : v \in Wanted(n, m)
    BY WantedFacts
  <2>2. PICK j \in ChunkId : Holds(m, j, v)
    BY <2>1, WantedFacts
  <2>3. Unsent(n, m, v)
    BY <2>2, NotBegun DEF Unsent
  <2> QED BY <2>1, <2>3 DEF Owed
<1> QED BY <1>1 DEF Owed

LEMMA ResetSettled ==
  ASSUME AlignInv, AlignInv', NEW n \in Node, ScatterReset(n)
  PROVE  \A m \in Node : Settled(m)
<1>1. UNCHANGED <<todo, net, hand>>
  BY DEF ScatterReset, receivers
<1>2. /\ conf' = conf /\ SameFor(n)
      /\ \A m \in Node \ {n} : RoundSame(m)
      /\ \A m \in Node : \A j \in ChunkId : Begun(m, j)' = Begun(m, j)
  BY ResetRounds
<1>3. \A m \in Node : SameFor(m)
  BY <1>2 DEF SameFor, RoundSame, Expected
<1>4. \A m \in Node : Owed(m)' = Owed(m)
  BY <1>1, <1>2, <1>3, OwedSame
<1> QED BY <1>3, <1>4 DEF Settled

LEMMA ResetSends ==
  ASSUME SendInv, Together, AlignInv, AlignInv', DataInv, NEW n \in Node, ScatterReset(n)
  PROVE  SendInv'
<1>1. /\ UNCHANGED <<todo, net, hand>>
      /\ ghostVtcsRecvd' = [ghostVtcsRecvd EXCEPT ![n] = 0]
  BY DEF ScatterReset, receivers
<1>2. /\ conf' = conf /\ SameFor(n) /\ Passed(n)' = Passed(n) + 1 /\ Passed(n) \in Nat
      /\ \A m \in Node \ {n} : RoundSame(m)
      /\ \A m \in Node : \A j \in ChunkId : Begun(m, j)' = Begun(m, j)
  BY ResetRounds
<1>3. /\ Closing(n) /\ ~Closing(n)' /\ \A j \in ChunkId : place[n][j] = "stash"
      /\ \A m \in Node \ {n} : place'[m] = place[m]
  BY ResetGap
<1>4. Node' = Node /\ ChunkId' = ChunkId /\ conf \in Confs
  BY <1>2, ConfSame, AlignFacts
<1>5. \A m \in Node : SameFor(m)
  BY ResetSettled DEF Settled
<1>6. \A m \in Node, k \in Node : SenderSame(k, m)
  BY <1>1, <1>2 DEF SenderSame, InTimeSame
<1>7. ASSUME NEW m \in Node, NEW j \in ChunkId
      PROVE  TodoAt(m, j)'
  <2>1. TodoAt(m, j) /\ \A b \in todo[m][j] : b.to \in Node
    BY DEF SendInv, TodoAt, BatchOK
  <2>2. CASE m = n
    <3>1. todo[m][j] = {}
      BY <1>3, <2>1, <2>2 DEF TodoAt
    <3> QED BY <1>1, <1>2, <2>1, <3>1, TodoKept
  <2>3. CASE m # n
    <3>1. RoundSame(m) /\ place'[m] = place[m]
      BY <1>2, <1>3, <2>3
    <3>2. place[m][j] \in {"send", "count"} \/ todo[m][j] = {}
      BY <2>1 DEF TodoAt
    <3> QED BY <1>1, <1>2, <1>5, <2>1, <3>1, <3>2, TodoKept DEF RoundSame
  <2> QED BY <2>2, <2>3
<1>8. \A m \in Node, k \in Node : NetAt(m, k)'
  BY <1>1, <1>2, <1>5, <1>6, NetSame DEF SendInv
<1>9. \A m \in Node : HandAt(m)'
  BY <1>1, <1>2, <1>5, <1>6, HandSame DEF SendInv
<1>10. ASSUME NEW m \in Node PROVE ClosedAt(m)'
  <2>1. CASE m = n
    BY <1>3, <2>1 DEF ClosedAt
  <2>2. CASE m # n
    BY <1>2, <2>2, ClosedKept DEF SendInv, RoundSame
  <2> QED BY <2>1, <2>2
<1>11. \A m \in Node : Owed(m)' = Owed(m)
  BY ResetSettled DEF Settled
<1>12. ASSUME NEW m \in Node PROVE CountAt(m)'
  <2>1. CASE m = n
    <3>1. Wants(n)' = Wants(n) /\ (Async' <=> Async)
      BY <1>2, WantsSame DEF Async
    <3>2. ghostVtcsRecvd'[n] = 0
      <4>1. ghostVtcsRecvd \in [Node -> Nat]
        BY DEF DataInv, HandOK
      <4> QED BY <1>1, <4>1
    <3>3. /\ Cardinality(Wants(n)) \in Nat /\ Cardinality(Owed(n)) \in Nat
          /\ Cardinality(Owed(n)) <= Cardinality(Wants(n))
      BY <1>4, WantedFacts
    <3>4. ~Async => Cardinality(Owed(n)) = Cardinality(Wants(n))
      BY <1>3, <1>4, AllUnsent
    <3> QED BY <1>3, <1>11, <2>1, <3>1, <3>2, <3>3, <3>4 DEF CountAt
  <2>2. CASE m # n
    BY <1>1, <1>2, <1>5, <1>11, <2>2, CountKept DEF SendInv, RoundSame
  <2> QED BY <2>1, <2>2
<1> QED BY <1>4, <1>7, <1>8, <1>9, <1>10, <1>12 DEF SendInv

-----------------------------------------------------------------------------
(* A chunk begins to be scattered: what it holds is in its batches now.    *)

LEMMA BatchFull ==
  ASSUME NEW n, NEW i, NEW c
  PROVE  \A b \in Batches(n, i, c) : b.vtcs # {}
<1>1. Batches(n, i, c) = UNION {{BatchOf(n, i, m, c.dir, v) : v \in Boundary(n, i, m, c.dir)} : m \in Node \ {n}}
  BY DEF Batches, BatchOf, BatchNo, Boundary
<1>2. ASSUME NEW b \in Batches(n, i, c) PROVE b.vtcs # {}
  <2>1. PICK m, v : m \in Node \ {n} /\ v \in Boundary(n, i, m, c.dir) /\ b = BatchOf(n, i, m, c.dir, v)
    BY <1>1
  <2>2. v \in b.vtcs
    BY <2>1 DEF BatchOf
  <2> QED BY <2>2
<1> QED BY <1>2

Covers(n, i, c) ==
  \A m \in Node \ {n} : \A v \in Boundary(n, i, m, c.dir) :
    \E b \in Batches(n, i, c) : b.to = m /\ v \in b.vtcs

LEMMA BatchCovers ==
  ASSUME NEW n, NEW i, NEW c
  PROVE  Covers(n, i, c)
<1> SUFFICES ASSUME NEW m \in Node \ {n}, NEW v \in Boundary(n, i, m, c.dir)
             PROVE  \E b \in Batches(n, i, c) : b.to = m /\ v \in b.vtcs
  BY DEF Covers
<1>1. Batches(n, i, c) = UNION {{BatchOf(n, i, k, c.dir, u) : u \in Boundary(n, i, k, c.dir)} : k \in Node \ {n}}
  BY DEF Batches, BatchOf, BatchNo, Boundary
<1>2. PICK b : b = BatchOf(n, i, m, c.dir, v)
  OBVIOUS
<1>3. b.to = m /\ v \in b.vtcs
  BY <1>2 DEF BatchOf
<1>4. b \in Batches(n, i, c)
  BY <1>1, <1>2
<1> QED BY <1>3, <1>4

\* What a chunk at the head of scatterQueue says of its server and its direction.
LEMMA PopFacts ==
  ASSUME SendInv, AlignInv, AlignInv', NEW n \in Node, NEW i \in ChunkId, ScatterPop(n, i)
  PROVE  /\ conf' = conf /\ UNCHANGED <<net, hand, ghostVtcsRecvd>>
         /\ ~Closing(n) /\ todo[n][i] = {} /\ Begun(n, i) = Passed(n) /\ Begun(n, i)' = Passed(n) + 1
         /\ \A m \in Node : SameFor(m) /\ Passed(m)' = Passed(m) /\ (Closing(m)' <=> Closing(m)) /\ Gap(m)' = Gap(m)
         /\ \A m \in Node, j \in ChunkId : <<m, j>> # <<n, i>> =>
              Begun(m, j)' = Begun(m, j) /\ place'[m][j] = place[m][j]
         /\ place'[n][i] = "send" /\ After(Gap(n)) = Gap(n) + 1
         /\ chunk[n][i].dir = DirOf(After(Gap(n)))
<1>1. /\ UNCHANGED <<conf, net, hand, ghostVtcsRecvd, stage, where, entered, currEpoch, schBlock, scatter, scBlock>>
      /\ stage[n] = "running" /\ place[n][i] = "SC"
      /\ Send(n, i, "send", chunk[n][i])
  BY DEF ScatterPop, run, scheduler, counters, receivers, InQueue
<1>2. chunk \in [Node -> [ChunkId -> Chunk]] /\ place \in [Node -> [ChunkId -> Place]] /\ conf \in Confs
  BY AlignFacts
<1>3. GapOK(n) /\ Scatters \in Nat
  BY <1>2, Gaps, ScatterFacts DEF GapsOK
<1>4. PICK s \in 0..Scatters : s = Gap(n)
  BY <1>3 DEF GapOK
<1>5. Running(n, s)
  BY <1>1, <1>3, <1>4 DEF GapOK
<1>6. scatter[n] = "run" /\ s < Scatters /\ Between(chunk[n][i], s + 1)
  BY <1>1, <1>5, PhaseFacts
<1>7. /\ \A m \in Node, j \in ChunkId : <<m, j>> # <<n, i>> => place'[m][j] = place[m][j]
      /\ \A m \in Node \ {n} : place'[m] = place[m] /\ chunk'[m] = chunk[m]
      /\ place'[n][i] = "send"
  BY <1>1, <1>2 DEF Send
<1>8. \A m \in Node : Gap(m)' = Gap(m)
  <2>1. Gap(n)' = Gap(n)
    BY <1>1, GapStill
  <2>2. \A m \in Node \ {n} : Gap(m)' = Gap(m)
    BY <1>1, <1>7, GapSame
  <2> QED BY <2>1, <2>2
<1>9. \A m \in Node : Closing(m)' <=> Closing(m)
  BY <1>1 DEF Closing
<1>10. Scatters' = Scatters /\ ChunkId' = ChunkId /\ Node' = Node
  BY <1>1, ConfSame
<1>11. ASSUME NEW m \in Node
       PROVE  Passed(m)' = Passed(m) /\ SameFor(m)
  <2>1. Passed(m)' = Passed(m)
    BY <1>1, <1>8, <1>10 DEF Passed
  <2>2. Expected(m)' = Expected(m)
    BY <1>9, <2>1 DEF Expected
  <2>3. ExpectedDir(m)' = ExpectedDir(m)
    <3>1. Closing(m) => ExpectedDir(m)' = ExpectedDir(m)
      BY <1>1, <1>8, <1>9, <1>10 DEF ExpectedDir, DirOf, Turn, After
    <3>2. ~Closing(m) => ExpectedDir(m)' = ExpectedDir(m)
      BY <1>1, <1>8, <1>9, <1>10 DEF ExpectedDir, DirOf, Turn, After
    <3> QED BY <3>1, <3>2
  <2> QED BY <2>1, <2>2, <2>3 DEF SameFor
<1>12. ASSUME NEW m \in Node, NEW j \in ChunkId, <<m, j>> # <<n, i>>
       PROVE  Begun(m, j)' = Begun(m, j)
  <2>1. place'[m][j] = place[m][j] /\ Passed(m)' = Passed(m)
    BY <1>7, <1>11, <1>12
  <2> QED BY <2>1 DEF Begun, Scattered
<1>13. Begun(n, i) = Passed(n) /\ Begun(n, i)' = Passed(n) + 1
  <2>1. Passed(n)' = Passed(n)
    BY <1>11
  <2> QED BY <1>1, <1>7, <2>1 DEF Begun, Scattered
<1>14. todo[n][i] = {}
  BY <1>1 DEF SendInv, TodoAt
<1>15. After(Gap(n)) = Gap(n) + 1 /\ chunk[n][i].dir = DirOf(After(Gap(n)))
  BY <1>3, <1>4, <1>6 DEF After, Between
<1>16. ~Closing(n)
  BY <1>6 DEF Closing
<1> QED BY <1>1, <1>7, <1>8, <1>9, <1>11, <1>12, <1>13, <1>14, <1>15, <1>16

\* A batch is for a server that waits for it.
LEMMA BatchDue ==
  ASSUME SendInv, Together, AlignInv, AlignInv', NEW n \in Node, NEW i \in ChunkId, ScatterPop(n, i),
         NEW b \in Batches(n, i, chunk[n][i])
  PROVE  BatchOK(n, i, b)
<1>1. PICK c : c = chunk[n][i]
  OBVIOUS
<1>2. /\ ~Closing(n) /\ Begun(n, i) = Passed(n) /\ After(Gap(n)) = Gap(n) + 1
      /\ c.dir = DirOf(After(Gap(n)))
  BY <1>1, PopFacts
<1>3. PICK m \in Node \ {n} : m = b.to /\ b.vtcs \subseteq Boundary(n, i, m, c.dir)
  BY <1>1, BatchFacts
<1>4. b.vtcs # {}
  BY BatchFull
<1>5. \A v \in b.vtcs : v \in GhostMap(conf.graph, n, m, c.dir) /\ Holds(n, i, v)
  BY <1>3 DEF Boundary, Holds
<1>6. /\ Passed(n) \in Nat /\ Passed(m) \in Nat /\ Passed(m) <= Passed(n)
      /\ Expected(m) \in Nat /\ Passed(n) + 1 <= Expected(m)
  BY <1>2, InTurn, InExpected, PassedIs
<1>7. Expected(m) = Passed(n) + 1
  <2>1. CASE ~Closing(m)
    BY <1>6, <2>1 DEF Expected
  <2>2. CASE Closing(m) /\ Passed(n) # Passed(m)
    BY <1>6, <2>2 DEF Expected
  <2>3. CASE Closing(m) /\ Passed(n) = Passed(m)
    <3>1. After(Gap(n)) = After(Gap(m))
      BY <2>3, AfterAgrees
    <3>2. Gap(m) < Scatters /\ Gap(m) \in 0..Scatters /\ Scatters \in Nat
      BY <2>3, ClosingFacts, PassedIs
    <3>3. After(Gap(m)) = Gap(m) + 1
      BY <3>2 DEF After
    <3>4. c.dir = Final(m)
      BY <1>2, <3>1, <3>3 DEF Final
    <3>5. PICK v : v \in b.vtcs
      BY <1>4
    <3>6. v \in GhostMap(conf.graph, n, m, Final(m)) /\ Holds(n, i, v) /\ Begun(n, i) = Passed(m)
      BY <1>2, <1>5, <2>3, <3>4, <3>5
    <3>7. ClosedAt(m)
      BY DEF SendInv
    <3> QED BY <2>3, <3>6, <3>7 DEF ClosedAt
  <2> QED BY <2>1, <2>2, <2>3
<1>8. ExpectedDir(m) = c.dir
  BY <1>2, <1>7, DirAgrees
<1>9. \A v \in b.vtcs : v \in Wanted(m, n)
  BY <1>5, <1>8 DEF Wanted
<1> QED BY <1>3, <1>4, <1>5, <1>7, <1>9 DEF BatchOK

\* What was not begun is in a batch, or still to come.
LEMMA PopUnsent ==
  ASSUME SendInv, Together, AlignInv, AlignInv', NEW n \in Node, NEW i \in ChunkId, ScatterPop(n, i),
         todo'[n][i] = Batches(n, i, chunk[n][i]),
         NEW k \in Node, NEW v \in Wanted(k, n), Holds(n, i, v)
  PROVE  Unsent(k, n, v) /\ Unsent(k, n, v)'
<1>1. PICK c : c = chunk[n][i]
  OBVIOUS
<1>2. /\ conf' = conf /\ Begun(n, i) = Passed(n) /\ Begun(n, i)' = Passed(n) + 1
      /\ c.dir = DirOf(After(Gap(n))) /\ SameFor(k)
  BY <1>1, PopFacts
<1>3. Expected(k) \in Nat /\ Passed(n) \in Nat /\ Passed(n) + 1 <= Expected(k)
  BY InExpected
<1>4. Unsent(k, n, v)
  <2>1. Begun(n, i) < Expected(k)
    BY <1>2, <1>3
  <2> QED BY <2>1 DEF Unsent
<1>5. ChunkId' = ChunkId /\ (Holds(n, i, v)' <=> Holds(n, i, v))
  BY <1>2, ConfSame, HoldsSame
<1>6. Expected(k)' = Expected(k)
  BY <1>2 DEF SameFor
<1>7. CASE Expected(k) = Passed(n) + 1
  <2>1. ExpectedDir(k) = c.dir
    BY <1>2, <1>7, DirAgrees
  <2>2. k # n
    BY WantedFacts, AlignFacts
  <2>3. v \in Boundary(n, i, k, c.dir)
    BY <2>1 DEF Boundary, Wanted, Holds
  <2>4. PICK b \in Batches(n, i, c) : b.to = k /\ v \in b.vtcs
    <3>1. k \in Node \ {n}
      BY <2>2
    <3>2. Covers(n, i, c)
      BY BatchCovers
    <3> QED BY <2>3, <3>1, <3>2 DEF Covers
  <2>5. b \in todo'[n][i]
    BY <1>1, <2>4
  <2>6. Unsent(k, n, v)'
    BY <1>5, <2>4, <2>5 DEF Unsent
  <2> QED BY <1>4, <2>6
<1>8. CASE Expected(k) # Passed(n) + 1
  <2>1. Begun(n, i)' < Expected(k)'
    BY <1>2, <1>3, <1>6, <1>8
  <2> QED BY <1>4, <1>5, <2>1 DEF Unsent
<1> QED BY <1>7, <1>8

LEMMA PopSettled ==
  ASSUME SendInv, Together, AlignInv, AlignInv', AckInv, NEW n \in Node, NEW i \in ChunkId, ScatterPop(n, i)
  PROVE  \A k \in Node : Settled(k)
<1>1. PICK c : c = chunk[n][i]
  OBVIOUS
<1>2. /\ conf' = conf /\ UNCHANGED <<net, hand, ghostVtcsRecvd>>
      /\ ~Closing(n) /\ todo[n][i] = {} /\ Begun(n, i) = Passed(n) /\ Begun(n, i)' = Passed(n) + 1
      /\ \A m \in Node : SameFor(m) /\ Passed(m)' = Passed(m) /\ (Closing(m)' <=> Closing(m)) /\ Gap(m)' = Gap(m)
      /\ \A m \in Node, j \in ChunkId : <<m, j>> # <<n, i>> =>
           Begun(m, j)' = Begun(m, j) /\ place'[m][j] = place[m][j]
      /\ place'[n][i] = "send"
  BY PopFacts
<1>3. Node' = Node /\ ChunkId' = ChunkId /\ conf \in Confs
  BY <1>2, ConfSame, AlignFacts
<1>4. /\ todo'[n][i] = Batches(n, i, c)
      /\ \A m \in Node, j \in ChunkId : <<m, j>> # <<n, i>> => todo'[m][j] = todo[m][j]
  <2>1. todo' = [todo EXCEPT ![n][i] = Batches(n, i, c)]
    BY <1>1 DEF ScatterPop
  <2>2. DOMAIN todo = Node /\ \A m \in Node : DOMAIN todo[m] = ChunkId
    BY AckFacts
  <2> QED BY <2>1, <2>2
<1>5. ASSUME NEW k \in Node PROVE Owed(k)' = Owed(k)
  <2>1. ASSUME NEW m \in Node, NEW v \in Wanted(k, m)
        PROVE  Unsent(k, m, v)' <=> Unsent(k, m, v)
    <3>1. CASE m = n /\ Holds(n, i, v)
      BY <1>1, <1>4, <2>1, <3>1, PopUnsent
    <3>2. CASE ~(m = n /\ Holds(n, i, v))
      <4>1. \A j \in ChunkId : Holds(m, j, v) => Begun(m, j)' = Begun(m, j) /\ todo'[m][j] = todo[m][j]
        BY <1>2, <1>4, <3>2
      <4> QED BY <1>2, <4>1, UnsentSame
    <3> QED BY <3>1, <3>2
  <2>2. \A m \in Node \ {k} : \A v \in Wants(k) :
          /\ OnNet(k, m, v)' <=> OnNet(k, m, v)
          /\ v \in Wanted(k, m) => (Unsent(k, m, v)' <=> Unsent(k, m, v))
    BY <1>2, <2>1 DEF OnNet
  <2>3. \A v \in Wants(k) : InHand(k, v)' <=> InHand(k, v)
    BY <1>2 DEF InHand
  <2> QED BY <1>2, <2>2, <2>3, OwedKept
<1> QED BY <1>2, <1>5 DEF Settled

LEMMA PopSends ==
  ASSUME SendInv, Together, AlignInv, AlignInv', AckInv, NEW n \in Node, NEW i \in ChunkId, ScatterPop(n, i)
  PROVE  SendInv'
<1>1. PICK c : c = chunk[n][i]
  OBVIOUS
<1>2. /\ conf' = conf /\ UNCHANGED <<net, hand, ghostVtcsRecvd>>
      /\ ~Closing(n) /\ todo[n][i] = {} /\ Begun(n, i) = Passed(n) /\ Begun(n, i)' = Passed(n) + 1
      /\ \A m \in Node : SameFor(m) /\ Passed(m)' = Passed(m) /\ (Closing(m)' <=> Closing(m)) /\ Gap(m)' = Gap(m)
      /\ \A m \in Node, j \in ChunkId : <<m, j>> # <<n, i>> =>
           Begun(m, j)' = Begun(m, j) /\ place'[m][j] = place[m][j]
      /\ place'[n][i] = "send"
  BY PopFacts
<1>3. Node' = Node /\ ChunkId' = ChunkId /\ conf \in Confs
  BY <1>2, ConfSame, AlignFacts
<1>4. /\ todo'[n][i] = Batches(n, i, c)
      /\ \A m \in Node, j \in ChunkId : <<m, j>> # <<n, i>> => todo'[m][j] = todo[m][j]
  <2>1. todo' = [todo EXCEPT ![n][i] = Batches(n, i, c)]
    BY <1>1 DEF ScatterPop
  <2>2. DOMAIN todo = Node /\ \A m \in Node : DOMAIN todo[m] = ChunkId
    BY AckFacts
  <2> QED BY <2>1, <2>2
<1>5. ASSUME NEW m \in Node, NEW j \in ChunkId PROVE TodoAt(m, j)'
  <2>1. CASE <<m, j>> # <<n, i>>
    <3>1. TodoAt(m, j) /\ \A b \in todo[m][j] : b.to \in Node
      BY DEF SendInv, TodoAt, BatchOK
    <3>2. todo'[m][j] = todo[m][j] /\ place'[m][j] = place[m][j]
      BY <1>2, <1>4, <2>1
    <3> QED BY <1>2, <3>1, <3>2, TodoKept DEF TodoAt
  <2>2. CASE <<m, j>> = <<n, i>>
    <3>1. m = n /\ j = i
      BY <2>2
    <3>2. \A b \in Batches(n, i, c) : BatchOK(n, i, b)'
      <4>1. SUFFICES ASSUME NEW b \in Batches(n, i, c) PROVE BatchOK(n, i, b)'
        OBVIOUS
      <4>2. BatchOK(n, i, b) /\ b.to \in Node
        BY <1>1, BatchDue DEF BatchOK
      <4> QED BY <1>2, <4>2, BatchKept
    <3>3. \A b \in Batches(n, i, c), d \in Batches(n, i, c) :
            b.to = d.to /\ b # d => \A v \in b.vtcs : v \notin d.vtcs
      BY BatchFacts
    <3> QED BY <1>2, <1>4, <3>1, <3>2, <3>3 DEF TodoAt
  <2> QED BY <2>1, <2>2
<1>6. \A k \in Node : Begun(n, i) < Expected(k)
  BY <1>2, InExpected
<1>7. ASSUME NEW k \in Node, NEW msg, InTime(k, msg)
      PROVE  InTime(k, msg)'
  <2>1. ASSUME NEW j \in ChunkId, Carried(msg, j)
        PROVE  InTimeSame(k, msg.from, j)
    <3>1. Begun(msg.from, j) = Expected(k) /\ msg.from \in Node
      BY <1>7, <2>1 DEF Carried, InTime
    <3>2. Expected(k) \in Nat
      BY InExpected
    <3>3. <<msg.from, j>> # <<n, i>>
      BY <1>6, <3>1, <3>2
    <3> QED BY <1>2, <1>4, <3>1, <3>3 DEF InTimeSame
  <2> QED BY <1>2, <1>7, <2>1, InTimeKept
<1>8. ASSUME NEW m \in Node, NEW k \in Node PROVE NetAt(m, k)'
  <2>1. NetAt(m, k)
    BY DEF SendInv
  <2>2. ASSUME NEW p \in Places(net[m][k], "data")
        PROVE  InTime(k, net[m][k][p])'
    <3>1. PICK msg : msg = net[m][k][p]
      OBVIOUS
    <3>2. InTime(k, msg)'
      BY <1>7, <2>1, <3>1 DEF NetAt
    <3> QED BY <1>2, <3>1, <3>2 DEF InTime
  <2> QED BY <1>2, <2>1, <2>2, NetKept
<1>9. ASSUME NEW k \in Node PROVE HandAt(k)'
  <2>1. \A msg \in hand[k] : InTime(k, msg)' /\ net'[msg.from][k] = net[msg.from][k]
    BY <1>2, <1>7 DEF SendInv, HandAt
  <2> QED BY <1>2, <2>1, HandKept DEF SendInv
<1>10. ASSUME NEW k \in Node PROVE ClosedAt(k)'
  <2>1. SUFFICES ASSUME Closing(k), NEW m \in Node \ {k}, NEW j \in ChunkId, Begun(m, j)' = Passed(k),
                        NEW v \in GhostMap(conf.graph, m, k, Final(k))
                 PROVE  ~Holds(m, j, v)
    <3>1. Final(k)' = Final(k)
      BY <1>2 DEF Final, DirOf, Turn
    <3>2. \A m, j, v : Holds(m, j, v)' <=> Holds(m, j, v)
      BY <1>2, HoldsSame
    <3>3. (Closing(k)' <=> Closing(k)) /\ Passed(k)' = Passed(k)
      BY <1>2
    <3> QED BY <1>2, <1>3, <3>1, <3>2, <3>3 DEF ClosedAt
  <2>2. <<m, j>> # <<n, i>>
    <3>1. Passed(k) <= Passed(n) /\ Passed(k) \in Nat /\ Passed(n) \in Nat
      BY <1>2, InTurn, PassedIs
    <3> QED BY <1>2, <2>1, <3>1
  <2>3. Begun(m, j) = Passed(k)
    BY <1>2, <2>1, <2>2
  <2> QED BY <2>1, <2>3 DEF SendInv, ClosedAt
<1>11. \A k \in Node : Owed(k)' = Owed(k)
  BY PopSettled DEF Settled
<1>12. \A k \in Node : CountAt(k)'
  BY <1>2, <1>11, CountKept DEF SendInv
<1> QED BY <1>3, <1>5, <1>8, <1>9, <1>10, <1>12 DEF SendInv

-----------------------------------------------------------------------------
(* A batch becomes a message.                                              *)

\* What a message has of a batch: each vertex once.
Carries(msg, b) ==
  /\ \A x \in msg.rows : x[1] \in b.vtcs
  /\ \A x \in msg.rows, y \in msg.rows : x[1] = y[1] => x = y
  /\ \A v \in b.vtcs : \E x \in msg.rows : x[1] = v

\* The batch b of chunk i of n goes to the net as message msg.
Pushed(n, i, b, msg) ==
  /\ b \in todo[n][i] /\ b.to \in Node \ {n} /\ place[n][i] = "send" /\ place'[n][i] = "count"
  /\ msg.kind = "data" /\ msg.from = n /\ Carries(msg, b)
  /\ todo'[n][i] = todo[n][i] \ {b}
  /\ \A m \in Node, j \in ChunkId : <<m, j>> # <<n, i>> =>
       todo'[m][j] = todo[m][j] /\ place'[m][j] = place[m][j]
  /\ net'[n][b.to] = Append(net[n][b.to], msg)
  /\ \A m \in Node, k \in Node : <<m, k>> # <<n, b.to>> => net'[m][k] = net[m][k]

\* What the message brings for each vertex: the saved value of the chunk's own row.
Payload(n, i, msg) ==
  /\ msg.rows # {}
  /\ msg.tensor = Stored(conf.gnn, chunk[n][i]) /\ msg.dir = chunk[n][i].dir
  /\ \A x \in msg.rows :
       /\ Holds(n, i, x[1])
       /\ x[2] = data[n][Sent(conf.gnn, chunk[n][i])][LocalId(conf.graph, n, x[1])]

LEMMA PushMessage ==
  ASSUME SendInv, AckInv, AlignInv, NEW n \in Node, NEW i \in ChunkId, VerticesPushOut(n, i)
  PROVE  \E b, msg : Pushed(n, i, b, msg) /\ Payload(n, i, msg)
<1>1. InQueue(n, i, "send") /\ todo[n][i] # {} /\ Send(n, i, "count", chunk[n][i])
  BY DEF VerticesPushOut
<1>2. PICK c : c = chunk[n][i]
  OBVIOUS
<1>3. PICK b : b = CHOOSE x \in todo[n][i] : TRUE
  OBVIOUS
<1>4. b \in todo[n][i]
  BY <1>1, <1>3
<1>5. /\ DOMAIN todo = Node /\ \A m \in Node : DOMAIN todo[m] = ChunkId
      /\ Wired(net, Node) /\ place \in [Node -> [ChunkId -> Place]]
  BY DEF AckInv, AckTypes
<1>6. b.to \in Node \ {n}
  BY <1>4 DEF SendInv, TodoAt, BatchOK
<1> DEFINE value(v) == data[n][Sent(conf.gnn, c)][LocalId(conf.graph, n, v)]
           R == {<<v, value(v)>> : v \in b.vtcs}
<1>7. PICK msg : msg = [kind |-> "data", tensor |-> Stored(conf.gnn, c), dir |-> c.dir, from |-> n, rows |-> R]
  OBVIOUS
<1>8. net' = [net EXCEPT ![n][b.to] = Append(@, msg)]
  BY <1>2, <1>3, <1>7 DEF VerticesPushOut
<1>9. msg.kind = "data" /\ msg.from = n /\ msg.rows = R
  BY <1>7
<1>10. Carries(msg, b)
  <2>1. \A x \in R : x[1] \in b.vtcs
    OBVIOUS
  <2>2. \A x \in R, y \in R : x[1] = y[1] => x = y
    OBVIOUS
  <2>3. \A v \in b.vtcs : \E x \in R : x[1] = v
    <3>1. ASSUME NEW v \in b.vtcs PROVE \E x \in R : x[1] = v
      <4>1. <<v, value(v)>> \in R /\ <<v, value(v)>>[1] = v
        OBVIOUS
      <4> QED BY <4>1
    <3> QED BY <3>1
  <2> HIDE DEF R
  <2> QED BY <1>9, <2>1, <2>2, <2>3 DEF Carries
<1>11. todo' = [todo EXCEPT ![n][i] = @ \ {b}]
  BY <1>3 DEF VerticesPushOut
<1>12. /\ todo'[n][i] = todo[n][i] \ {b}
       /\ \A m \in Node, j \in ChunkId : <<m, j>> # <<n, i>> => todo'[m][j] = todo[m][j]
  BY <1>5, <1>11
<1>13. /\ place[n][i] = "send" /\ place'[n][i] = "count"
       /\ \A m \in Node, j \in ChunkId : <<m, j>> # <<n, i>> => place'[m][j] = place[m][j]
  BY <1>1, <1>5 DEF InQueue, Send
<1>14. /\ net'[n][b.to] = Append(net[n][b.to], msg)
       /\ \A m \in Node, k \in Node : <<m, k>> # <<n, b.to>> => net'[m][k] = net[m][k]
  BY <1>5, <1>6, <1>8 DEF Wired
<1>15. Payload(n, i, msg)
  <2>1. b.vtcs # {} /\ \A v \in b.vtcs : Holds(n, i, v)
    BY <1>4 DEF SendInv, TodoAt, BatchOK
  <2>2. msg.tensor = Stored(conf.gnn, c) /\ msg.dir = c.dir /\ msg.rows = R
    BY <1>7
  <2>3. R # {} /\ \A x \in R : x[1] \in b.vtcs /\ x[2] = value(x[1])
    <3>1. PICK v \in b.vtcs : TRUE
      BY <2>1
    <3>2. <<v, value(v)>> \in R
      OBVIOUS
    <3>3. ASSUME NEW x \in R PROVE x[1] \in b.vtcs /\ x[2] = value(x[1])
      <4>1. PICK w \in b.vtcs : x = <<w, value(w)>>
        OBVIOUS
      <4>2. x[1] = w /\ x[2] = value(w)
        BY <4>1
      <4> HIDE DEF R, value
      <4> QED BY <4>2
    <3> HIDE DEF R, value
    <3> QED BY <3>2, <3>3
  <2>4. \A x \in R : Holds(n, i, x[1]) /\ x[2] = data[n][Sent(conf.gnn, c)][LocalId(conf.graph, n, x[1])]
    BY <2>1, <2>3
  <2> HIDE DEF R, value
  <2> QED BY <1>2, <2>2, <2>3, <2>4 DEF Payload
<1> HIDE DEF R, value
<1>16. Pushed(n, i, b, msg)
  BY <1>4, <1>6, <1>9, <1>10, <1>12, <1>13, <1>14 DEF Pushed
<1> QED BY <1>15, <1>16

LEMMA PushRounds ==
  ASSUME AlignInv, AlignInv', NEW n \in Node, NEW i \in ChunkId, VerticesPushOut(n, i)
  PROVE  /\ conf' = conf /\ UNCHANGED <<hand, ghostVtcsRecvd>>
         /\ \A m \in Node : RoundSame(m) /\ SameFor(m)
<1>1. /\ UNCHANGED <<conf, hand, ghostVtcsRecvd, stage, where, entered, currEpoch, schBlock, scatter, scBlock>>
      /\ stage[n] = "running" /\ place[n][i] = "send"
      /\ Send(n, i, "count", chunk[n][i])
  BY DEF VerticesPushOut, run, scheduler, scatterer, counters, receivers, InQueue
<1>2. chunk \in [Node -> [ChunkId -> Chunk]] /\ place \in [Node -> [ChunkId -> Place]]
  BY AlignFacts
<1>3. /\ \A m \in Node \ {n} : place'[m] = place[m] /\ chunk'[m] = chunk[m]
      /\ \A m \in Node, j \in ChunkId : place'[m][j] \in Scattered <=> place[m][j] \in Scattered
  BY <1>1, <1>2 DEF Send, Scattered
<1>4. Gap(n)' = Gap(n)
  BY <1>1, GapStill
<1>5. \A m \in Node \ {n} : Gap(m)' = Gap(m)
  BY <1>1, <1>3, GapSame
<1>6. \A m \in Node : Closing(m)' <=> Closing(m)
  BY <1>1 DEF Closing
<1>7. \A m \in Node : RoundSame(m)
  BY <1>1, <1>3, <1>4, <1>5, <1>6, RoundStays
<1> QED BY <1>1, <1>7 DEF RoundSame, SameFor, Expected

\* The message is in time, and it shares no value with another one.
LEMMA PushInTime ==
  ASSUME SendInv, AlignInv, conf' = conf, NEW n \in Node, NEW i \in ChunkId, NEW b, NEW msg,
         Pushed(n, i, b, msg), \A m \in Node : RoundSame(m) /\ SameFor(m)
  PROVE  /\ InTime(b.to, msg)'
         /\ \A x : InTime(b.to, x) /\ x.from = n => Apart(x, msg) /\ Apart(msg, x)
<1>1. /\ b \in todo[n][i] /\ b.to \in Node \ {n} /\ msg.from = n /\ Carries(msg, b)
      /\ place[n][i] = "send" /\ todo'[n][i] = todo[n][i] \ {b}
  BY DEF Pushed
<1>2. BatchOK(n, i, b) /\ TodoAt(n, i)
  BY <1>1 DEF SendInv, TodoAt
<1>3. PICK k \in Node \ {n} : k = b.to
  BY <1>1
<1>4. /\ Expected(k) = Passed(n) + 1
      /\ \A v \in b.vtcs : v \in Wanted(k, n) /\ Holds(n, i, v)
  BY <1>2, <1>3 DEF BatchOK
<1>5. Begun(n, i)' = Expected(k)'
  <2>1. Begun(n, i) = Passed(n) + 1
    BY <1>1 DEF Begun, Scattered
  <2> QED BY <1>3, <1>4, <2>1 DEF RoundSame, SameFor
<1>6. Node' = Node /\ ChunkId' = ChunkId /\ conf \in Confs
  BY ConfSame, AlignFacts
<1>7. Wanted(k, n)' = Wanted(k, n) /\ \A m, j, v : Holds(m, j, v)' <=> Holds(m, j, v)
  BY <1>3, WantsSame, HoldsSame
<1>8. ASSUME NEW x \in msg.rows, NEW j \in ChunkId, Holds(n, j, x[1])
      PROVE  Begun(n, j)' = Expected(k)' /\ \A d \in todo'[n][j] : d.to = k => x[1] \notin d.vtcs
  <2>1. x[1] \in b.vtcs
    BY <1>1 DEF Carries
  <2>2. j = i
    BY <1>4, <1>6, <1>8, <2>1, OneHolder
  <2>3. ASSUME NEW d \in todo'[n][i], d.to = k PROVE x[1] \notin d.vtcs
    <3>1. d \in todo[n][i] /\ d # b
      BY <1>1, <2>3
    <3> QED BY <1>1, <1>2, <1>3, <2>1, <2>3, <3>1 DEF TodoAt
  <2> QED BY <1>5, <2>2, <2>3
<1>9. \A x \in msg.rows : x[1] \in Wanted(k, n)
  BY <1>1, <1>4 DEF Carries
<1>10. InTime(k, msg)'
  <2>1. msg.from \in Node' \ {k}
    BY <1>1, <1>3, <1>6
  <2>2. \A x \in msg.rows, y \in msg.rows : x[1] = y[1] => x = y
    BY <1>1 DEF Carries
  <2>3. \A x \in msg.rows :
          /\ x[1] \in Wanted(k, msg.from)'
          /\ \A j \in ChunkId' : Holds(msg.from, j, x[1])' =>
               Begun(msg.from, j)' = Expected(k)' /\ \A d \in todo'[msg.from][j] : d.to = k => x[1] \notin d.vtcs
    BY <1>1, <1>6, <1>7, <1>8, <1>9
  <2> QED BY <2>1, <2>2, <2>3 DEF InTime
<1>11. ASSUME NEW x, InTime(k, x), x.from = n
       PROVE  Apart(x, msg) /\ Apart(msg, x)
  <2>1. ASSUME NEW r \in x.rows, NEW s \in msg.rows, r[1] = s[1] PROVE FALSE
    <3>1. r[1] \in b.vtcs
      BY <1>1, <2>1 DEF Carries
    <3>2. Holds(n, i, r[1])
      BY <1>4, <3>1
    <3>3. \A d \in todo[n][i] : d.to = k => r[1] \notin d.vtcs
      BY <1>11, <3>2 DEF InTime
    <3> QED BY <1>1, <1>3, <3>1, <3>3
  <2> QED BY <2>1 DEF Apart
<1> QED BY <1>3, <1>10, <1>11

\* All messages for a server stay in time.
StayInTime(n) == \A x : InTime(n, x) => InTime(n, x)'

LEMMA StayTimely ==
  ASSUME conf' = conf, NEW n \in Node, SameFor(n), \A m \in Node : SenderSame(n, m)
  PROVE  StayInTime(n)
<1>1. ASSUME NEW x, InTime(n, x) PROVE InTime(n, x)'
  <2>1. x.from \in Node
    BY <1>1 DEF InTime
  <2> QED BY <1>1, <2>1, InTimeKept DEF SenderSame
<1> QED BY <1>1 DEF StayInTime

\* A queue with one more message, that is in time if it has values.
LEMMA NetAppended ==
  ASSUME NEW a \in Node, NEW n \in Node, NetAt(a, n), IsQueue(net[a][n]), NEW msg,
         net'[a][n] = Append(net[a][n], msg), StayInTime(n),
         msg.kind = "data" => msg.from = a /\ InTime(n, msg)',
         msg.kind = "data" => \A x : InTime(n, x) /\ x.from = a => Apart(x, msg) /\ Apart(msg, x)
  PROVE  NetAt(a, n)'
<1>1. PICK q : q = net[a][n] /\ IsQueue(q)
  OBVIOUS
<1>2. PICK r : r = net'[a][n] /\ r = Append(q, msg)
  BY <1>1
<1>3. PICK L \in Nat : L = Len(q)
  BY <1>1, QueueLen
<1>4. Places(r, "data") = Places(q, "data") \cup (IF msg.kind = "data" THEN {L + 1} ELSE {})
  BY <1>1, <1>2, <1>3, PlacesAppend
<1>5. /\ \A k \in 1..L : r[k] = q[k]
      /\ r[L + 1] = msg
  BY <1>1, <1>2, <1>3, QueueAppend
<1>6. Places(q, "data") \subseteq 1..L
  BY <1>1, <1>3, PlacesFinite
<1>7. \A k \in Places(q, "data") : r[k] = q[k] /\ q[k].from = a /\ InTime(n, q[k])
  BY <1>1, <1>5, <1>6 DEF NetAt
<1>8. ASSUME NEW k \in Places(r, "data")
      PROVE  /\ net'[a][n][k].from = a /\ InTime(n, net[a][n][k])'
             /\ \A l \in Places(r, "data") : k # l => Apart(r[k], r[l])
  <2>1. PICK x : x = r[k]
    OBVIOUS
  <2>2. x.from = a /\ InTime(n, x)' /\ (\A l \in Places(r, "data") : k # l => Apart(x, r[l]))
    <3>1. CASE k \in Places(q, "data")
      <4>1. x = q[k] /\ x.from = a /\ InTime(n, x)
        BY <1>7, <2>1, <3>1
      <4>2. InTime(n, x)'
        BY <4>1 DEF StayInTime
      <4>3. ASSUME NEW l \in Places(r, "data"), k # l PROVE Apart(x, r[l])
        <5>1. CASE l \in Places(q, "data")
          <6>1. Apart(q[k], q[l])
            BY <1>1, <3>1, <4>3, <5>1 DEF NetAt
          <6> QED BY <1>7, <4>1, <5>1, <6>1
        <5>2. CASE l \notin Places(q, "data")
          <6>1. msg.kind = "data" /\ l = L + 1
            BY <1>4, <5>2
          <6>2. r[l] = msg
            BY <1>5, <6>1
          <6>3. Apart(x, msg)
            BY <4>1, <6>1
          <6> QED BY <6>2, <6>3
        <5> QED BY <5>1, <5>2
      <4> QED BY <4>1, <4>2, <4>3
    <3>2. CASE k \notin Places(q, "data")
      <4>1. msg.kind = "data" /\ k = L + 1
        BY <1>4, <3>2
      <4>2. x = msg
        BY <1>5, <2>1, <4>1
      <4>3. ASSUME NEW l \in Places(r, "data"), k # l PROVE Apart(x, r[l])
        <5>1. l \in Places(q, "data")
          BY <1>4, <4>1, <4>3
        <5>2. PICK y : y = q[l]
          OBVIOUS
        <5>3. InTime(n, y) /\ y.from = a /\ r[l] = y
          BY <1>7, <5>1, <5>2
        <5> QED BY <4>1, <4>2, <5>3
      <4> QED BY <4>1, <4>2, <4>3
    <3> QED BY <3>1, <3>2
  <2>3. InTime(n, net[a][n][k])'
    BY <1>2, <2>1, <2>2 DEF InTime
  <2> QED BY <1>2, <2>1, <2>2, <2>3
<1> QED BY <1>2, <1>8 DEF NetAt

\* A queue without its first message.
LEMMA NetTaken ==
  ASSUME NEW a \in Node, NEW n \in Node, NetAt(a, n), IsQueue(net[a][n]), net[a][n] # <<>>,
         net'[a][n] = Tail(net[a][n]), StayInTime(n)
  PROVE  NetAt(a, n)'
<1>1. PICK q : q = net[a][n] /\ IsQueue(q) /\ q # <<>>
  OBVIOUS
<1>2. PICK r : r = net'[a][n] /\ r = Tail(q)
  BY <1>1
<1>3. PICK L \in Nat : L = Len(q) /\ L >= 1 /\ DOMAIN q = 1..L
  BY <1>1, QueueLen, QueueTail
<1>4. DOMAIN r = 1..L - 1
  <2>1. IsQueue(r) /\ Len(r) = L - 1
    BY <1>1, <1>2, <1>3, QueueTail
  <2> QED BY <2>1, QueueLen
<1>5. \A k \in 1..L - 1 : r[k] = q[k + 1]
  BY <1>1, <1>2, <1>3, QueueTail
<1>6. \A k \in Places(r, "data") : k \in Int /\ k + 1 \in Places(q, "data") /\ r[k] = q[k + 1]
  BY <1>3, <1>4, <1>5 DEF Places
<1>7. ASSUME NEW k \in Places(r, "data")
      PROVE  /\ net'[a][n][k].from = a /\ InTime(n, net[a][n][k])'
             /\ \A l \in Places(r, "data") : k # l => Apart(r[k], r[l])
  <2>1. PICK x : x = r[k]
    OBVIOUS
  <2>2. x = q[k + 1] /\ k + 1 \in Places(q, "data")
    BY <1>6, <2>1
  <2>3. x.from = a /\ InTime(n, x)
    BY <1>1, <2>2 DEF NetAt
  <2>4. InTime(n, x)'
    BY <2>3 DEF StayInTime
  <2>5. ASSUME NEW l \in Places(r, "data"), k # l PROVE Apart(r[k], r[l])
    <3>1. k + 1 # l + 1 /\ l + 1 \in Places(q, "data") /\ r[l] = q[l + 1]
      BY <1>6, <2>5
    <3>2. Apart(q[k + 1], q[l + 1])
      BY <1>1, <2>2, <3>1 DEF NetAt
    <3> QED BY <2>1, <2>2, <3>1, <3>2
  <2>6. InTime(n, net[a][n][k])'
    BY <1>2, <2>1, <2>4 DEF InTime
  <2> QED BY <1>2, <2>1, <2>3, <2>5, <2>6
<1> QED BY <1>2, <1>7 DEF NetAt

LEMMA HandAppended ==
  ASSUME NEW a \in Node, NEW n \in Node, HandAt(n), hand'[n] = hand[n], StayInTime(n),
         IsQueue(net[a][n]), NEW msg, net'[a][n] = Append(net[a][n], msg),
         \A m \in Node \ {a} : net'[m][n] = net[m][n],
         msg.kind = "data" => \A x : InTime(n, x) /\ x.from = a => Apart(x, msg)
  PROVE  HandAt(n)'
<1>1. PICK q : q = net[a][n] /\ IsQueue(q)
  OBVIOUS
<1>2. PICK r : r = net'[a][n] /\ r = Append(q, msg)
  BY <1>1
<1>3. PICK L \in Nat : L = Len(q)
  BY <1>1, QueueLen
<1>4. Places(r, "data") = Places(q, "data") \cup (IF msg.kind = "data" THEN {L + 1} ELSE {})
  BY <1>1, <1>2, <1>3, PlacesAppend
<1>5. /\ \A k \in 1..L : r[k] = q[k]
      /\ r[L + 1] = msg
  BY <1>1, <1>2, <1>3, QueueAppend
<1>6. Places(q, "data") \subseteq 1..L
  BY <1>1, <1>3, PlacesFinite
<1>7. ASSUME NEW x \in hand[n]
      PROVE  /\ InTime(n, x)' /\ \A y \in hand[n] : y # x => Apart(x, y)
             /\ \A k \in Places(net'[x.from][n], "data") : Apart(x, net'[x.from][n][k])
  <2>1. InTime(n, x) /\ x.from \in Node /\ \A y \in hand[n] : y # x => Apart(x, y)
    BY DEF HandAt, InTime
  <2>2. InTime(n, x)'
    BY <2>1 DEF StayInTime
  <2>3. CASE x.from # a
    <3>1. net'[x.from][n] = net[x.from][n]
      BY <2>1, <2>3
    <3> QED BY <2>1, <2>2, <3>1 DEF HandAt
  <2>4. CASE x.from = a
    <3>1. ASSUME NEW k \in Places(r, "data") PROVE Apart(x, r[k])
      <4>1. CASE k \in Places(q, "data")
        <5>1. Apart(x, q[k]) /\ r[k] = q[k]
          BY <1>1, <1>5, <1>6, <2>4, <4>1 DEF HandAt
        <5> QED BY <5>1
      <4>2. CASE k \notin Places(q, "data")
        <5>1. msg.kind = "data" /\ k = L + 1
          BY <1>4, <4>2
        <5>2. Apart(x, msg) /\ r[k] = msg
          BY <1>5, <2>1, <2>4, <5>1
        <5> QED BY <5>2
      <4> QED BY <4>1, <4>2
    <3> QED BY <1>2, <2>1, <2>2, <2>4, <3>1
  <2> QED BY <2>3, <2>4
<1> QED BY <1>7 DEF HandAt

\* A value that m owes n, on the way or not sent yet.
Owing(n, m, v) == (v \in Wanted(n, m) /\ Unsent(n, m, v)) \/ OnNet(n, m, v)

LEMMA OwedShift ==
  ASSUME conf' = conf, NEW n \in Node, SameFor(n),
         \A v \in Wants(n) : InHand(n, v)' <=> InHand(n, v),
         \A m \in Node \ {n} : \A v \in Wants(n) : Owing(n, m, v)' <=> Owing(n, m, v)
  PROVE  Owed(n)' = Owed(n)
<1>1. Node' = Node
  BY ConfSame
<1>2. Wants(n)' = Wants(n)
  BY WantsSame
<1>3. Owed(n) = {v \in Wants(n) : InHand(n, v) \/ \E m \in Node \ {n} : Owing(n, m, v)}
  BY DEF Owed, Owing
<1>4. Owed(n)' = {v \in Wants(n)' : InHand(n, v)' \/ \E m \in Node' \ {n} : Owing(n, m, v)'}
  BY DEF Owed, Owing
<1> QED BY <1>1, <1>2, <1>3, <1>4

Has(msg, v) == \E x \in msg.rows : x[1] = v

LEMMA OnNetAppended ==
  ASSUME NEW a \in Node, NEW n \in Node, IsQueue(net[a][n]), NEW msg,
         net'[a][n] = Append(net[a][n], msg), NEW v
  PROVE  OnNet(n, a, v)' <=> OnNet(n, a, v) \/ (msg.kind = "data" /\ Has(msg, v))
<1>1. PICK q : q = net[a][n] /\ IsQueue(q)
  OBVIOUS
<1>2. PICK r : r = net'[a][n] /\ r = Append(q, msg)
  BY <1>1
<1>3. PICK L \in Nat : L = Len(q)
  BY <1>1, QueueLen
<1>4. Places(r, "data") = Places(q, "data") \cup (IF msg.kind = "data" THEN {L + 1} ELSE {})
  BY <1>1, <1>2, <1>3, PlacesAppend
<1>5. /\ \A k \in 1..L : r[k] = q[k]
      /\ r[L + 1] = msg
  BY <1>1, <1>2, <1>3, QueueAppend
<1>6. Places(q, "data") \subseteq 1..L
  BY <1>1, <1>3, PlacesFinite
<1>7. (\E k \in Places(r, "data") : Has(r[k], v)) <=>
        (\E k \in Places(q, "data") : Has(q[k], v)) \/ (msg.kind = "data" /\ Has(msg, v))
  <2>1. ASSUME NEW k \in Places(q, "data") PROVE k \in Places(r, "data") /\ r[k] = q[k]
    BY <1>4, <1>5, <1>6
  <2>2. msg.kind = "data" => L + 1 \in Places(r, "data") /\ r[L + 1] = msg
    BY <1>4, <1>5
  <2>3. ASSUME NEW k \in Places(r, "data"), k \notin Places(q, "data")
        PROVE  msg.kind = "data" /\ r[k] = msg
    BY <1>4, <1>5, <2>3
  <2> QED BY <2>1, <2>2, <2>3
<1> QED BY <1>1, <1>2, <1>7 DEF OnNet, Has

LEMMA OnNetTaken ==
  ASSUME NEW a \in Node, NEW n \in Node, IsQueue(net[a][n]), net[a][n] # <<>>,
         net'[a][n] = Tail(net[a][n]), NEW v
  PROVE  OnNet(n, a, v) <=> OnNet(n, a, v)' \/ (Head(net[a][n]).kind = "data" /\ Has(Head(net[a][n]), v))
<1>1. PICK q : q = net[a][n] /\ IsQueue(q) /\ q # <<>>
  OBVIOUS
<1>2. PICK r : r = net'[a][n] /\ r = Tail(q)
  BY <1>1
<1>3. PICK L \in Nat : L = Len(q) /\ L >= 1 /\ DOMAIN q = 1..L
  BY <1>1, QueueLen, QueueTail
<1>4. DOMAIN r = 1..L - 1
  <2>1. IsQueue(r) /\ Len(r) = L - 1
    BY <1>1, <1>2, <1>3, QueueTail
  <2> QED BY <2>1, QueueLen
<1>5. (\A k \in 1..L - 1 : r[k] = q[k + 1]) /\ Head(q) = q[1]
  BY <1>1, <1>2, <1>3, QueueTail
<1>6. ASSUME NEW k \in Places(r, "data") PROVE k + 1 \in Places(q, "data") /\ q[k + 1] = r[k]
  BY <1>3, <1>4, <1>5 DEF Places
<1>7. ASSUME NEW k \in Places(q, "data"), k # 1 PROVE k - 1 \in Places(r, "data") /\ r[k - 1] = q[k]
  <2>1. k \in 2..L
    BY <1>3, <1>7 DEF Places
  <2>2. r[k - 1] = q[k - 1 + 1]
    BY <1>3, <1>5, <2>1
  <2>3. k - 1 + 1 = k /\ k - 1 \in 1..L - 1
    BY <1>3, <2>1
  <2> QED BY <1>4, <1>7, <2>2, <2>3 DEF Places
<1>8. 1 \in Places(q, "data") <=> Head(q).kind = "data"
  BY <1>3, <1>5 DEF Places
<1>9. (\E k \in Places(q, "data") : Has(q[k], v)) <=>
        (\E k \in Places(r, "data") : Has(r[k], v)) \/ (Head(q).kind = "data" /\ Has(Head(q), v))
  <2>1. PICK h : h = Head(q) /\ h = q[1]
    BY <1>5
  <2>2. ASSUME NEW k \in Places(q, "data"), Has(q[k], v)
        PROVE  (\E l \in Places(r, "data") : Has(r[l], v)) \/ (h.kind = "data" /\ Has(h, v))
    <3>1. CASE k = 1
      BY <1>8, <2>1, <2>2, <3>1
    <3>2. CASE k # 1
      BY <1>7, <2>2, <3>2
    <3> QED BY <3>1, <3>2
  <2>3. ASSUME NEW l \in Places(r, "data"), Has(r[l], v)
        PROVE  \E k \in Places(q, "data") : Has(q[k], v)
    BY <1>6, <2>3
  <2>4. ASSUME h.kind = "data", Has(h, v)
        PROVE  \E k \in Places(q, "data") : Has(q[k], v)
    BY <1>8, <2>1, <2>4
  <2> QED BY <2>1, <2>2, <2>3, <2>4
<1> QED BY <1>1, <1>2, <1>9 DEF OnNet, Has

\* A receiver's share of what a server owes is that of a chunk's batches and rounds.
LEMMA OwingStays ==
  ASSUME conf' = conf, NEW k \in Node, NEW m \in Node, NEW v, SameFor(k), net'[m][k] = net[m][k],
         \A j \in ChunkId : Begun(m, j)' = Begun(m, j),
         \A j \in ChunkId : \A b : b.to = k /\ v \in b.vtcs => (b \in todo'[m][j] <=> b \in todo[m][j])
  PROVE  Owing(k, m, v)' <=> Owing(k, m, v)
<1>1. ChunkId' = ChunkId /\ Wanted(k, m)' = Wanted(k, m)
  BY ConfSame, WantsSame
<1>2. \A j : Holds(m, j, v)' <=> Holds(m, j, v)
  BY HoldsSame
<1>3. Unsent(k, m, v)' <=> Unsent(k, m, v)
  BY <1>1, <1>2 DEF Unsent, SameFor
<1>4. OnNet(k, m, v)' <=> OnNet(k, m, v)
  BY DEF OnNet
<1> QED BY <1>1, <1>3, <1>4 DEF Owing

LEMMA PushOwed ==
  ASSUME SendInv, AckInv, AlignInv, conf' = conf, NEW n \in Node, NEW i \in ChunkId, NEW b, NEW msg,
         Pushed(n, i, b, msg), \A m \in Node : RoundSame(m) /\ SameFor(m), hand' = hand, NEW k \in Node
  PROVE  Owed(k)' = Owed(k)
<1>1. /\ b \in todo[n][i] /\ b.to \in Node \ {n} /\ Carries(msg, b) /\ msg.kind = "data"
      /\ todo'[n][i] = todo[n][i] \ {b}
      /\ \A m \in Node, j \in ChunkId : <<m, j>> # <<n, i>> => todo'[m][j] = todo[m][j]
      /\ net'[n][b.to] = Append(net[n][b.to], msg)
      /\ \A m \in Node, l \in Node : <<m, l>> # <<n, b.to>> => net'[m][l] = net[m][l]
  BY DEF Pushed
<1>2. Wired(net, Node)
  BY AckFacts
<1>3. \A m \in Node, j \in ChunkId : Begun(m, j)' = Begun(m, j)
  BY DEF RoundSame
<1>4. ASSUME NEW m \in Node \ {k}, NEW v
      PROVE  Owing(k, m, v)' <=> Owing(k, m, v)
  <2>1. CASE <<m, k>> # <<n, b.to>>
    <3>1. net'[m][k] = net[m][k]
      BY <1>1, <2>1
    <3>2. \A j \in ChunkId : \A d : d.to = k /\ v \in d.vtcs => (d \in todo'[m][j] <=> d \in todo[m][j])
      BY <1>1, <2>1
    <3> QED BY <1>3, <3>1, <3>2, OwingStays
  <2>2. CASE <<m, k>> = <<n, b.to>>
    <3>1. m = n /\ k = b.to
      BY <2>2
    <3>2. OnNet(k, n, v)' <=> OnNet(k, n, v) \/ Has(msg, v)
      <4>1. IsQueue(net[n][k])
        BY <1>2 DEF Wired
      <4> QED BY <1>1, <3>1, <4>1, OnNetAppended
    <3>3. CASE v \in b.vtcs
      <4>1. Has(msg, v)
        BY <1>1, <3>3 DEF Carries, Has
      <4>2. Owing(k, n, v)'
        BY <3>2, <4>1 DEF Owing
      <4>3. BatchOK(n, i, b)
        BY <1>1 DEF SendInv, TodoAt
      <4>4. v \in Wanted(k, n) /\ Unsent(k, n, v)
        BY <1>1, <3>1, <3>3, <4>3 DEF BatchOK, Unsent
      <4>5. Owing(k, n, v)
        BY <4>4 DEF Owing
      <4> QED BY <3>1, <4>2, <4>5
    <3>4. CASE v \notin b.vtcs
      <4>1. ~Has(msg, v)
        BY <1>1, <3>4 DEF Carries, Has
      <4>2. \A j \in ChunkId : \A d : v \in d.vtcs => (d \in todo'[n][j] <=> d \in todo[n][j])
        BY <1>1, <3>4
      <4>3. ChunkId' = ChunkId /\ Wanted(k, n)' = Wanted(k, n)
        BY ConfSame, WantsSame
      <4>4. \A j : Holds(n, j, v)' <=> Holds(n, j, v)
        BY HoldsSame
      <4>5. Unsent(k, n, v)' <=> Unsent(k, n, v)
        BY <1>3, <4>2, <4>3, <4>4 DEF Unsent, SameFor
      <4> QED BY <3>1, <3>2, <4>1, <4>3, <4>5 DEF Owing
    <3> QED BY <3>3, <3>4
  <2> QED BY <2>1, <2>2
<1>5. \A v \in Wants(k) : InHand(k, v)' <=> InHand(k, v)
  BY DEF InHand
<1> QED BY <1>4, <1>5, OwedShift

LEMMA PushSettled ==
  ASSUME SendInv, AckInv, AlignInv, AlignInv', NEW n \in Node, NEW i \in ChunkId, VerticesPushOut(n, i)
  PROVE  \A k \in Node : Settled(k)
<1>1. PICK b, msg : Pushed(n, i, b, msg)
  BY PushMessage
<1>2. conf' = conf /\ hand' = hand /\ \A m \in Node : RoundSame(m) /\ SameFor(m)
  BY PushRounds
<1> QED BY <1>1, <1>2, PushOwed DEF Settled

LEMMA PushSends ==
  ASSUME SendInv, AckInv, AlignInv, AlignInv', NEW n \in Node, NEW i \in ChunkId, VerticesPushOut(n, i)
  PROVE  SendInv'
<1>1. PICK b, msg : Pushed(n, i, b, msg)
  BY PushMessage
<1>2. /\ conf' = conf /\ UNCHANGED <<hand, ghostVtcsRecvd>>
      /\ \A m \in Node : RoundSame(m) /\ SameFor(m)
  BY PushRounds
<1>3. /\ b \in todo[n][i] /\ b.to \in Node \ {n} /\ msg.from = n
      /\ place[n][i] = "send" /\ place'[n][i] = "count"
      /\ todo'[n][i] = todo[n][i] \ {b}
      /\ \A m \in Node, j \in ChunkId : <<m, j>> # <<n, i>> =>
           todo'[m][j] = todo[m][j] /\ place'[m][j] = place[m][j]
      /\ net'[n][b.to] = Append(net[n][b.to], msg)
      /\ \A m \in Node, k \in Node : <<m, k>> # <<n, b.to>> => net'[m][k] = net[m][k]
  BY <1>1 DEF Pushed
<1>4. Node' = Node /\ ChunkId' = ChunkId
  BY <1>2, ConfSame
<1>5. \A m \in Node, k \in Node : SenderSame(k, m)
  <2>1. ASSUME NEW m \in Node, NEW j \in ChunkId, NEW d \in todo'[m][j] PROVE d \in todo[m][j]
    <3>1. CASE <<m, j>> = <<n, i>>
      BY <1>3, <3>1
    <3>2. CASE <<m, j>> # <<n, i>>
      BY <1>3, <3>2
    <3> QED BY <3>1, <3>2
  <2> QED BY <1>2, <2>1 DEF SenderSame, InTimeSame, RoundSame
<1>6. \A k \in Node : StayInTime(k)
  BY <1>2, <1>5, StayTimely
<1>7. /\ InTime(b.to, msg)'
      /\ \A x : InTime(b.to, x) /\ x.from = n => Apart(x, msg) /\ Apart(msg, x)
  BY <1>1, <1>2, PushInTime
<1>8. \A m \in Node, k \in Node : IsQueue(net[m][k])
  BY AckFacts DEF Wired
<1>9. ASSUME NEW m \in Node, NEW j \in ChunkId PROVE TodoAt(m, j)'
  <2>1. TodoAt(m, j)
    BY DEF SendInv
  <2>2. ASSUME NEW d \in todo[m][j] PROVE BatchOK(m, j, d)'
    <3>1. BatchOK(m, j, d) /\ d.to \in Node
      BY <2>1 DEF TodoAt, BatchOK
    <3> QED BY <1>2, <3>1, BatchKept DEF RoundSame
  <2>3. \A d \in todo'[m][j] : d \in todo[m][j]
    <3>1. CASE <<m, j>> = <<n, i>>
      BY <1>3, <3>1
    <3>2. CASE <<m, j>> # <<n, i>>
      BY <1>3, <3>2
    <3> QED BY <3>1, <3>2
  <2>4. place'[m][j] \notin {"send", "count"} => todo'[m][j] = {}
    BY <1>3, <2>1 DEF TodoAt
  <2> QED BY <2>1, <2>2, <2>3, <2>4 DEF TodoAt
<1>10. ASSUME NEW m \in Node, NEW k \in Node PROVE NetAt(m, k)'
  <2>1. NetAt(m, k)
    BY DEF SendInv
  <2>2. CASE <<m, k>> # <<n, b.to>>
    <3>1. net'[m][k] = net[m][k]
      BY <1>3, <2>2
    <3> QED BY <1>2, <1>5, <2>1, <3>1, NetSame
  <2>3. CASE <<m, k>> = <<n, b.to>>
    <3>1. m = n /\ k = b.to
      BY <2>3
    <3> QED BY <1>3, <1>6, <1>7, <1>8, <2>1, <3>1, NetAppended
  <2> QED BY <2>2, <2>3
<1>11. ASSUME NEW k \in Node PROVE HandAt(k)'
  <2>1. HandAt(k) /\ hand'[k] = hand[k]
    BY <1>2 DEF SendInv
  <2>2. CASE k # b.to
    <3>1. \A m \in Node : net'[m][k] = net[m][k]
      BY <1>3, <2>2
    <3> QED BY <1>2, <1>5, <2>1, <3>1, HandSame
  <2>3. CASE k = b.to
    <3>1. \A m \in Node \ {n} : net'[m][k] = net[m][k]
      BY <1>3
    <3>2. IsQueue(net[n][k]) /\ net'[n][k] = Append(net[n][k], msg)
      BY <1>3, <1>8, <2>3
    <3>3. \A x : InTime(k, x) /\ x.from = n => Apart(x, msg)
      BY <1>7, <2>3
    <3> QED BY <1>6, <2>1, <3>1, <3>2, <3>3, HandAppended
  <2> QED BY <2>2, <2>3
<1>12. \A k \in Node : ClosedAt(k)'
  BY <1>2, ClosedKept DEF SendInv, RoundSame
<1>13. ASSUME NEW k \in Node PROVE CountAt(k)'
  <2>1. Owed(k)' = Owed(k)
    BY PushSettled DEF Settled
  <2> QED BY <1>2, <2>1, CountKept DEF SendInv, RoundSame
<1> QED BY <1>4, <1>9, <1>10, <1>11, <1>12, <1>13 DEF SendInv

-----------------------------------------------------------------------------
(* The receivers.                                                          *)

LEMMA ReceiverRounds ==
  ASSUME AlignInv, AlignInv', UNCHANGED <<conf, chunk, place, currEpoch, scatter, todo>>
  PROVE  /\ \A m \in Node : RoundSame(m) /\ SameFor(m) /\ StayInTime(m)
         /\ \A m \in Node, k \in Node : SenderSame(k, m)
<1>1. \A m \in Node : Closing(m)' <=> Closing(m)
  BY DEF Closing
<1>2. \A m \in Node : RoundSame(m)
  BY <1>1, GapSame, RoundStays
<1>3. \A m \in Node : SameFor(m)
  BY <1>2 DEF RoundSame, SameFor, Expected
<1>4. \A m \in Node, k \in Node : SenderSame(k, m)
  BY <1>2 DEF SenderSame, InTimeSame, RoundSame
<1> QED BY <1>2, <1>3, <1>4, StayTimely

\* What the receivers leave: all but the values on the net and in hand, and the counter.
LEMMA ReceiverKeeps ==
  ASSUME SendInv, AlignInv, AlignInv', UNCHANGED <<conf, chunk, place, currEpoch, scatter, todo>>
  PROVE  /\ \A m \in Node, j \in ChunkId : TodoAt(m, j)'
         /\ \A m \in Node : ClosedAt(m)'
<1>1. \A m \in Node : RoundSame(m) /\ SameFor(m)
  BY ReceiverRounds
<1>2. ASSUME NEW m \in Node, NEW j \in ChunkId PROVE TodoAt(m, j)'
  <2>1. TodoAt(m, j) /\ \A b \in todo[m][j] : b.to \in Node
    BY DEF SendInv, TodoAt, BatchOK
  <2>2. place'[m][j] \in {"send", "count"} \/ todo[m][j] = {}
    BY <2>1 DEF TodoAt
  <2> QED BY <1>1, <2>1, <2>2, TodoKept DEF RoundSame
<1>3. \A m \in Node : ClosedAt(m)'
  BY <1>1, ClosedKept DEF SendInv, RoundSame
<1> QED BY <1>2, <1>3

\* A message of a moves from the net into the hands of n, or an ack is read.
LEMMA HandTaken ==
  ASSUME conf \in Confs, NEW a \in Node, NEW n \in Node, HandAt(n), NetAt(a, n), StayInTime(n),
         IsQueue(net[a][n]), net[a][n] # <<>>, net'[a][n] = Tail(net[a][n]),
         \A m \in Node \ {a} : net'[m][n] = net[m][n],
         \/ hand'[n] = hand[n]
         \/ Head(net[a][n]).kind = "data" /\ hand'[n] = hand[n] \cup {Head(net[a][n])}
  PROVE  HandAt(n)'
<1>1. PICK q : q = net[a][n] /\ IsQueue(q) /\ q # <<>>
  OBVIOUS
<1>2. PICK r : r = net'[a][n] /\ r = Tail(q)
  BY <1>1
<1>3. PICK L \in Nat : L = Len(q) /\ L >= 1 /\ DOMAIN q = 1..L
  BY <1>1, QueueLen, QueueTail
<1>4. DOMAIN r = 1..L - 1
  <2>1. IsQueue(r) /\ Len(r) = L - 1
    BY <1>1, <1>2, <1>3, QueueTail
  <2> QED BY <2>1, QueueLen
<1>5. PICK h : h = Head(q) /\ h = q[1]
  BY <1>1, QueueTail
<1>6. \A k \in 1..L - 1 : r[k] = q[k + 1]
  BY <1>1, <1>2, <1>3, QueueTail
<1>7. \A k \in Places(r, "data") : k + 1 # 1 /\ k + 1 \in Places(q, "data") /\ r[k] = q[k + 1]
  BY <1>3, <1>4, <1>6 DEF Places
<1>8. h.kind = "data" => 1 \in Places(q, "data")
  BY <1>3, <1>5 DEF Places
<1>9. \A x \in hand'[n] : x \in hand[n] \/ (h.kind = "data" /\ x = h)
  BY <1>1, <1>5
<1>10. ASSUME h.kind = "data"
       PROVE  /\ InTime(n, h) /\ h.from = a
              /\ \A k \in Places(r, "data") : Apart(h, r[k])
              /\ \A x \in hand[n] : Apart(x, h) /\ Apart(h, x)
  <2>1. InTime(n, h) /\ h.from = a
    BY <1>1, <1>5, <1>8, <1>10 DEF NetAt
  <2>2. ASSUME NEW k \in Places(r, "data") PROVE Apart(h, r[k])
    <3>1. Apart(q[1], q[k + 1])
      BY <1>1, <1>7, <1>8, <1>10 DEF NetAt
    <3> QED BY <1>5, <1>7, <3>1
  <2>3. ASSUME NEW x \in hand[n] PROVE Apart(x, h) /\ Apart(h, x)
    <3>1. CASE x.from = a
      <4>1. Apart(x, q[1])
        BY <1>1, <1>8, <1>10, <3>1 DEF HandAt
      <4> QED BY <1>5, <4>1 DEF Apart
    <3>2. CASE x.from # a
      <4>1. InTime(n, x)
        BY DEF HandAt
      <4>2. x.from \in Node /\ (\A y \in x.rows : y[1] \in Wanted(n, x.from))
        BY <4>1 DEF InTime
      <4>3. \A y \in h.rows : y[1] \in Wanted(n, a)
        BY <2>1 DEF InTime
      <4>4. \A y \in h.rows, z \in x.rows : y[1] # z[1]
        BY <3>2, <4>2, <4>3, WantedFacts
      <4> QED BY <4>4 DEF Apart
    <3> QED BY <3>1, <3>2
  <2> QED BY <2>1, <2>2, <2>3
<1>11. ASSUME NEW x \in hand'[n]
       PROVE  /\ InTime(n, x)' /\ \A y \in hand'[n] : y # x => Apart(x, y)
              /\ \A k \in Places(net'[x.from][n], "data") : Apart(x, net'[x.from][n][k])
  <2>1. InTime(n, x) /\ InTime(n, x)' /\ x.from \in Node
    <3>1. InTime(n, x)
      BY <1>9, <1>10 DEF HandAt
    <3> QED BY <3>1 DEF StayInTime, InTime
  <2>2. ASSUME NEW y \in hand'[n], y # x PROVE Apart(x, y)
    <3>1. CASE x \in hand[n] /\ y \in hand[n]
      BY <2>2, <3>1 DEF HandAt
    <3>2. CASE ~(x \in hand[n] /\ y \in hand[n])
      BY <1>9, <1>10, <2>2, <3>2
    <3> QED BY <3>1, <3>2
  <2>3. ASSUME NEW k \in Places(net'[x.from][n], "data") PROVE Apart(x, net'[x.from][n][k])
    <3>1. CASE x.from # a
      <4>1. net'[x.from][n] = net[x.from][n] /\ x \in hand[n]
        BY <1>9, <1>10, <2>1, <3>1
      <4> QED BY <2>3, <4>1 DEF HandAt
    <3>2. CASE x.from = a /\ x \in hand[n]
      <4>1. Apart(x, q[k + 1]) /\ r[k] = q[k + 1]
        BY <1>1, <1>2, <1>7, <2>3, <3>2 DEF HandAt
      <4> QED BY <1>2, <3>2, <4>1
    <3>3. CASE x.from = a /\ x \notin hand[n]
      BY <1>2, <1>9, <1>10, <2>3, <3>3
    <3> QED BY <3>1, <3>2, <3>3
  <2> QED BY <2>1, <2>2, <2>3
<1> QED BY <1>11 DEF HandAt

LEMMA RecvValuesSettled ==
  ASSUME SendInv, AckInv, AlignInv, AlignInv', DataInv, NEW n \in Node, NEW m \in Node \ {n}, RecvValues(n, m)
  PROVE  \A k \in Node : Settled(k)
<1>1. /\ UNCHANGED <<conf, chunk, place, todo, currEpoch, scatter, ghostVtcsRecvd>>
      /\ net[m][n] # <<>> /\ Head(net[m][n]).kind = "data"
      /\ hand' = [hand EXCEPT ![n] = @ \cup {Head(net[m][n])}]
  BY DEF RecvValues, queues, run, scheduler, scatterer, counters
<1>2. PICK a : a.kind = "ack" /\ net' = [net EXCEPT ![m][n] = Tail(@), ![n][m] = Append(@, a)]
  <2>1. PICK a : a = [kind |-> "ack"]
    OBVIOUS
  <2>2. net' = [net EXCEPT ![m][n] = Tail(@), ![n][m] = Append(@, a)]
    BY <2>1 DEF RecvValues
  <2>3. a.kind = "ack"
    BY <2>1
  <2> QED BY <2>2, <2>3
<1>3. Wired(net, Node) /\ conf \in Confs /\ DOMAIN hand = Node
  BY AckFacts DEF DataInv, HandOK
<1>4. /\ net'[m][n] = Tail(net[m][n]) /\ net'[n][m] = Append(net[n][m], a)
      /\ \A k \in Node, l \in Node : <<k, l>> # <<m, n>> /\ <<k, l>> # <<n, m>> => net'[k][l] = net[k][l]
      /\ IsQueue(net[m][n]) /\ IsQueue(net[n][m])
  BY <1>2, <1>3 DEF Wired
<1>5. PICK h : h = Head(net[m][n])
  OBVIOUS
<1>6. hand'[n] = hand[n] \cup {h} /\ \A k \in Node \ {n} : hand'[k] = hand[k]
  BY <1>1, <1>3, <1>5
<1>7. /\ \A k \in Node : RoundSame(k) /\ SameFor(k) /\ StayInTime(k)
      /\ \A k \in Node, l \in Node : SenderSame(l, k)
  BY <1>1, ReceiverRounds
<1>8. Node' = Node /\ ChunkId' = ChunkId
  BY <1>1, ConfSame
<1>9. ~(a.kind = "data")
  BY <1>2
<1>10. ASSUME NEW k \in Node, NEW l \in Node, NEW v, <<l, k>> # <<m, n>>
       PROVE  Owing(k, l, v)' <=> Owing(k, l, v)
  <2>1. OnNet(k, l, v)' <=> OnNet(k, l, v)
    <3>1. CASE l = n /\ k = m
      BY <1>4, <1>9, <3>1, OnNetAppended
    <3>2. CASE ~(l = n /\ k = m)
      <4>1. net'[l][k] = net[l][k]
        BY <1>4, <1>10, <3>2
      <4> QED BY <4>1 DEF OnNet
    <3> QED BY <3>1, <3>2
  <2>2. Unsent(k, l, v)' <=> Unsent(k, l, v)
    BY <1>1, <1>7, UnsentSame DEF RoundSame
  <2>3. Wanted(k, l)' = Wanted(k, l)
    BY <1>1, <1>7, WantsSame
  <2> QED BY <2>1, <2>2, <2>3 DEF Owing
<1>11. ASSUME NEW k \in Node PROVE Owed(k)' = Owed(k)
  <2>1. CASE k # n
    <3>1. \A v : InHand(k, v)' <=> InHand(k, v)
      BY <1>6, <2>1 DEF InHand
    <3>2. \A l \in Node \ {k}, v \in Wants(k) : Owing(k, l, v)' <=> Owing(k, l, v)
      BY <1>10, <2>1
    <3> QED BY <1>1, <1>7, <3>1, <3>2, OwedShift
  <2>2. CASE k = n
    <3>1. Wants(n)' = Wants(n) /\ Wanted(n, m)' = Wanted(n, m)
      BY <1>1, <1>7, WantsSame
    <3>2. \A v : InHand(n, v)' <=> InHand(n, v) \/ Has(h, v)
      BY <1>6 DEF InHand, Has
    <3>3. \A v : OnNet(n, m, v) <=> OnNet(n, m, v)' \/ Has(h, v)
      BY <1>1, <1>4, <1>5, OnNetTaken
    <3>4. \A v : Unsent(n, m, v)' <=> Unsent(n, m, v)
      BY <1>1, <1>7, UnsentSame DEF RoundSame
    <3>5. \A v : (InHand(n, v) \/ Owing(n, m, v)) <=> (InHand(n, v)' \/ Owing(n, m, v)')
      <4>1. ASSUME NEW v PROVE (InHand(n, v) \/ Owing(n, m, v)) <=> (InHand(n, v)' \/ Owing(n, m, v)')
        BY <3>1, <3>2, <3>3, <3>4 DEF Owing
      <4> QED BY <4>1
    <3>6. \A l \in Node \ {m} : \A v : Owing(n, l, v)' <=> Owing(n, l, v)
      BY <1>10
    <3>7. Owed(n) = {v \in Wants(n) : InHand(n, v) \/ \E l \in Node \ {n} : Owing(n, l, v)}
      BY DEF Owed, Owing
    <3>8. Owed(n)' = {v \in Wants(n)' : InHand(n, v)' \/ \E l \in Node' \ {n} : Owing(n, l, v)'}
      BY DEF Owed, Owing
    <3>9. ASSUME NEW v
          PROVE  (InHand(n, v) \/ \E l \in Node \ {n} : Owing(n, l, v))
                   <=> (InHand(n, v)' \/ \E l \in Node \ {n} : Owing(n, l, v)')
      <4>1. (\E l \in Node \ {n} : Owing(n, l, v))
              <=> Owing(n, m, v) \/ \E l \in (Node \ {n}) \ {m} : Owing(n, l, v)
        OBVIOUS
      <4>2. (\E l \in Node \ {n} : Owing(n, l, v)')
              <=> Owing(n, m, v)' \/ \E l \in (Node \ {n}) \ {m} : Owing(n, l, v)'
        OBVIOUS
      <4>3. (\E l \in (Node \ {n}) \ {m} : Owing(n, l, v)') <=> \E l \in (Node \ {n}) \ {m} : Owing(n, l, v)
        BY <3>6
      <4> QED BY <3>5, <4>1, <4>2, <4>3
    <3> QED BY <1>8, <2>2, <3>1, <3>7, <3>8, <3>9
  <2> QED BY <2>1, <2>2
<1> QED BY <1>7, <1>11 DEF Settled

LEMMA RecvValuesSends ==
  ASSUME SendInv, AckInv, AlignInv, AlignInv', DataInv, NEW n \in Node, NEW m \in Node \ {n}, RecvValues(n, m)
  PROVE  SendInv'
<1>1. /\ UNCHANGED <<conf, chunk, place, todo, currEpoch, scatter, ghostVtcsRecvd>>
      /\ net[m][n] # <<>> /\ Head(net[m][n]).kind = "data"
      /\ hand' = [hand EXCEPT ![n] = @ \cup {Head(net[m][n])}]
  BY DEF RecvValues, queues, run, scheduler, scatterer, counters
<1>2. PICK a : a.kind = "ack" /\ net' = [net EXCEPT ![m][n] = Tail(@), ![n][m] = Append(@, a)]
  <2>1. PICK a : a = [kind |-> "ack"]
    OBVIOUS
  <2>2. net' = [net EXCEPT ![m][n] = Tail(@), ![n][m] = Append(@, a)]
    BY <2>1 DEF RecvValues
  <2>3. a.kind = "ack"
    BY <2>1
  <2> QED BY <2>2, <2>3
<1>3. Wired(net, Node) /\ conf \in Confs /\ DOMAIN hand = Node
  BY AckFacts DEF DataInv, HandOK
<1>4. /\ net'[m][n] = Tail(net[m][n]) /\ net'[n][m] = Append(net[n][m], a)
      /\ \A k \in Node, l \in Node : <<k, l>> # <<m, n>> /\ <<k, l>> # <<n, m>> => net'[k][l] = net[k][l]
      /\ IsQueue(net[m][n]) /\ IsQueue(net[n][m])
  BY <1>2, <1>3 DEF Wired
<1>5. PICK h : h = Head(net[m][n])
  OBVIOUS
<1>6. hand'[n] = hand[n] \cup {h} /\ \A k \in Node \ {n} : hand'[k] = hand[k]
  BY <1>1, <1>3, <1>5
<1>7. /\ \A k \in Node : RoundSame(k) /\ SameFor(k) /\ StayInTime(k)
      /\ \A k \in Node, l \in Node : SenderSame(l, k)
  BY <1>1, ReceiverRounds
<1>8. Node' = Node /\ ChunkId' = ChunkId
  BY <1>1, ConfSame
<1>9. (\A k \in Node, j \in ChunkId : TodoAt(k, j)') /\ \A k \in Node : ClosedAt(k)'
  BY <1>1, ReceiverKeeps
<1>10. ~(a.kind = "data")
  BY <1>2
<1>11. ASSUME NEW k \in Node, NEW l \in Node PROVE NetAt(k, l)'
  <2>1. NetAt(k, l)
    BY DEF SendInv
  <2>2. CASE <<k, l>> # <<m, n>> /\ <<k, l>> # <<n, m>>
    <3>1. net'[k][l] = net[k][l]
      BY <1>4, <2>2
    <3> QED BY <1>1, <1>7, <2>1, <3>1, NetSame
  <2>3. CASE k = m /\ l = n
    BY <1>1, <1>4, <1>7, <2>1, <2>3, NetTaken
  <2>4. CASE k = n /\ l = m
    BY <1>4, <1>7, <1>10, <2>1, <2>4, NetAppended
  <2> QED BY <2>2, <2>3, <2>4
<1>12. ASSUME NEW k \in Node PROVE HandAt(k)'
  <2>1. HandAt(k)
    BY DEF SendInv
  <2>2. CASE k = n
    <3>1. \A l \in Node \ {m} : net'[l][n] = net[l][n]
      BY <1>4
    <3>2. NetAt(m, n)
      BY DEF SendInv
    <3> QED BY <1>1, <1>3, <1>4, <1>5, <1>6, <1>7, <2>1, <2>2, <3>1, <3>2, HandTaken
  <2>3. CASE k = m
    <3>1. \A l \in Node \ {n} : net'[l][m] = net[l][m]
      BY <1>4
    <3>2. hand'[m] = hand[m]
      BY <1>6
    <3> QED BY <1>4, <1>7, <1>10, <2>1, <2>3, <3>1, <3>2, HandAppended
  <2>4. CASE k # n /\ k # m
    <3>1. hand'[k] = hand[k] /\ \A l \in Node : net'[l][k] = net[l][k]
      BY <1>4, <1>6, <2>4
    <3> QED BY <1>1, <1>7, <2>1, <3>1, HandSame
  <2> QED BY <2>2, <2>3, <2>4
<1>13. \A k \in Node : Owed(k)' = Owed(k)
  BY RecvValuesSettled DEF Settled
<1>14. ASSUME NEW k \in Node PROVE CountAt(k)'
  BY <1>1, <1>7, <1>13, CountKept DEF SendInv, RoundSame
<1> QED BY <1>8, <1>9, <1>11, <1>12, <1>14 DEF SendInv

LEMMA RecvAckSettled ==
  ASSUME SendInv, AckInv, AlignInv, AlignInv', NEW n \in Node, NEW m \in Node \ {n}, RecvAck(n, m)
  PROVE  \A k \in Node : Settled(k)
<1>1. /\ UNCHANGED <<conf, chunk, place, todo, currEpoch, scatter, ghostVtcsRecvd, hand>>
      /\ net[m][n] # <<>> /\ Head(net[m][n]).kind = "ack"
      /\ net' = [net EXCEPT ![m][n] = Tail(@)]
  BY DEF RecvAck, queues, run, scheduler, scatterer
<1>2. Wired(net, Node) /\ conf \in Confs
  BY AckFacts
<1>3. /\ net'[m][n] = Tail(net[m][n]) /\ IsQueue(net[m][n])
      /\ \A k \in Node, l \in Node : <<k, l>> # <<m, n>> => net'[k][l] = net[k][l]
  BY <1>1, <1>2 DEF Wired
<1>4. /\ \A k \in Node : RoundSame(k) /\ SameFor(k) /\ StayInTime(k)
      /\ \A k \in Node, l \in Node : SenderSame(l, k)
  BY <1>1, ReceiverRounds
<1>5. ~(Head(net[m][n]).kind = "data")
  BY <1>1
<1>6. ASSUME NEW k \in Node PROVE Owed(k)' = Owed(k)
  <2>1. ASSUME NEW l \in Node, NEW v PROVE OnNet(k, l, v)' <=> OnNet(k, l, v)
    <3>1. CASE <<l, k>> # <<m, n>>
      <4>1. net'[l][k] = net[l][k]
        BY <1>3, <3>1
      <4> QED BY <4>1 DEF OnNet
    <3>2. CASE l = m /\ k = n
      BY <1>1, <1>3, <1>5, <3>2, OnNetTaken
    <3> QED BY <3>1, <3>2
  <2>2. \A l \in Node : \A v : Unsent(k, l, v)' <=> Unsent(k, l, v)
    BY <1>1, <1>4, UnsentSame DEF RoundSame
  <2>3. \A v \in Wants(k) : InHand(k, v)' <=> InHand(k, v)
    BY <1>1 DEF InHand
  <2> QED BY <1>1, <1>4, <2>1, <2>2, <2>3, OwedKept
<1> QED BY <1>4, <1>6 DEF Settled

LEMMA RecvAckSends ==
  ASSUME SendInv, AckInv, AlignInv, AlignInv', NEW n \in Node, NEW m \in Node \ {n}, RecvAck(n, m)
  PROVE  SendInv'
<1>1. /\ UNCHANGED <<conf, chunk, place, todo, currEpoch, scatter, ghostVtcsRecvd, hand>>
      /\ net[m][n] # <<>> /\ Head(net[m][n]).kind = "ack"
      /\ net' = [net EXCEPT ![m][n] = Tail(@)]
  BY DEF RecvAck, queues, run, scheduler, scatterer
<1>2. Wired(net, Node) /\ conf \in Confs
  BY AckFacts
<1>3. /\ net'[m][n] = Tail(net[m][n]) /\ IsQueue(net[m][n])
      /\ \A k \in Node, l \in Node : <<k, l>> # <<m, n>> => net'[k][l] = net[k][l]
  BY <1>1, <1>2 DEF Wired
<1>4. /\ \A k \in Node : RoundSame(k) /\ SameFor(k) /\ StayInTime(k)
      /\ \A k \in Node, l \in Node : SenderSame(l, k)
  BY <1>1, ReceiverRounds
<1>5. Node' = Node /\ ChunkId' = ChunkId
  BY <1>1, ConfSame
<1>6. (\A k \in Node, j \in ChunkId : TodoAt(k, j)') /\ \A k \in Node : ClosedAt(k)'
  BY <1>1, ReceiverKeeps
<1>7. ~(Head(net[m][n]).kind = "data")
  BY <1>1
<1>8. ASSUME NEW k \in Node, NEW l \in Node PROVE NetAt(k, l)'
  <2>1. NetAt(k, l)
    BY DEF SendInv
  <2>2. CASE <<k, l>> # <<m, n>>
    <3>1. net'[k][l] = net[k][l]
      BY <1>3, <2>2
    <3> QED BY <1>1, <1>4, <2>1, <3>1, NetSame
  <2>3. CASE k = m /\ l = n
    BY <1>1, <1>3, <1>4, <2>1, <2>3, NetTaken
  <2> QED BY <2>2, <2>3
<1>9. ASSUME NEW k \in Node PROVE HandAt(k)'
  <2>1. HandAt(k) /\ hand'[k] = hand[k]
    BY <1>1 DEF SendInv
  <2>2. CASE k = n
    <3>1. \A l \in Node \ {m} : net'[l][n] = net[l][n]
      BY <1>3
    <3>2. NetAt(m, n)
      BY DEF SendInv
    <3> QED BY <1>1, <1>2, <1>3, <1>4, <2>1, <2>2, <3>1, <3>2, HandTaken
  <2>3. CASE k # n
    <3>1. \A l \in Node : net'[l][k] = net[l][k]
      BY <1>3, <2>3
    <3> QED BY <1>1, <1>4, <2>1, <3>1, HandSame
  <2> QED BY <2>2, <2>3
<1>10. \A k \in Node : Owed(k)' = Owed(k)
  BY RecvAckSettled DEF Settled
<1>11. ASSUME NEW k \in Node PROVE CountAt(k)'
  BY <1>1, <1>4, <1>10, CountKept DEF SendInv, RoundSame
<1> QED BY <1>5, <1>6, <1>8, <1>9, <1>11 DEF SendInv

VtcsOf(msg) == {x[1] : x \in msg.rows}

\* A message has as many rows as vertices.
LEMMA RowsCount ==
  ASSUME NEW msg, IsFiniteSet(msg.rows), \A x \in msg.rows, y \in msg.rows : x[1] = y[1] => x = y
  PROVE  Cardinality(VtcsOf(msg)) = Cardinality(msg.rows) /\ IsFiniteSet(VtcsOf(msg))
<1>1. PICK R : R = msg.rows
  OBVIOUS
<1> DEFINE V == {x[1] : x \in R}
           f == [x \in R |-> x[1]]
<1>2. f \in Bijection(R, V)
  <2>1. f \in [R -> V] /\ (\A a, b \in R : f[a] = f[b] => a = b) /\ (\A v \in V : \E a \in R : f[a] = v)
    BY <1>1
  <2> HIDE DEF f, V
  <2> QED BY <2>1 DEF Bijection, Injection, Surjection, IsInjective
<1>3. VtcsOf(msg) = V
  BY <1>1 DEF VtcsOf
<1> HIDE DEF f, V
<1>4. IsFiniteSet(V) /\ Cardinality(V) = Cardinality(R)
  BY <1>1, <1>2, FS_Bijection DEF ExistsBijection
<1> QED BY <1>1, <1>3, <1>4

\* What is stored is owed no more, whatever else is on the way.
LEMMA StoredOnce ==
  ASSUME SendInv, AlignInv, NEW n \in Node, NEW msg \in hand[n], NEW x \in msg.rows,
         NEW m \in Node \ {n}
  PROVE  ~OnNet(n, m, x[1]) /\ (x[1] \in Wanted(n, m) => ~Unsent(n, m, x[1]))
<1>1. InTime(n, msg) /\ msg.from \in Node \ {n} /\ conf \in Confs
  BY AlignFacts DEF SendInv, HandAt, InTime
<1>2. x[1] \in Wanted(n, msg.from)
  BY <1>1 DEF InTime
<1>3. x[1] \in Wanted(n, m) => m = msg.from
  BY <1>1, <1>2, WantedFacts
<1>4. ~OnNet(n, m, x[1])
  <2>1. SUFFICES ASSUME NEW k \in Places(net[m][n], "data"), NEW y \in net[m][n][k].rows, y[1] = x[1]
                 PROVE  FALSE
    BY DEF OnNet
  <2>2. InTime(n, net[m][n][k]) /\ net[m][n][k].from = m
    BY DEF SendInv, NetAt
  <2>3. y[1] \in Wanted(n, m)
    BY <2>2 DEF InTime
  <2>4. m = msg.from
    BY <1>3, <2>1, <2>3
  <2>5. Apart(msg, net[m][n][k])
    BY <2>4 DEF SendInv, HandAt
  <2> QED BY <2>1, <2>5 DEF Apart
<1>5. ASSUME x[1] \in Wanted(n, m) PROVE ~Unsent(n, m, x[1])
  <2>1. SUFFICES ASSUME NEW j \in ChunkId, Holds(m, j, x[1]),
                        \/ Begun(m, j) < Expected(n)
                        \/ \E b \in todo[m][j] : b.to = n /\ x[1] \in b.vtcs
                 PROVE  FALSE
    BY DEF Unsent
  <2>2. m = msg.from
    BY <1>3, <1>5
  <2>3. Begun(m, j) = Expected(n) /\ \A b \in todo[m][j] : b.to = n => x[1] \notin b.vtcs
    BY <1>1, <2>1, <2>2 DEF InTime
  <2>4. ASSUME Begun(m, j) < Expected(n) PROVE FALSE
    <3>1. Expected(n) \in Int
      BY PassedIs DEF Expected
    <3> QED BY <2>3, <2>4, <3>1
  <2> QED BY <2>1, <2>3, <2>4
<1> QED BY <1>4, <1>5

LEMMA StoredOwed ==
  ASSUME SendInv, AlignInv, AlignInv', UNCHANGED <<conf, chunk, place, currEpoch, scatter, todo, net>>,
         NEW n \in Node, NEW msg \in hand[n], hand'[n] = hand[n] \ {msg}
  PROVE  Owed(n)' = Owed(n) \ VtcsOf(msg) /\ VtcsOf(msg) \subseteq Owed(n)
<1>1. \A m \in Node : RoundSame(m) /\ SameFor(m)
  BY ReceiverRounds
<1>2. Wants(n)' = Wants(n) /\ (\A m : Wanted(n, m)' = Wanted(n, m)) /\ Node' = Node /\ conf \in Confs
  BY <1>1, WantsSame, ConfSame, AlignFacts
<1>3. \A m \in Node : \A v : Owing(n, m, v)' <=> Owing(n, m, v)
  BY <1>1, OwingStays DEF RoundSame
<1>4. HandAt(n)
  BY DEF SendInv
<1>5. \A v : v \in VtcsOf(msg) <=> Has(msg, v)
  BY DEF VtcsOf, Has
<1>6. ASSUME NEW v, Has(msg, v)
      PROVE  v \in Wants(n) /\ InHand(n, v) /\ ~InHand(n, v)' /\ \A m \in Node \ {n} : ~Owing(n, m, v)
  <2>1. PICK x \in msg.rows : x[1] = v
    BY <1>6 DEF Has
  <2>2. v \in Wants(n)
    BY <1>2, <1>4, <2>1, WantedFacts DEF HandAt, InTime
  <2>3. InHand(n, v)
    BY <2>1 DEF InHand
  <2>4. ~InHand(n, v)'
    <3>1. \A y \in hand[n] : y # msg => Apart(msg, y)
      BY <1>4 DEF HandAt
    <3> QED BY <2>1, <3>1 DEF InHand, Apart
  <2>5. \A m \in Node \ {n} : ~Owing(n, m, v)
    BY <2>1, StoredOnce DEF Owing
  <2> QED BY <2>2, <2>3, <2>4, <2>5
<1>7. ASSUME NEW v, ~Has(msg, v) PROVE InHand(n, v)' <=> InHand(n, v)
  BY <1>7 DEF InHand, Has
<1>8. Owed(n) = {v \in Wants(n) : InHand(n, v) \/ \E m \in Node \ {n} : Owing(n, m, v)}
  BY DEF Owed, Owing
<1>9. Owed(n)' = {v \in Wants(n)' : InHand(n, v)' \/ \E m \in Node' \ {n} : Owing(n, m, v)'}
  BY DEF Owed, Owing
<1>10. ASSUME NEW v PROVE v \in Owed(n)' <=> v \in Owed(n) /\ ~Has(msg, v)
  <2>1. CASE Has(msg, v)
    BY <1>2, <1>3, <1>6, <1>9, <2>1
  <2>2. CASE ~Has(msg, v)
    BY <1>2, <1>3, <1>7, <1>8, <1>9, <2>2
  <2> QED BY <2>1, <2>2
<1>11. \A v : Has(msg, v) => v \in Owed(n)
  BY <1>6, <1>8
<1> QED BY <1>5, <1>10, <1>11

LEMMA StoreSends ==
  ASSUME SendInv, Together, AlignInv, AlignInv', DataInv, NEW n \in Node, StoreValues(n)
  PROVE  SendInv'
<1>1. UNCHANGED <<conf, chunk, place, todo, currEpoch, scatter, net>>
  BY DEF StoreValues, queues, run, scheduler, scatterer
<1>2. PICK msg \in hand[n] :
        /\ hand' = [hand EXCEPT ![n] = @ \ {msg}]
        /\ ghostVtcsRecvd' = [ghostVtcsRecvd EXCEPT ![n] = @ + Cardinality(msg.rows)]
  BY StoreFacts
<1>3. DOMAIN hand = Node /\ ghostVtcsRecvd \in [Node -> Nat] /\ Sane(msg.rows) /\ conf \in Confs
  BY AlignFacts DEF DataInv, HandOK
<1>4. /\ hand'[n] = hand[n] \ {msg} /\ ghostVtcsRecvd'[n] = ghostVtcsRecvd[n] + Cardinality(msg.rows)
      /\ \A m \in Node \ {n} : hand'[m] = hand[m] /\ ghostVtcsRecvd'[m] = ghostVtcsRecvd[m]
  BY <1>2, <1>3
<1>5. /\ \A m \in Node : RoundSame(m) /\ SameFor(m) /\ StayInTime(m)
      /\ \A m \in Node, k \in Node : SenderSame(k, m)
  BY <1>1, ReceiverRounds
<1>6. Node' = Node /\ ChunkId' = ChunkId
  BY <1>1, ConfSame
<1>7. (\A m \in Node, j \in ChunkId : TodoAt(m, j)') /\ \A m \in Node : ClosedAt(m)'
  BY <1>1, ReceiverKeeps
<1>8. \A m \in Node, k \in Node : NetAt(m, k)'
  BY <1>1, <1>5, NetSame DEF SendInv
<1>9. ASSUME NEW m \in Node PROVE HandAt(m)'
  <2>1. HandAt(m)
    BY DEF SendInv
  <2>2. CASE m # n
    BY <1>1, <1>4, <1>5, <2>1, <2>2, HandSame
  <2>3. CASE m = n
    BY <1>1, <1>4, <1>5, <2>1, <2>3 DEF HandAt, StayInTime
  <2> QED BY <2>2, <2>3
<1>10. InTime(n, msg) /\ IsFiniteSet(msg.rows)
  BY <1>3 DEF SendInv, HandAt, Sane
<1>11. Cardinality(VtcsOf(msg)) = Cardinality(msg.rows) /\ IsFiniteSet(VtcsOf(msg))
  BY <1>10, RowsCount DEF InTime
<1>12. Owed(n)' = Owed(n) \ VtcsOf(msg) /\ VtcsOf(msg) \subseteq Owed(n)
  BY <1>1, <1>4, StoredOwed
<1>13. Closing(n) /\ ~Async => msg.rows = {}
  <2>1. ASSUME Closing(n), ~Async, NEW x \in msg.rows PROVE FALSE
    <3>1. x[1] \in Wanted(n, msg.from) /\ msg.from \in Node
      BY <1>10 DEF InTime
    <3>2. PICK j \in ChunkId : Holds(msg.from, j, x[1])
      BY <1>3, <3>1, WantedFacts
    <3>3. Begun(msg.from, j) = Expected(n)
      BY <1>10, <3>2 DEF InTime
    <3>4. Begun(msg.from, j) < Expected(n) /\ Expected(n) \in Int
      BY <2>1, <3>1, NotBegun, PassedIs DEF Expected
    <3> QED BY <3>3, <3>4
  <2> QED BY <2>1
<1>14. ASSUME NEW m \in Node PROVE CountAt(m)'
  <2>1. CASE m # n
    <3>1. Owed(m)' = Owed(m)
      BY <1>1, <1>4, <1>5, <2>1, OwedSame DEF RoundSame
    <3> QED BY <1>1, <1>4, <1>5, <2>1, <3>1, CountKept DEF SendInv, RoundSame
  <2>2. CASE m = n
    <3>1. PICK r \in Nat : r = Cardinality(msg.rows)
      BY <1>10, FS_CardinalityType
    <3>2. PICK o \in Nat : o = Cardinality(Owed(n))
      BY <1>3, WantedFacts
    <3>3. PICK w \in Nat : w = Cardinality(Wants(n))
      BY <1>3, WantedFacts
    <3>4. Cardinality(Owed(n)') = o - r
      <4>1. PICK A, B : A = Owed(n) /\ B = VtcsOf(msg)
        OBVIOUS
      <4>2. IsFiniteSet(A) /\ B \subseteq A
        BY <1>3, <1>12, <4>1, WantedFacts
      <4>3. Cardinality(A \ B) = Cardinality(A) - Cardinality(A \cap B)
        BY <4>2, FS_Difference
      <4>4. A \cap B = B
        BY <4>2
      <4> QED BY <1>11, <1>12, <3>1, <3>2, <4>1, <4>3, <4>4
    <3>5. PICK g \in Nat : g = ghostVtcsRecvd[n]
      BY <1>3
    <3>6. ghostVtcsRecvd'[n] = g + r
      BY <1>4, <3>1, <3>5
    <3>7. /\ Wants(n)' = Wants(n) /\ (Closing(n)' <=> Closing(n)) /\ (Async' <=> Async)
          /\ Closing(n) => Gap(n)' = Gap(n)
      BY <1>1, <1>5, WantsSame DEF RoundSame, Async
    <3>8. CASE ~Closing(n)
      <4>1. g <= w - o /\ (~Async => g = w - o)
        BY <3>2, <3>3, <3>5, <3>8 DEF SendInv, CountAt
      <4>2. g + r <= w - (o - r) /\ (~Async => g + r = w - (o - r))
        BY <3>1, <3>2, <3>3, <3>5, <4>1
      <4> QED BY <2>2, <3>3, <3>4, <3>6, <3>7, <3>8, <4>2 DEF CountAt
    <3>9. CASE Closing(n)
      <4>1. ~Async => r = 0
        BY <1>13, <3>1, <3>9, FS_EmptySet
      <4>2. ~Async => ghostVtcsRecvd'[n] = ghostVtcsRecvd[n]
        BY <3>5, <3>6, <4>1
      <4>3. Final(n)' = Final(n)
        BY <1>1, <3>7, <3>9 DEF Final, DirOf, Turn
      <4>4. ~Async => ghostVtcsRecvd[n] = Cardinality(Ghosts(conf.graph, n, Final(n)))
        BY <3>9 DEF SendInv, CountAt
      <4> QED BY <1>1, <2>2, <3>7, <3>9, <4>2, <4>3, <4>4 DEF CountAt
    <3> QED BY <3>8, <3>9
  <2> QED BY <2>1, <2>2
<1> QED BY <1>6, <1>7, <1>8, <1>9, <1>14 DEF SendInv

-----------------------------------------------------------------------------
(* All steps, and the direction of the scatter thread.                     *)

LEMMA SilentStutter ==
  ASSUME SendInv, AlignInv, AlignInv', UNCHANGED kept
  PROVE  Silent
<1>1. UNCHANGED <<conf, chunk, place, todo, currEpoch, net, hand, ghostVtcsRecvd, scatter>>
  BY DEF kept, queues, scheduler, scatterer, counters
<1>2. \A n \in Node : Closing(n)' <=> Closing(n)
  BY <1>1 DEF Closing
<1> QED BY <1>1, <1>2, SilentStill

LEMMA SendNext ==
  ASSUME SendInv, DirInv, Together, AlignInv, AlignInv', AckInv, DataInv, [Next]_vars
  PROVE  SendInv'
<1>1. CASE UNCHANGED kept
  BY <1>1, SilentStutter, SendKept
<1>2. ASSUME NEW n \in Node, Main(n)
      PROVE  SendInv'
  BY <1>2, SilentCalls, SendKept
<1>3. ASSUME NEW n \in Node, Schedule(n)
      PROVE  SendInv'
  <2>1. CASE SchedHalt(n) \/ SchedBarrier(n) \/ SchedUnblock(n)
    BY <2>1, SilentCalls, SendKept
  <2>2. ASSUME NEW i \in ChunkId, SchedStart(n, i) \/ SchedPass(n, i)
        PROVE  SendInv'
    BY <2>2, SilentStart, SilentPass, SendKept
  <2> QED BY <1>3, <2>1, <2>2 DEF Schedule
<1>4. ASSUME NEW n \in Node, Scatter(n)
      PROVE  SendInv'
  <2>1. CASE ScatterLeave(n) \/ BeginBarrier(n) \/ BeginScatter(n)
    BY <2>1, SilentCalls, SendKept
  <2>2. CASE ScatterWait(n) \/ ScatterReset(n)
    BY <2>2, WaitSends, ResetSends
  <2>3. ASSUME NEW i \in ChunkId,
               ScatterPop(n, i) \/ VerticesPushOut(n, i) \/ Count(n, i) \/ ScatterStash(n, i)
        PROVE  SendInv'
    BY <2>3, PopSends, PushSends, SilentPass, SendKept
  <2> QED BY <1>4, <2>1, <2>2, <2>3 DEF Scatter
<1>5. ASSUME NEW n \in Node, Receive(n)
      PROVE  SendInv'
  <2>1. ASSUME NEW m \in Node \ {n}, RecvValues(n, m) \/ RecvAck(n, m)
        PROVE  SendInv'
    BY <2>1, RecvValuesSends, RecvAckSends
  <2>2. CASE StoreValues(n) \/ Check(n)
    BY <2>2, StoreSends, SilentCalls, SendKept
  <2> QED BY <1>5, <2>1, <2>2 DEF Receive
<1>6. ASSUME NEW n \in Node, NEW i \in ChunkId, Work(n, i)
      PROVE  SendInv'
  BY <1>6, SilentWork, SendKept
<1> QED BY <1>1, <1>2, <1>3, <1>4, <1>5, <1>6, Steps

\* The direction stays as long as chunks of the phase are on their way.
LEMMA DirKept ==
  ASSUME DirInv, conf' = conf, currDir' = currDir,
         \A n \in Node : Popped(n)' => Popped(n) /\ Gap(n)' = Gap(n)
  PROVE  DirInv'
<1>1. Node' = Node
  BY ConfSame
<1>2. ASSUME NEW n \in Node, Popped(n)'
      PROVE  (currDir[n] = DirOf(Gap(n) + 1))'
  <2>1. Popped(n) /\ Gap(n)' = Gap(n) /\ currDir[n] = DirOf(Gap(n) + 1)
    BY <1>2 DEF DirInv
  <2>2. Scatters' = Scatters /\ Turn' = Turn
    BY ConfSame
  <2> QED BY <2>1, <2>2 DEF DirOf
<1> QED BY <1>1, <1>2 DEF DirInv

\* Steps that leave the chunks.
LEMMA DirStill ==
  ASSUME DirInv, AlignInv, AlignInv', UNCHANGED <<conf, chunk, place, currEpoch, currDir>>
  PROVE  DirInv'
<1>1. ASSUME NEW n \in Node
      PROVE  (Popped(n)' => Popped(n)) /\ Gap(n)' = Gap(n)
  <2>1. Gap(n)' = Gap(n)
    BY GapSame
  <2>2. ChunkId' = ChunkId
    BY ConfSame
  <2> QED BY <2>1, <2>2 DEF Popped, Scattered
<1> QED BY <1>1, DirKept

\* Steps of one chunk that has begun to send after it if it had before.
LEMMA DirMoved ==
  ASSUME DirInv, AlignInv, AlignInv', Steady, currDir' = currDir,
         NEW n \in Node, NEW i \in ChunkId, NEW q \in Place, NEW c, InQueue(n, i, place[n][i]),
         Send(n, i, q, c), UNCHANGED entered,
         q \in Scattered <=> place[n][i] \in Scattered
  PROVE  DirInv'
<1>1. chunk \in [Node -> [ChunkId -> Chunk]] /\ place \in [Node -> [ChunkId -> Place]]
  BY AlignFacts
<1>2. /\ \A m \in Node, j \in ChunkId : <<m, j>> # <<n, i>> => place'[m][j] = place[m][j]
      /\ \A m \in Node \ {n} : place'[m] = place[m] /\ chunk'[m] = chunk[m]
      /\ place'[n][i] = q
  BY <1>1 DEF Send
<1>3. stage[n] = "running" /\ stage' = stage
  BY DEF InQueue, Steady
<1>4. Gap(n)' = Gap(n)
  BY <1>3, GapStill DEF Steady
<1>5. \A m \in Node \ {n} : Gap(m)' = Gap(m)
  BY <1>2, GapSame DEF Steady
<1>6. ChunkId' = ChunkId /\ conf' = conf
  BY ConfSame DEF Steady
<1>7. \A m \in Node, j \in ChunkId : place'[m][j] \in Scattered => place[m][j] \in Scattered
  BY <1>2
<1>8. \A m \in Node : Popped(m)' => Popped(m)
  BY <1>6, <1>7 DEF Popped, Scattered
<1> QED BY <1>4, <1>5, <1>6, <1>8, DirKept

\* The steps of a chunk outside of a scatter phase, or in it.
LEMMA DirChunk ==
  ASSUME DirInv, AlignInv, AlignInv', NEW n \in Node, NEW i \in ChunkId,
         Work(n, i) \/ SchedPass(n, i) \/ VerticesPushOut(n, i) \/ Count(n, i) \/ ScatterStash(n, i)
  PROVE  DirInv'
<1>1. CASE Work(n, i)
  <2>1. PICK q \in {"GA", "AV", "SC", "sch"} : \E c : Send(n, i, q, c)
    BY <1>1 DEF Work, Gather, ApplyVertex, ApplyEdge
  <2>2. /\ Steady /\ UNCHANGED <<entered, currDir>>
        /\ place[n][i] \in {"AE", "GA", "AV"} /\ InQueue(n, i, place[n][i])
    BY <1>1 DEF Work, Gather, ApplyVertex, ApplyEdge, Steady, run, scheduler, scatterer, InQueue
  <2>3. q \in Place /\ (q \in Scattered <=> place[n][i] \in Scattered)
    BY <2>1, <2>2 DEF Place, Scattered
  <2> QED BY <2>1, <2>2, <2>3, DirMoved
<1>2. CASE SchedPass(n, i)
  <2>1. /\ Send(n, i, FirstQueue, chunk[n][i]) /\ Steady
        /\ UNCHANGED <<entered, currDir>>
        /\ place[n][i] = "sch" /\ InQueue(n, i, place[n][i])
    BY <1>2 DEF SchedPass, Schedulable, Steady, run, scheduler, scatterer, InQueue
  <2>2. FirstQueue \in Place /\ (FirstQueue \in Scattered <=> place[n][i] \in Scattered)
    BY <2>1 DEF Place, Scattered, FirstQueue
  <2> QED BY <2>1, <2>2, DirMoved
<1>3. CASE VerticesPushOut(n, i)
  <2>1. /\ Send(n, i, "count", chunk[n][i]) /\ Steady
        /\ UNCHANGED <<entered, currDir>>
        /\ place[n][i] = "send" /\ InQueue(n, i, place[n][i])
    BY <1>3 DEF VerticesPushOut, Steady, run, scheduler, scatterer, InQueue
  <2>2. "count" \in Place /\ ("count" \in Scattered <=> place[n][i] \in Scattered)
    BY <2>1 DEF Place, Scattered
  <2> QED BY <2>1, <2>2, DirMoved
<1>4. CASE Count(n, i)
  <2>1. /\ Send(n, i, "send", chunk[n][i]) /\ Steady
        /\ UNCHANGED <<entered, currDir>>
        /\ place[n][i] = "count" /\ InQueue(n, i, place[n][i])
    BY <1>4 DEF Count, Steady, run, scheduler, scatterer, InQueue
  <2>2. "send" \in Place /\ ("send" \in Scattered <=> place[n][i] \in Scattered)
    BY <2>1 DEF Place, Scattered
  <2> QED BY <2>1, <2>2, DirMoved
<1>5. CASE ScatterStash(n, i)
  <2>1. /\ Send(n, i, "stash", chunk[n][i]) /\ Steady
        /\ UNCHANGED <<entered, currDir>>
        /\ place[n][i] = "send" /\ InQueue(n, i, place[n][i])
    BY <1>5 DEF ScatterStash, Steady, run, scheduler, scatterer, InQueue
  <2>2. "stash" \in Place /\ ("stash" \in Scattered <=> place[n][i] \in Scattered)
    BY <2>1 DEF Place, Scattered
  <2> QED BY <2>1, <2>2, DirMoved
<1> QED BY <1>1, <1>2, <1>3, <1>4, <1>5

Fresh(n) ==
  /\ conf' = conf /\ currDir' = currDir
  /\ \A m \in Node \ {n} : /\ chunk'[m] = chunk[m] /\ place'[m] = place[m]
                           /\ currEpoch'[m] = currEpoch[m]
  /\ \A j \in ChunkId : place'[n][j] \notin Scattered

\* A server that begins an epoch or empties its stash has no chunk in a scatter phase.
LEMMA DirFresh ==
  ASSUME DirInv, AlignInv, AlignInv', NEW n \in Node,
         ScatterReset(n) \/ \E i \in ChunkId : SchedStart(n, i)
  PROVE  DirInv'
<1>1. chunk \in [Node -> [ChunkId -> Chunk]] /\ place \in [Node -> [ChunkId -> Place]]
      /\ currEpoch \in [Node -> 0..conf.numEpochs]
  BY AlignFacts DEF AlignInv, AlignTypes
<1>2. Fresh(n)
  <2>1. CASE ScatterReset(n)
    <3>1. UNCHANGED <<conf, chunk, currEpoch, currDir>>
      BY <2>1 DEF ScatterReset, scheduler
    <3>2. /\ \A j \in ChunkId : place'[n][j] = "AE"
          /\ \A m \in Node \ {n} : place'[m] = place[m]
      BY <2>1, ResetGap
    <3> QED BY <3>1, <3>2 DEF Fresh, Scattered
  <2>2. ASSUME NEW i \in ChunkId, SchedStart(n, i)
        PROVE  Fresh(n)
    <3>1. /\ UNCHANGED <<conf, currDir>> /\ Send(n, i, FirstQueue, chunk[n][i])
          /\ currEpoch' = [currEpoch EXCEPT ![n] = @ + 1]
      BY <2>2 DEF SchedStart
    <3>2. \A j \in ChunkId : place[n][j] = "sch"
      BY <2>2, StartGap
    <3> QED BY <1>1, <3>1, <3>2 DEF Send, FirstQueue, Scattered, Fresh
  <2> QED BY <2>1, <2>2
<1>3. ChunkId' = ChunkId
  BY <1>2, ConfSame DEF Fresh
<1>4. ~Popped(n)'
  BY <1>2, <1>3 DEF Popped, Scattered, Fresh
<1>5. ASSUME NEW m \in Node \ {n}
      PROVE  (Popped(m)' => Popped(m)) /\ Gap(m)' = Gap(m)
  <2>1. Gap(m)' = Gap(m)
    BY <1>2, GapSame DEF Fresh
  <2> QED BY <1>2, <1>3, <2>1 DEF Popped, Scattered, Fresh
<1> QED BY <1>2, <1>4, <1>5, DirKept DEF Fresh

\* The first chunk of a scatter phase brings a new layer, and so its direction; the
\* others bring the layer that is there.
LEMMA DirPop ==
  ASSUME DirInv, SendInv, AlignInv, AlignInv', NEW n \in Node, NEW i \in ChunkId, ScatterPop(n, i)
  PROVE  DirInv'
<1>1. PICK l : l = GetAbsLayer(conf.numLayers, chunk[n][i])
  OBVIOUS
<1>2. /\ stage[n] = "running" /\ place[n][i] = "SC" /\ conf' = conf
      /\ currDir' = [currDir EXCEPT ![n] = IF l # layer[n] THEN chunk[n][i].dir ELSE @]
  BY <1>1 DEF ScatterPop, InQueue
<1>3. /\ conf \in Confs /\ chunk[n][i] \in Chunk /\ layer \in [Node -> Int]
      /\ currDir \in [Node -> PropType]
  BY AlignFacts DEF AlignInv, AlignTypes
<1>4. PICK s \in 0..Scatters : s = Gap(n) /\ Running(n, s)
  BY <1>2, Gaps DEF GapsOK, GapOK
<1>5. s < Scatters /\ Between(chunk[n][i], s + 1) /\ currEpoch[n] # 0
  BY <1>2, <1>4, PhaseFacts
<1>6. l = AbsOf(s + 1) /\ l \in Int
  BY <1>1, <1>3, <1>4, <1>5, PopLayer
<1>7. chunk[n][i].dir = DirOf(s + 1)
  BY <1>5 DEF Between
<1>8. currDir'[n] = DirOf(s + 1)
  <2>1. CASE Popped(n)
    <3>1. currDir[n] = DirOf(s + 1) /\ layer[n] = AbsOf(s + 1)
      BY <1>4, <2>1 DEF DirInv, Running, LayerAt
    <3> QED BY <1>2, <1>3, <1>6, <3>1
  <2>2. CASE ~Popped(n)
    <3>1. layer[n] = AbsOf(s)
      BY <1>4, <1>5, <2>2 DEF Running, LayerAt
    <3>2. AbsOf(s) # AbsOf(s + 1)
      BY <1>3, <1>5, ScatterFacts DEF AbsOf, Scatters, Turn
    <3> QED BY <1>2, <1>3, <1>6, <1>7, <3>1, <3>2
  <2> QED BY <2>1, <2>2
<1>9. /\ \A m \in Node : Gap(m)' = Gap(m)
      /\ \A m \in Node, j \in ChunkId : <<m, j>> # <<n, i>> => place'[m][j] = place[m][j]
  BY PopFacts
<1>10. /\ Node' = Node /\ ChunkId' = ChunkId /\ Turn' = Turn
  BY <1>2, ConfSame
<1>11. ASSUME NEW m \in Node, Popped(m)'
       PROVE  (currDir[m] = DirOf(Gap(m) + 1))'
  <2>1. Gap(m)' = Gap(m)
    BY <1>9
  <2>2. CASE m = n
    BY <1>4, <1>8, <1>10, <2>1, <2>2 DEF DirOf
  <2>3. CASE m # n
    <3>1. \A j \in ChunkId : place'[m][j] = place[m][j]
      BY <1>9, <2>3
    <3>2. Popped(m)
      BY <1>10, <1>11, <3>1 DEF Popped, Scattered
    <3>3. currDir[m] = DirOf(Gap(m) + 1) /\ currDir'[m] = currDir[m]
      BY <1>2, <1>3, <2>3, <3>2 DEF DirInv
    <3> QED BY <1>10, <2>1, <3>3 DEF DirOf
  <2> QED BY <2>2, <2>3
<1> QED BY <1>10, <1>11 DEF DirInv

LEMMA DirNext ==
  ASSUME DirInv, SendInv, AlignInv, AlignInv', [Next]_vars
  PROVE  DirInv'
<1>1. CASE UNCHANGED kept
  BY <1>1, DirStill DEF kept, queues, scheduler, scatterer
<1>2. ASSUME NEW n \in Node, Main(n)
      PROVE  DirInv'
  <2>1. UNCHANGED <<conf, chunk, place, currEpoch, currDir>>
    BY <1>2 DEF Main, StartBarrier, LoadChunks, EndBarrier, Done, queues, scheduler, scatterer
  <2> QED BY <2>1, DirStill
<1>3. ASSUME NEW n \in Node, Schedule(n)
      PROVE  DirInv'
  <2>1. CASE SchedHalt(n) \/ SchedBarrier(n) \/ SchedUnblock(n)
    <3>1. UNCHANGED <<conf, chunk, place, currEpoch, currDir>>
      BY <2>1 DEF SchedHalt, SchedBarrier, SchedUnblock, queues, scheduler, scatterer
    <3> QED BY <3>1, DirStill
  <2>2. ASSUME NEW i \in ChunkId, SchedStart(n, i) \/ SchedPass(n, i)
        PROVE  DirInv'
    BY <2>2, DirFresh, DirChunk
  <2> QED BY <1>3, <2>1, <2>2 DEF Schedule
<1>4. ASSUME NEW n \in Node, Scatter(n)
      PROVE  DirInv'
  <2>1. CASE ScatterLeave(n) \/ BeginBarrier(n) \/ BeginScatter(n) \/ ScatterWait(n)
    <3>1. UNCHANGED <<conf, chunk, place, currEpoch, currDir>>
      BY <2>1 DEF ScatterLeave, BeginBarrier, BeginScatter, ScatterWait, queues, scheduler, scatterer
    <3> QED BY <3>1, DirStill
  <2>2. ASSUME NEW i \in ChunkId,
               ScatterPop(n, i) \/ VerticesPushOut(n, i) \/ Count(n, i) \/ ScatterStash(n, i)
        PROVE  DirInv'
    BY <2>2, DirPop, DirChunk
  <2> QED BY <1>4, <2>1, <2>2, DirFresh DEF Scatter
<1>5. ASSUME NEW n \in Node, Receive(n)
      PROVE  DirInv'
  <2>1. UNCHANGED <<conf, chunk, place, currEpoch, currDir>>
    BY <1>5 DEF Receive, RecvValues, RecvAck, StoreValues, Check, queues, scheduler, scatterer
  <2> QED BY <2>1, DirStill
<1>6. ASSUME NEW n \in Node, NEW i \in ChunkId, Work(n, i)
      PROVE  DirInv'
  BY <1>6, DirChunk
<1> QED BY <1>1, <1>2, <1>3, <1>4, <1>5, <1>6, Steps

\* Before the run all values of the first scatter phase are owed.
LEMMA RoundInit == Init => RoundInv
<1> SUFFICES ASSUME Init PROVE RoundInv
  OBVIOUS
<1>1. AlignInv /\ conf \in Confs
  BY AlignInit DEF Init
<1>2. ASSUME NEW n \in Node
      PROVE  /\ stage[n] = "new" /\ where[n] = "" /\ entered[n] = 0 /\ currEpoch[n] = 0
             /\ scatter[n] = "run" /\ ghostVtcsRecvd[n] = 0 /\ hand[n] = {}
             /\ \A m \in Node : net[n][m] = <<>>
             /\ \A i \in ChunkId : place[n][i] = "sch" /\ todo[n][i] = {}
  BY DEF Init
<1>3. ASSUME NEW n \in Node
      PROVE  ~Closing(n) /\ Passed(n) = 0 /\ Expected(n) = 1 /\ \A i \in ChunkId : Begun(n, i) = 0
  <2>1. ~Closing(n)
    BY <1>2 DEF Closing
  <2>2. Passed(n) = 0
    BY <1>1, <1>2, PassedIs
  <2>3. Expected(n) = 1
    BY <2>1, <2>2 DEF Expected
  <2>4. \A i \in ChunkId : Begun(n, i) = 0
    BY <1>2, <2>2 DEF Begun, Scattered
  <2> QED BY <2>1, <2>2, <2>3, <2>4
<1>4. Together
  <2>1. \A n \in Node, m \in Node : entered[n] >= entered[m] - (IF where[m] = "" THEN 0 ELSE 1)
    <3>1. 0 >= 0 - 0
      OBVIOUS
    <3>2. ASSUME NEW n \in Node, NEW m \in Node
          PROVE  entered[n] >= entered[m] - (IF where[m] = "" THEN 0 ELSE 1)
      <4>1. entered[n] = 0 /\ entered[m] = 0 /\ (IF where[m] = "" THEN 0 ELSE 1) = 0
        BY <1>2
      <4> QED BY <3>1, <4>1
    <3> QED BY <3>2
  <2>2. \A n \in Node : stage[n] # "done"
    BY <1>2
  <2>3. InStep
    BY <1>2 DEF InStep
  <2> QED BY <2>1, <2>2, <2>3 DEF Together
<1>5. DirInv
  BY <1>2 DEF DirInv, Popped, Scattered
<1>6. \A m \in Node, j \in ChunkId : TodoAt(m, j)
  BY <1>2 DEF TodoAt
<1>7. \A m \in Node, n \in Node : NetAt(m, n)
  <2>1. ASSUME NEW m \in Node, NEW n \in Node
        PROVE  Places(net[m][n], "data") = {}
    <3>1. net[m][n] = <<>>
      BY DEF Init
    <3>2. DOMAIN <<>> = {}
      OBVIOUS
    <3> QED BY <3>1, <3>2 DEF Places
  <2> QED BY <2>1 DEF NetAt
<1>8. ASSUME NEW n \in Node
      PROVE  HandAt(n) /\ ClosedAt(n) /\ CountAt(n)
  <2>1. HandAt(n) /\ ClosedAt(n)
    BY <1>2, <1>3 DEF HandAt, ClosedAt
  <2>2. Owed(n) = Wants(n)
    <3>1. ASSUME NEW v \in Wants(n)
          PROVE  v \in Owed(n)
      <4>1. PICK m \in Node \ {n} : v \in Wanted(n, m)
        BY <1>1, WantedFacts
      <4>2. PICK j \in ChunkId : Holds(m, j, v)
        BY <1>1, <4>1, WantedFacts
      <4>3. Begun(m, j) < Expected(n)
        <5>1. Begun(m, j) = 0 /\ Expected(n) = 1
          BY <1>3
        <5> QED BY <5>1
      <4>4. Unsent(n, m, v)
        BY <4>2, <4>3 DEF Unsent
      <4> QED BY <4>1, <4>4 DEF Owed
    <3>2. Owed(n) \subseteq Wants(n)
      BY <1>1, WantedFacts
    <3> QED BY <3>1, <3>2
  <2>3. CountAt(n)
    <3>1. ghostVtcsRecvd[n] = 0 /\ ~Closing(n)
      BY <1>2, <1>3
    <3>2. Cardinality(Wants(n)) \in Nat
      BY <1>1, WantedFacts
    <3>3. ghostVtcsRecvd[n] = Cardinality(Wants(n)) - Cardinality(Owed(n))
      <4>1. Cardinality(Owed(n)) = Cardinality(Wants(n))
        BY <2>2
      <4> QED BY <3>1, <3>2, <4>1
    <3>4. ghostVtcsRecvd[n] <= Cardinality(Wants(n)) - Cardinality(Owed(n))
      <4>1. Cardinality(Owed(n)) = Cardinality(Wants(n))
        BY <2>2
      <4> QED BY <3>1, <3>2, <4>1
    <3> QED BY <3>1, <3>3, <3>4 DEF CountAt
  <2> QED BY <2>1, <2>3
<1>9. SendInv
  BY <1>6, <1>7, <1>8 DEF SendInv
<1> QED BY <1>4, <1>5, <1>9 DEF RoundInv

LEMMA RoundNext ==
  RoundInv /\ AlignInv /\ AckInv /\ DataInv /\ InStep' /\ [Next]_vars => RoundInv'
<1> SUFFICES ASSUME RoundInv, AlignInv, AckInv, DataInv, InStep', [Next]_vars PROVE RoundInv'
  OBVIOUS
<1>1. AlignInv'
  BY AlignNext
<1> QED BY <1>1, TogetherNext, DirNext, SendNext DEF RoundInv

\* As long as no server has stopped early.
LEMMA RoundSteps ==
  (InStep => RoundInv) /\ AlignInv /\ AckInv /\ DataInv /\ [Next]_vars => (InStep => RoundInv)'
BY RoundNext, InStepStays

\* Builds without lambdas have no weight server that tells DONE.
LEMMA InStepBuilds == AlignInv /\ conf.build # "Lambda" => InStep
<1> SUFFICES ASSUME AlignInv, conf.build # "Lambda", NEW n \in Node, stage[n] \in {"halt", "done"}
             PROVE  currEpoch[n] = conf.numEpochs
  BY DEF InStep
<1>1. conf \in Confs /\ Aligned(n)
  BY DEF AlignInv, AlignTypes
<1>2. conf.terms[n] = <<>>
  BY <1>1, ExchangeOK DEF Node
<1>3. ~StoppedEarly(n)
  BY <1>2 DEF StoppedEarly, MayStop
<1>4. Finished(n)
  BY <1>1, <1>3 DEF Aligned
<1> QED BY <1>4 DEF Finished

LEMMA RoundImplies == RoundInv /\ AlignInv /\ AckInv => NothingUncounted
<1> SUFFICES ASSUME RoundInv, AlignInv, AckInv, NEW n \in Node,
                    conf.build # "Lambda", scatter[n] = "reset"
             PROVE  Complete(n)
  BY DEF NothingUncounted
<1>1. recvCnt[n] = 0 /\ \A i \in ChunkId : place[n][i] = "stash"
  BY DEF AckInv, Resetting, Quiet
<1>2. Popped(n)
  <2>1. conf \in Confs
    BY AlignFacts
  <2>2. 0 \in ChunkId
    BY <2>1, ConfFacts
  <2> QED BY <1>1, <2>2 DEF Popped, Scattered
<1>3. currDir[n] = Final(n)
  BY <1>2 DEF RoundInv, DirInv, Final
<1>4. ghostVtcsRecvd[n] = Cardinality(Ghosts(conf.graph, n, Final(n)))
  <2>1. Closing(n) /\ ~Async
    BY DEF Closing, Async
  <2> QED BY <2>1 DEF RoundInv, SendInv, CountAt
<1> QED BY <1>1, <1>3, <1>4 DEF Complete, TotalGhostCnt

\* No value is lost from a count: when the scatter thread of a sync build sets recvCnt
\* and ghostVtcsRecvd back, both are complete, as no server has begun to send the values
\* of the next phase (scatterWorkFunc, the "barrier for pipeline").
THEOREM NoneUncounted == Spec => []NothingUncounted
<1>1. Init => (InStep => RoundInv) /\ DataInv /\ AckInv /\ AlignInv /\ TeamOK
  BY RoundInit, DataInit, AckInit, AlignInit, TeamInit
<1>2. /\ (InStep => RoundInv) /\ DataInv /\ AckInv /\ AlignInv /\ TeamOK /\ [Next]_vars
      => (InStep => RoundInv)' /\ DataInv' /\ AckInv' /\ AlignInv' /\ TeamOK'
  BY RoundSteps, DataNext, AckNext, AlignNext, TeamNext
<1>3. (InStep => RoundInv) /\ DataInv /\ AckInv /\ AlignInv => NothingUncounted
  <2>1. (conf.build = "Lambda") => NothingUncounted
    BY DEF NothingUncounted
  <2> QED BY <2>1, RoundImplies, InStepBuilds
<1> QED BY <1>1, <1>2, <1>3, PTL DEF Spec

-----------------------------------------------------------------------------
(***************************************************************************)
(* Freshness.  A chunk has a place in its epoch (Pos, as that of a tensor, *)
(* Due) and all that is due before it holds the chunk's values of the epoch*)
(* (OwnAt).  A round has a scatter phase and an epoch: what is on its way  *)
(* to a server is what that phase sends in that epoch (FlightAt), what is  *)
(* owed no more has arrived in its ghosts (ArrivedAt), and the ghosts of   *)
(* the phases behind it stay until all chunks have ended the epoch         *)
(* (KeptAt).                                                               *)
(***************************************************************************)
GapOf(c) == IF c.dir = "FORWARD" THEN c.layer ELSE Scatters + 1 - c.layer

\* The epoch that a chunk is in, or has ended last, and how far it is in it.
Stamp(n, i) == IF place[n][i] = "sch" THEN chunk[n][i].epoch - 1 ELSE chunk[n][i].epoch
Pos(n, i) ==
  IF place[n][i] = "sch" THEN 3 * (Scatters + 1)
  ELSE 3 * GapOf(chunk[n][i])
         + (IF place[n][i] = "GA" THEN 1 ELSE IF place[n][i] = "AV" THEN 2 ELSE 0)

Own(n, i, p, e) ==
  \A t : Saves(t) /\ ~Exempt(t) /\ Due(t) < p =>
    \A r \in Rows(n, i) : data[n][t][r] = <<VertexOf(n, r), e>>
OwnAt(n, i) == Stamp(n, i) >= 1 => Own(n, i, Pos(n, i), Stamp(n, i))

\* The epoch and the scatter phase of a round.
EpochOf(p) == CHOOSE e \in Nat : \E s \in 1..Scatters : p = RoundsOf(Scatters, e, s)
PhaseOf(p) == CHOOSE s \in 1..Scatters : \E e \in Nat : p = RoundsOf(Scatters, e, s)

ExpectedEpoch(n) == EpochOf(Expected(n))
ExpectedPhase(n) == PhaseOf(Expected(n))

\* The scatter phases of the epoch of which a server has all values.
GapNow(n) == IF Closing(n) THEN Gap(n) + 1 ELSE Gap(n)

MsgOK(n, msg) ==
  /\ msg.rows # {} /\ msg.tensor = StoreOf(ExpectedPhase(n)) /\ msg.dir = ExpectedDir(n)
  /\ \A x \in msg.rows : x[2] = <<x[1], ExpectedEpoch(n)>>

Flying(n, msg) ==
  \/ msg \in hand[n]
  \/ \E m \in Node : \E k \in Places(net[m][n], "data") : net[m][n][k] = msg
FlightAt(n) == \A msg : Flying(n, msg) => MsgOK(n, msg)

Ghost(n, s, v) == data[n][StoreOf(s)][GhostRow(conf.graph, n, DirOf(s), v)]
ArrivedAt(n) ==
  \A v \in Wants(n) : v \notin Owed(n) =>
    Ghost(n, ExpectedPhase(n), v) = <<v, ExpectedEpoch(n)>>
KeptAt(n) ==
  ~AllNext(n) =>
    \A s \in 1..GapNow(n) : \A v \in Ghosts(conf.graph, n, DirOf(s)) :
      Ghost(n, s, v) = <<v, currEpoch[n]>>

GhostsFresh(n) == FlightAt(n) /\ ArrivedAt(n) /\ KeptAt(n)

FreshInv == \A n \in Node : GhostsFresh(n) /\ \A i \in ChunkId : OwnAt(n, i)

-----------------------------------------------------------------------------
(* Rounds, epochs and scatter phases.                                      *)

LEMMA RoundsUnique ==
  ASSUME NEW S \in Nat, S > 0, NEW e \in Nat, NEW f \in Nat, NEW s \in 0..S, NEW t \in 0..S,
         RoundsOf(S, e, s) = RoundsOf(S, f, t)
  PROVE  (s = t /\ e = f) \/ (s = S /\ t = 0 /\ f = e + 1) \/ (s = 0 /\ t = S /\ e = f + 1)
<1>1. ASSUME NEW a \in Int, NEW b \in Int, a * S = b * S
      PROVE  a = b
  <2>1. ASSUME NEW x \in Int, NEW y \in Int, x < y
        PROVE  x * S < y * S
    <3>1. PICK d \in Nat : y = x + 1 + d
      <4>1. y - x - 1 \in Nat /\ y = x + 1 + (y - x - 1)
        BY <2>1
      <4> QED BY <4>1
    <3>2. y * S = x * S + S + d * S /\ d * S \in Nat /\ x * S \in Int
      BY <3>1
    <3> QED BY <3>2
  <2>2. a * S \in Int /\ b * S \in Int
    OBVIOUS
  <2>3. ~(a < b) /\ ~(b < a)
    BY <1>1, <2>1, <2>2
  <2> QED BY <2>3
<1>2. PICK x \in Int, y \in Int : x = (e - 1) * S /\ y = (f - 1) * S
  OBVIOUS
<1>3. x + s = y + t
  BY <1>2 DEF RoundsOf
<1>4. e * S = x + S /\ f * S = y + S
  BY <1>2
<1>5. s = t \/ (s = S /\ t = 0) \/ (s = 0 /\ t = S)
  BY SameRound
<1>6. CASE s = t
  <2>1. x = y
    BY <1>2, <1>3, <1>6
  <2>2. e - 1 = f - 1
    BY <1>1, <1>2, <2>1
  <2> QED BY <1>6, <2>2
<1>7. CASE s = S /\ t = 0
  <2>1. e * S = y
    BY <1>2, <1>3, <1>4, <1>7
  <2>2. e = f - 1
    BY <1>1, <1>2, <2>1
  <2> QED BY <1>7, <2>2
<1>8. CASE s = 0 /\ t = S
  <2>1. f * S = x
    BY <1>2, <1>3, <1>4, <1>8
  <2>2. f = e - 1
    BY <1>1, <1>2, <2>1
  <2> QED BY <1>8, <2>2
<1> QED BY <1>5, <1>6, <1>7, <1>8

\* The epoch and the scatter phase of a round are the only ones.
LEMMA RoundIs ==
  ASSUME conf \in Confs, NEW e \in Nat, NEW s \in 1..Scatters, NEW p, p = RoundsOf(Scatters, e, s)
  PROVE  EpochOf(p) = e /\ PhaseOf(p) = s
<1>1. Scatters \in Nat /\ Scatters > 0
  BY ScatterFacts
<1>2. ASSUME NEW f \in Nat, NEW t \in 1..Scatters, p = RoundsOf(Scatters, f, t)
      PROVE  f = e /\ t = s
  <2>1. s \in 0..Scatters /\ t \in 0..Scatters /\ s # 0 /\ t # 0
    BY <1>1
  <2>2. RoundsOf(Scatters, e, s) = RoundsOf(Scatters, f, t)
    BY <1>2
  <2> QED BY <1>1, <2>1, <2>2, RoundsUnique
<1>3. EpochOf(p) \in Nat /\ \E t \in 1..Scatters : p = RoundsOf(Scatters, EpochOf(p), t)
  BY DEF EpochOf
<1>4. PhaseOf(p) \in 1..Scatters /\ \E f \in Nat : p = RoundsOf(Scatters, f, PhaseOf(p))
  BY DEF PhaseOf
<1> QED BY <1>2, <1>3, <1>4

\* The round that a server expects, in terms of its own epoch and gap.
NowAt(n) ==
  /\ GapNow(n) \in 0..Scatters /\ currEpoch[n] \in Nat /\ Scatters \in Nat /\ Scatters > 1
  /\ Closing(n) => GapNow(n) = Gap(n) + 1
  /\ ExpectedPhase(n) \in 1..Scatters /\ ExpectedEpoch(n) \in Nat
  /\ ExpectedDir(n) = DirOf(ExpectedPhase(n))
  /\ GapNow(n) < Scatters => ExpectedPhase(n) = GapNow(n) + 1 /\ ExpectedEpoch(n) = currEpoch[n]
  /\ GapNow(n) = Scatters => ExpectedPhase(n) = 1 /\ ExpectedEpoch(n) = currEpoch[n] + 1

\* The round that a server expects is the next one of its epoch, or the first of the next epoch.
LEMMA Now ==
  ASSUME AlignInv, NEW n \in Node
  PROVE  NowAt(n)
<1>1. /\ Scatters \in Nat /\ Scatters > 1 /\ conf \in Confs /\ currEpoch[n] \in Nat /\ Gap(n) \in 0..Scatters
      /\ Passed(n) \in Nat /\ Passed(n) = RoundsOf(Scatters, currEpoch[n], Gap(n))
  BY PassedIs
<1>2. Closing(n) => Gap(n) < Scatters
  BY ClosingFacts
<1>3. PICK e \in Nat : e = currEpoch[n]
  BY <1>1
<1>4. PICK x \in Int : x = (e - 1) * Scatters
  BY <1>1, <1>3
<1>5. PICK g \in 0..Scatters : g = GapNow(n)
  BY <1>1, <1>2 DEF GapNow
<1>6. /\ Closing(n) => g = Gap(n) + 1 /\ ExpectedDir(n) = DirOf(After(g))
      /\ ~Closing(n) => g = Gap(n) /\ ExpectedDir(n) = DirOf(After(g))
  BY <1>5 DEF GapNow, ExpectedDir
<1>7. Passed(n) = x + Gap(n)
  BY <1>1, <1>3, <1>4 DEF RoundsOf
<1>8. Expected(n) = x + g + 1
  <2>1. CASE Closing(n)
    BY <1>1, <1>4, <1>6, <1>7, <2>1 DEF Expected
  <2>2. CASE ~Closing(n)
    BY <1>1, <1>4, <1>6, <1>7, <2>2 DEF Expected
  <2> QED BY <2>1, <2>2
<1>9. CASE g < Scatters
  <2>1. g + 1 \in 1..Scatters /\ After(g) = g + 1
    BY <1>1, <1>9 DEF After
  <2>2. Expected(n) = RoundsOf(Scatters, e, g + 1)
    BY <1>4, <1>8 DEF RoundsOf
  <2>3. ExpectedEpoch(n) = e /\ ExpectedPhase(n) = g + 1
    BY <1>1, <2>1, <2>2, RoundIs DEF ExpectedPhase, ExpectedEpoch
  <2>4. ExpectedDir(n) = DirOf(ExpectedPhase(n))
    BY <1>6, <2>1, <2>3
  <2> QED BY <1>1, <1>3, <1>5, <1>6, <1>9, <2>1, <2>3, <2>4 DEF NowAt
<1>10. CASE g = Scatters
  <2>1. 1 \in 1..Scatters /\ After(g) = 1
    BY <1>1, <1>10 DEF After
  <2>2. Expected(n) = RoundsOf(Scatters, e + 1, 1)
    <3>1. (e + 1 - 1) * Scatters = x + Scatters
      BY <1>1, <1>4
    <3>2. RoundsOf(Scatters, e + 1, 1) = x + Scatters + 1
      BY <3>1 DEF RoundsOf
    <3> QED BY <1>8, <1>10, <3>2
  <2>3. ExpectedEpoch(n) = e + 1 /\ ExpectedPhase(n) = 1
    BY <1>1, <2>1, <2>2, RoundIs DEF ExpectedPhase, ExpectedEpoch
  <2>4. ExpectedDir(n) = DirOf(ExpectedPhase(n))
    BY <1>6, <2>1, <2>3
  <2> QED BY <1>1, <1>3, <1>5, <1>6, <1>10, <2>1, <2>3, <2>4 DEF NowAt
<1> QED BY <1>1, <1>5, <1>9, <1>10

\* A chunk that is in a scatter phase sends what that phase sends in its epoch.
LEMMA SenderAgrees ==
  ASSUME AlignInv, NEW n \in Node, NEW m \in Node, Expected(n) = Passed(m) + 1, Gap(m) < Scatters
  PROVE  ExpectedPhase(n) = Gap(m) + 1 /\ ExpectedEpoch(n) = currEpoch[m]
<1>1. /\ Scatters \in Nat /\ conf \in Confs /\ currEpoch[m] \in Nat /\ Gap(m) \in 0..Scatters
      /\ Passed(m) = RoundsOf(Scatters, currEpoch[m], Gap(m))
  BY PassedIs
<1>2. PICK x \in Int : x = (currEpoch[m] - 1) * Scatters
  BY <1>1
<1>3. Expected(n) = RoundsOf(Scatters, currEpoch[m], Gap(m) + 1)
  BY <1>1, <1>2 DEF RoundsOf
<1>4. Gap(m) + 1 \in 1..Scatters
  BY <1>1
<1> QED BY <1>1, <1>3, <1>4, RoundIs DEF ExpectedPhase, ExpectedEpoch
\* A step that leaves the round that a server expects leaves its epoch and scatter phase.
LEMMA RoundKept ==
  ASSUME conf' = conf, NEW n, SameFor(n)
  PROVE  ExpectedPhase(n)' = ExpectedPhase(n) /\ ExpectedEpoch(n)' = ExpectedEpoch(n)
<1>1. Scatters' = Scatters
  BY ConfSame
<1>2. PICK S : S = Scatters
  OBVIOUS
<1>3. PICK p : p = Expected(n)
  OBVIOUS
<1>4. S = Scatters' /\ p = Expected(n)'
  BY <1>1, <1>2, <1>3 DEF SameFor
<1>5. ExpectedPhase(n) = CHOOSE s \in 1..S : \E e \in Nat : p = RoundsOf(S, e, s)
  BY <1>2, <1>3 DEF ExpectedPhase, PhaseOf
<1>6. ExpectedPhase(n)' = CHOOSE s \in 1..S : \E e \in Nat : p = RoundsOf(S, e, s)
  BY <1>4 DEF ExpectedPhase, PhaseOf
<1>7. ExpectedEpoch(n) = CHOOSE e \in Nat : \E s \in 1..S : p = RoundsOf(S, e, s)
  BY <1>2, <1>3 DEF ExpectedEpoch, EpochOf
<1>8. ExpectedEpoch(n)' = CHOOSE e \in Nat : \E s \in 1..S : p = RoundsOf(S, e, s)
  BY <1>4 DEF ExpectedEpoch, EpochOf
<1> QED BY <1>5, <1>6, <1>7, <1>8

-----------------------------------------------------------------------------
(* The own rows of a chunk.                                                *)

LEMMA GapOfIs ==
  ASSUME conf \in Confs, NEW c, NEW s \in 0..Scatters, Between(c, s)
  PROVE  GapOf(c) = s
<1>1. PICK S \in Nat : S = Scatters
  BY ScatterFacts
<1>2. Turn \in Nat /\ Turn < S
  BY <1>1, ScatterFacts
<1>3. /\ s <= Turn => c.dir = "FORWARD" /\ c.layer = s
      /\ ~(s <= Turn) => c.dir = "BACKWARD" /\ c.layer = S + 1 - s
  BY <1>1, AtPhase
<1>4. CASE s <= Turn
  BY <1>3, <1>4 DEF GapOf
<1>5. CASE ~(s <= Turn)
  <2>1. GapOf(c) = S + 1 - (S + 1 - s)
    BY <1>1, <1>3, <1>5 DEF GapOf
  <2> QED BY <1>1, <2>1
<1> QED BY <1>4, <1>5

\* Where a chunk is in its epoch.
PosAt(n, i, s) ==
  /\ place[n][i] = "sch" =>
       /\ Pos(n, i) = 3 * (Scatters + 1)
       /\ (s = 0 /\ Stamp(n, i) = currEpoch[n] - 1) \/ (s = Scatters /\ Stamp(n, i) = currEpoch[n])
  /\ place[n][i] # "sch" => Stamp(n, i) = currEpoch[n] /\ Stamp(n, i) = chunk[n][i].epoch
  /\ place[n][i] = "AE" => Pos(n, i) = 3 * s /\ s > 0
  /\ place[n][i] = "GA" => Pos(n, i) = 3 * s + 1 /\ (conf.gnn = "GAT" => s > 0)
  /\ place[n][i] = "AV" => Pos(n, i) = 3 * s + 2 /\ (conf.gnn = "GAT" => s # Turn)
  /\ place[n][i] \in {"AE", "GA", "AV"} => Between(chunk[n][i], s)
  /\ place[n][i] \in Scattered \cup {"SC"} =>
       Pos(n, i) = 3 * (s + 1) /\ s < Scatters /\ Between(chunk[n][i], s + 1)

\* The place of a chunk in its epoch, from the gap that its server is in.
LEMMA PosIs ==
  ASSUME AlignInv, NEW n \in Node, NEW i \in ChunkId
  PROVE  PosAt(n, i, Gap(n))
<1>1. PICK s \in 0..Scatters : s = Gap(n)
  BY GapAt
<1>2. ChunkAt(n, i, s) /\ conf \in Confs /\ currEpoch[n] \in Nat /\ Scatters \in Nat
  BY <1>1, GapAt
<1>3. CASE place[n][i] = "sch"
  <2>1. (s = 0 /\ chunk[n][i].epoch = currEpoch[n]) \/ (s = Scatters /\ chunk[n][i].epoch = currEpoch[n] + 1)
    BY <1>2, <1>3 DEF ChunkAt, Scattered
  <2>2. Stamp(n, i) = chunk[n][i].epoch - 1 /\ Pos(n, i) = 3 * (Scatters + 1)
    BY <1>3 DEF Stamp, Pos
  <2>3. (s = 0 /\ Stamp(n, i) = currEpoch[n] - 1) \/ (s = Scatters /\ Stamp(n, i) = currEpoch[n])
    BY <1>2, <2>1, <2>2
  <2> QED BY <1>1, <1>3, <2>2, <2>3 DEF PosAt, Scattered
<1>4. CASE place[n][i] \in {"AE", "GA", "AV"}
  <2>1. /\ chunk[n][i].epoch = currEpoch[n] /\ Between(chunk[n][i], s)
        /\ place[n][i] = "AE" \/ (place[n][i] = "GA" /\ conf.gnn = "GAT") => s > 0
        /\ place[n][i] = "AV" /\ conf.gnn = "GAT" => s # Turn
    BY <1>2, <1>4 DEF ChunkAt, Scattered
  <2>2. GapOf(chunk[n][i]) = s
    BY <1>2, <2>1, GapOfIs
  <2>3. Stamp(n, i) = chunk[n][i].epoch
    BY <1>4 DEF Stamp
  <2>4. /\ place[n][i] = "AE" => Pos(n, i) = 3 * s + 0
        /\ place[n][i] = "GA" => Pos(n, i) = 3 * s + 1
        /\ place[n][i] = "AV" => Pos(n, i) = 3 * s + 2
    BY <1>4, <2>2 DEF Pos
  <2>5. 3 * s + 0 = 3 * s
    OBVIOUS
  <2> QED BY <1>1, <1>4, <2>1, <2>3, <2>4, <2>5 DEF PosAt, Scattered
<1>5. CASE place[n][i] \in Scattered \cup {"SC"}
  <2>1. chunk[n][i].epoch = currEpoch[n] /\ s < Scatters /\ Between(chunk[n][i], s + 1)
    BY <1>2, <1>5 DEF ChunkAt, Scattered
  <2>2. GapOf(chunk[n][i]) = s + 1
    <3>1. s + 1 \in 0..Scatters
      BY <1>2, <2>1
    <3> QED BY <1>2, <2>1, <3>1, GapOfIs
  <2>3. Stamp(n, i) = chunk[n][i].epoch /\ Pos(n, i) = 3 * (s + 1) + 0
    BY <1>5, <2>2 DEF Stamp, Pos, Scattered
  <2>4. 3 * (s + 1) + 0 = 3 * (s + 1)
    OBVIOUS
  <2> QED BY <1>1, <1>5, <2>1, <2>3, <2>4 DEF PosAt, Scattered
<1>6. place[n][i] = "sch" \/ place[n][i] \in {"AE", "GA", "AV"} \/ place[n][i] \in Scattered \cup {"SC"}
  BY <1>2 DEF ChunkAt
<1> QED BY <1>3, <1>4, <1>5, <1>6

\* A phase of a chunk: what it writes fits in between where the chunk was and where it is.
FitsIn(n, i, c, ph, p, q) ==
  /\ Write(n, i, c, ph) /\ c.epoch = Stamp(n, i) /\ Stamp(n, i)' = Stamp(n, i)
  /\ p \in Int /\ q \in Int /\ Pos(n, i) = p /\ Pos(n, i)' = q /\ Fits(ph, p, q)

\* Each phase is one that fits in between two places of its chunk.
LEMMA WorkFits ==
  ASSUME AlignInv, NEW n \in Node, NEW i \in ChunkId, Work(n, i)
  PROVE  \E c, ph, p, q : FitsIn(n, i, c, ph, p, q)
<1>1. PICK s \in 0..Scatters : s = Gap(n)
  BY GapAt
<1>2. PICK c : c = chunk[n][i]
  OBVIOUS
<1>3. c \in Chunk /\ conf \in Confs /\ Scatters \in Nat /\ PosAt(n, i, s)
  BY <1>1, <1>2, AlignFacts, PosIs, ScatterFacts
<1>4. conf' = conf /\ Scatters' = Scatters /\ place[n][i] \in {"AE", "GA", "AV"}
  BY ConfSame DEF Work, Gather, ApplyVertex, ApplyEdge, InQueue
<1>5. Between(c, s) /\ Stamp(n, i) = c.epoch /\ c.epoch \in Nat
  BY <1>2, <1>3, <1>4 DEF PosAt, Chunk
<1>6. ASSUME NEW q, NEW d, Send(n, i, q, d)
      PROVE  place'[n][i] = q /\ chunk'[n][i] = d
  BY <1>6, AlignFacts DEF Send
<1>7. ASSUME NEW d, NEW t \in 0..Scatters, Between(d, t), d.epoch = c.epoch, Send(n, i, "SC", d)
      PROVE  Stamp(n, i)' = Stamp(n, i) /\ Pos(n, i)' = 3 * t
  <2>1. place'[n][i] = "SC" /\ chunk'[n][i] = d
    BY <1>6, <1>7
  <2>2. GapOf(d) = t
    BY <1>3, <1>7, GapOfIs
  <2>3. GapOf(d)' = t
    BY <1>4, <2>2 DEF GapOf
  <2>4. Stamp(n, i)' = d.epoch /\ Pos(n, i)' = 3 * t + 0
    BY <2>1, <2>3 DEF Stamp, Pos, GapOf
  <2> QED BY <1>5, <1>7, <2>4
<1>8. GapOf(c) = s
  BY <1>3, <1>5, GapOfIs
<1>9. CASE Gather(n, i)
  <2>1. place[n][i] = "GA"
    BY <1>9 DEF Gather, InQueue
  <2>2. PICK ph : ph = Gathering(conf.gnn, conf.numLayers, c)
    OBVIOUS
  <2>3. Write(n, i, c, ph)
    BY <1>2, <1>9, <2>2 DEF Gather
  <2>4. Pos(n, i) = 3 * s + 1 /\ (conf.gnn = "GAT" => s > 0)
    BY <1>3, <2>1 DEF PosAt
  <2>5. CASE IsTurn(conf.gnn, conf.numLayers, c)
    <3>1. PICK d : d = [c EXCEPT !.dir = "BACKWARD"]
      OBVIOUS
    <3>2. Send(n, i, "SC", d) /\ conf.gnn = "GAT"
      BY <1>2, <1>9, <2>5, <3>1 DEF Gather, IsTurn
    <3>3. s < Scatters /\ d.epoch = c.epoch /\ Between(d, s + 1)
      BY <1>3, <1>5, <2>5, <3>1, <3>2, TurnNext
    <3>4. Stamp(n, i)' = Stamp(n, i) /\ Pos(n, i)' = 3 * (s + 1)
      BY <1>3, <1>7, <3>2, <3>3
    <3>5. Fits(ph, 3 * s + 1, 3 * (s + 1))
      <4>1. s \in 1..Scatters
        BY <2>4, <3>2
      <4> QED BY <1>3, <1>5, <2>2, <2>5, <3>2, <4>1, GatherFitsGAT
    <3>6. 3 * s + 1 \in Int /\ 3 * (s + 1) \in Int
      OBVIOUS
    <3> QED BY <1>5, <2>3, <2>4, <3>4, <3>5, <3>6 DEF FitsIn
  <2>6. CASE ~IsTurn(conf.gnn, conf.numLayers, c)
    <3>1. Send(n, i, "AV", c)
      BY <1>2, <1>9, <2>6 DEF Gather
    <3>2. place'[n][i] = "AV" /\ chunk'[n][i] = c
      BY <1>6, <3>1
    <3>3. Stamp(n, i)' = Stamp(n, i) /\ Pos(n, i)' = 3 * s + 2
      BY <1>4, <1>5, <1>8, <3>2 DEF Stamp, Pos, GapOf
    <3>4. Fits(ph, 3 * s + 1, 3 * s + 2)
      <4>1. CASE conf.gnn = "GCN"
        BY <1>3, <1>5, <2>2, <4>1, GatherFitsGCN
      <4>2. CASE conf.gnn = "GAT"
        <5>1. s \in 1..Scatters
          BY <2>4, <4>2
        <5> QED BY <1>3, <1>5, <2>2, <2>6, <4>2, <5>1, GatherFitsGAT
      <4> QED BY <1>3, <4>1, <4>2, ScatterFacts DEF Gnn
    <3>5. 3 * s + 1 \in Int /\ 3 * s + 2 \in Int
      OBVIOUS
    <3> QED BY <1>5, <2>3, <2>4, <3>3, <3>4, <3>5 DEF FitsIn
  <2> QED BY <2>5, <2>6
<1>10. CASE ApplyVertex(n, i)
  <2>1. place[n][i] = "AV"
    BY <1>10 DEF ApplyVertex, InQueue
  <2>2. Pos(n, i) = 3 * s + 2 /\ (conf.gnn = "GAT" => s # Turn)
    BY <1>3, <2>1 DEF PosAt
  <2>3. PICK d : d = Applied(c)
    OBVIOUS
  <2>4. PICK ph : ph = NNCompute(conf.build, conf.gnn, conf.numLayers, d)
    OBVIOUS
  <2>5. Write(n, i, d, ph)
    BY <1>2, <1>10, <2>3, <2>4 DEF ApplyVertex
  <2>6. d.epoch = c.epoch
    BY <1>3, <1>5, <2>2, <2>3, AppliedIs DEF AppliedAt
  <2>7. Fits(ph, 3 * s + 2, 3 * (s + 1))
    <3>1. CASE conf.gnn = "GCN"
      BY <1>3, <1>5, <2>3, <2>4, <3>1, VertexFitsGCN
    <3>2. CASE conf.gnn = "GAT"
      BY <1>3, <1>5, <2>2, <2>3, <2>4, <3>2, VertexFitsGAT
    <3> QED BY <1>3, <3>1, <3>2, ScatterFacts DEF Gnn
  <2>8. PICK b : b = [c EXCEPT !.vertex = TRUE]
    OBVIOUS
  <2>9. AsVertex(c, b)
    BY <1>3, <2>8, VertexChunk
  <2>10. Stamp(n, i)' = Stamp(n, i) /\ Pos(n, i)' = 3 * (s + 1)
    <3>1. CASE c.dir = "FORWARD"
      <4>1. d = b
        BY <2>3, <2>8, <3>1 DEF Applied
      <4>2. b.dir = "FORWARD" /\ ~IsLastLayer(b)
        BY <2>9, <3>1 DEF AsVertex, IsLastLayer
      <4>3. Send(n, i, "SC", Inc(b))
        BY <1>2, <1>10, <2>3, <4>1, <4>2 DEF ApplyVertex
      <4>4. /\ Inc(b).epoch = c.epoch /\ s < Scatters /\ Between(Inc(b), s + 1)
        BY <1>3, <1>5, <2>2, <2>9, <3>1, ForwardNext
      <4> QED BY <1>3, <1>7, <4>3, <4>4
    <3>2. CASE c.dir # "FORWARD"
      <4>1. d = Inc(b)
        BY <2>3, <2>8, <3>2 DEF Applied
      <4>2. /\ d.epoch = c.epoch /\ d.dir = "BACKWARD"
            /\ IsLastLayer(d) <=> s = Scatters
            /\ s # Scatters => Between(d, s + 1)
            /\ s = Scatters => Inc(d).epoch = c.epoch + 1
        BY <1>3, <1>5, <2>9, <3>2, <4>1, BackwardNext
      <4>3. CASE s = Scatters
        <5>1. Send(n, i, "sch", Inc(d))
          BY <1>2, <1>10, <2>3, <4>2, <4>3 DEF ApplyVertex
        <5>2. place'[n][i] = "sch" /\ chunk'[n][i] = Inc(d)
          BY <1>6, <5>1
        <5>3. Stamp(n, i)' = Inc(d).epoch - 1 /\ Pos(n, i)' = 3 * (Scatters + 1)
          BY <1>4, <5>2 DEF Stamp, Pos
        <5>4. Inc(d).epoch - 1 = c.epoch
          BY <1>5, <4>2, <4>3
        <5> QED BY <1>5, <4>3, <5>3, <5>4
      <4>4. CASE s # Scatters
        <5>1. Send(n, i, "SC", d)
          BY <1>2, <1>10, <2>3, <4>2, <4>4 DEF ApplyVertex
        <5>2. s + 1 \in 0..Scatters
          BY <1>3, <4>4
        <5> QED BY <1>7, <4>2, <4>4, <5>1, <5>2
      <4> QED BY <4>3, <4>4
    <3> QED BY <3>1, <3>2
  <2>11. 3 * s + 2 \in Int /\ 3 * (s + 1) \in Int
    OBVIOUS
  <2> QED BY <1>5, <2>2, <2>5, <2>6, <2>7, <2>10, <2>11 DEF FitsIn
<1>11. CASE ApplyEdge(n, i)
  <2>1. place[n][i] = "AE"
    BY <1>11 DEF ApplyEdge, InQueue
  <2>2. Pos(n, i) = 3 * s /\ s > 0
    BY <1>3, <2>1 DEF PosAt
  <2>3. PICK d : d = [c EXCEPT !.vertex = FALSE]
    OBVIOUS
  <2>4. d.epoch = c.epoch /\ d.layer = c.layer /\ d.dir = c.dir /\ ~d.vertex /\ d.dir \in PropType
    BY <1>3, <2>3 DEF Chunk
  <2>5. PICK ph : ph = NNCompute(conf.build, conf.gnn, conf.numLayers, d)
    OBVIOUS
  <2>6. Write(n, i, d, ph) /\ Send(n, i, "GA", d)
    BY <1>2, <1>11, <2>3, <2>5 DEF ApplyEdge
  <2>7. Between(d, s)
    BY <1>5, <2>4 DEF Between
  <2>8. Fits(ph, 3 * s, 3 * s + 1)
    <3>1. s \in 1..Scatters
      BY <2>2
    <3> QED BY <1>3, <2>4, <2>5, <2>7, <3>1, EdgeFits
  <2>9. place'[n][i] = "GA" /\ chunk'[n][i] = d
    BY <1>6, <2>6
  <2>10. GapOf(d) = s
    BY <1>3, <2>7, GapOfIs
  <2>11. Stamp(n, i)' = Stamp(n, i) /\ Pos(n, i)' = 3 * s + 1
    BY <1>4, <1>5, <2>4, <2>9, <2>10 DEF Stamp, Pos, GapOf
  <2>12. 3 * s \in Int /\ 3 * s + 1 \in Int
    OBVIOUS
  <2> QED BY <1>5, <2>2, <2>4, <2>6, <2>8, <2>11, <2>12 DEF FitsIn
<1> QED BY <1>9, <1>10, <1>11 DEF Work

\* Nothing is due before the first phase of an epoch.
LEMMA DueLow ==
  ASSUME conf \in Confs, NEW t, Saves(t), ~Exempt(t)
  PROVE  ~(Due(t) < (IF conf.gnn = "GCN" THEN 1 ELSE 2))
<1>1. PICK S \in Nat, L \in Nat : S = Scatters /\ L = conf.numLayers
  BY ScatterFacts
<1>2. /\ L > 0 /\ conf.gnn \in {"GCN", "GAT"}
      /\ conf.gnn = "GCN" => S = 2 * L - 2 /\ L > 1
      /\ conf.gnn = "GAT" => S = 2 * L
  BY <1>1, ScatterFacts DEF Scatters, Gnn
<1>3. CASE conf.gnn = "GCN"
  <2>1. \A l \in 0..L - 1 : Due(<<"ah", l>>) = 3 * l + 1 /\ 3 * l + 1 >= 1
    <3>1. TAKE l \in 0..L - 1
    <3>2. 3 * l + 1 >= 1
      OBVIOUS
    <3> QED BY <1>3, <3>2, DueGCNIs
  <2>2. \A l \in 0..L - 2 : /\ Due(<<"z", l>>) = 3 * l + 2 /\ Due(<<"h", l>>) = 3 * l + 2 /\ 3 * l + 2 >= 1
                            /\ Due(<<"aTg", l>>) = 3 * (S - l) + 1 /\ 3 * (S - l) + 1 >= 1
    <3>1. TAKE l \in 0..L - 2
    <3>2. S - l >= 0
      BY <1>2, <1>3
    <3>3. 3 * l + 2 >= 1 /\ 3 * (S - l) + 1 >= 1
      BY <3>2
    <3> QED BY <1>1, <1>3, <3>3, DueGCNIs
  <2>3. \A l \in 1..L - 1 : Due(<<"grad", l>>) = 3 * (S - l) + 2 /\ 3 * (S - l) + 2 >= 1
    <3>1. TAKE l \in 1..L - 1
    <3>2. S - l >= 0
      BY <1>2, <1>3
    <3>3. 3 * (S - l) + 2 >= 1
      BY <3>2
    <3> QED BY <1>1, <1>3, <3>3, DueGCNIs
  <2>4. \/ \E l \in 0..L - 1 : t = <<"ah", l>>
        \/ \E l \in 0..L - 2 : t = <<"z", l>> \/ t = <<"h", l>> \/ t = <<"aTg", l>>
        \/ \E l \in 1..L - 1 : t = <<"grad", l>>
    BY <1>1, <1>3, SavesGCN
  <2>5. \E d \in Int : Due(t) = d /\ d >= 1
    <3>1. CASE \E l \in 0..L - 1 : t = <<"ah", l>>
      BY <2>1, <3>1
    <3>2. CASE \E l \in 0..L - 2 : t = <<"z", l>> \/ t = <<"h", l>> \/ t = <<"aTg", l>>
      <4>1. PICK l \in 0..L - 2 : t = <<"z", l>> \/ t = <<"h", l>> \/ t = <<"aTg", l>>
        BY <3>2
      <4>2. 3 * l + 2 \in Int /\ 3 * (S - l) + 1 \in Int
        OBVIOUS
      <4> QED BY <2>2, <4>1, <4>2
    <3>3. CASE \E l \in 1..L - 1 : t = <<"grad", l>>
      BY <2>3, <3>3
    <3> QED BY <2>4, <3>1, <3>2, <3>3
  <2>6. PICK d \in Int : Due(t) = d /\ d >= 1
    BY <2>5
  <2>7. ~(d < 1)
    BY <2>6
  <2> QED BY <1>3, <2>6, <2>7
<1>4. CASE conf.gnn = "GAT"
  <2>1. \E d \in Int : Due(t) = d /\ d >= 2
    <3>1. CASE t = <<"A", 0>>
      <4>1. Due(t) = 3
        BY <1>4, <3>1, DueGATIs
      <4> QED BY <4>1
    <3>2. CASE \E l \in 1..L - 1 : t = <<"h", l>>
      BY <1>4, <3>2 DEF Exempt, NeverWritten
    <3>3. ASSUME NEW l \in 0..L - 1,
                 \/ t = <<"z", l>> \/ t = <<"az", l>> \/ t = <<"ah", l>>
                 \/ t = <<"grad", l>> \/ t = <<"dA", l>> \/ t = <<"aTg", l>>
          PROVE  \E d \in Int : Due(t) = d /\ d >= 2
      <4>1. S - l >= 1 /\ S - 1 - l >= 0
        BY <1>2, <1>4
      <4>2. /\ 3 * l + 2 \in Int /\ 3 * l + 2 >= 2
            /\ 3 * (l + 1) \in Int /\ 3 * (l + 1) >= 2
            /\ 3 * (l + 1) + 1 \in Int /\ 3 * (l + 1) + 1 >= 2
            /\ 3 * (S - 1 - l) + 2 \in Int /\ 3 * (S - 1 - l) + 2 >= 2
            /\ 3 * (S - l) \in Int /\ 3 * (S - l) >= 2
            /\ 3 * (S - l) + 1 \in Int /\ 3 * (S - l) + 1 >= 2
        BY <4>1
      <4>3. /\ Due(<<"z", l>>) = 3 * l + 2 /\ Due(<<"az", l>>) = 3 * (l + 1)
            /\ Due(<<"ah", l>>) = 3 * (l + 1) + 1 /\ Due(<<"grad", l>>) = 3 * (S - 1 - l) + 2
            /\ Due(<<"dA", l>>) = 3 * (S - l) /\ Due(<<"aTg", l>>) = 3 * (S - l) + 1
        BY <1>1, <1>4, DueGATIs
      <4> QED BY <3>3, <4>2, <4>3
    <3> QED BY <1>1, <1>4, <3>1, <3>2, <3>3, SavesGAT
  <2>2. PICK d \in Int : Due(t) = d /\ d >= 2
    BY <2>1
  <2>3. ~(d < 2)
    BY <2>2
  <2>4. conf.gnn # "GCN"
    BY <1>4
  <2> QED BY <2>2, <2>3, <2>4
<1> QED BY <1>2, <1>3, <1>4

\* What the configuration alone determines.
TablesSame ==
  /\ \A t : (Saves(t)' <=> Saves(t)) /\ (Exempt(t)' <=> Exempt(t)) /\ Due(t)' = Due(t)
  /\ \A n, i : Rows(n, i)' = Rows(n, i)
  /\ \A n, r : VertexOf(n, r)' = VertexOf(n, r)
  /\ \A c : GapOf(c)' = GapOf(c)
  /\ Scatters' = Scatters /\ Node' = Node /\ ChunkId' = ChunkId

LEMMA TablesKept == conf' = conf => TablesSame
<1> SUFFICES ASSUME conf' = conf PROVE TablesSame
  OBVIOUS
<1>1. Scatters' = Scatters /\ Node' = Node /\ ChunkId' = ChunkId
  BY ConfSame
<1>2. \A t : (Saves(t)' <=> Saves(t)) /\ (Exempt(t)' <=> Exempt(t))
  BY DEF Saves, Exempt
<1>3. \A t : Due(t)' = Due(t)
  BY <1>1 DEF Due, DueGCN, DueGAT
<1>4. \A n, i : Rows(n, i)' = Rows(n, i)
  BY DEF Rows
<1>5. \A n, r : VertexOf(n, r)' = VertexOf(n, r)
  BY DEF VertexOf
<1>6. \A c : GapOf(c)' = GapOf(c)
  BY <1>1 DEF GapOf
<1> QED BY <1>1, <1>2, <1>3, <1>4, <1>5, <1>6 DEF TablesSame

\* A chunk that stays where it is.
LEMMA ChunkStays ==
  ASSUME conf' = conf, NEW n \in Node, NEW i \in ChunkId,
         place'[n][i] = place[n][i], chunk'[n][i] = chunk[n][i]
  PROVE  Pos(n, i)' = Pos(n, i) /\ Stamp(n, i)' = Stamp(n, i)
BY ConfSame DEF Pos, Stamp, GapOf

\* A chunk that keeps its place in the epoch, and its rows.
LEMMA OwnKept ==
  ASSUME conf' = conf, NEW n \in Node, NEW i \in ChunkId, OwnAt(n, i),
         Pos(n, i)' = Pos(n, i), Stamp(n, i)' = Stamp(n, i),
         \A t : Saves(t) => \A r \in Rows(n, i) : data'[n][t][r] = data[n][t][r]
  PROVE  OwnAt(n, i)'
<1>1. TablesSame
  BY TablesKept
<1>2. PICK p, e : p = Pos(n, i) /\ e = Stamp(n, i)
  OBVIOUS
<1>3. e >= 1 => Own(n, i, p, e)
  BY <1>2 DEF OwnAt
<1>4. Own(n, i, p, e) => Own(n, i, p, e)'
  BY <1>1 DEF Own, TablesSame
<1> QED BY <1>2, <1>3, <1>4 DEF OwnAt

\* A chunk that begins an epoch.
LEMMA OwnBegun ==
  ASSUME conf' = conf, conf \in Confs, NEW n \in Node, NEW i \in ChunkId,
         NEW c, c.dir = "FORWARD", c.layer = 0, place'[n][i] = FirstQueue, chunk'[n][i] = c
  PROVE  OwnAt(n, i)'
<1>1. TablesSame
  BY TablesKept
<1>2. Pos(n, i)' = IF conf.gnn = "GCN" THEN 1 ELSE 2
  <2>1. GapOf(c) = 0 /\ GapOf(c)' = 0
    BY <1>1 DEF TablesSame, GapOf
  <2>2. Pos(n, i)' = 3 * 0 + (IF place'[n][i] = "GA" THEN 1 ELSE IF place'[n][i] = "AV" THEN 2 ELSE 0)
    BY <2>1 DEF Pos, GapOf, FirstQueue
  <2> QED BY <2>2 DEF FirstQueue
<1>3. ASSUME NEW e PROVE Own(n, i, IF conf.gnn = "GCN" THEN 1 ELSE 2, e)'
  BY <1>1, DueLow DEF Own, TablesSame
<1> QED BY <1>2, <1>3 DEF OwnAt

\* What a phase leaves in the rows of the tensors that are not for ghosts.
Wrote(n, i, c, ph) ==
  /\ \A m \in Node \ {n} : data'[m] = data[m]
  /\ \A t : Saves(t) => \A j \in ChunkId : \A r \in Rows(n, j) :
       data'[n][t][r] = IF t \notin ph.writes \/ r \notin Rows(n, i) THEN data[n][t][r]
                        ELSE <<VertexOf(n, r), IF Accumulated(conf.build, conf.gnn, t) THEN 0 ELSE c.epoch>>

LEMMA WriteIs ==
  ASSUME DataInv, conf \in Confs, NEW n \in Node, NEW i, NEW c, NEW ph, Write(n, i, c, ph)
  PROVE  Wrote(n, i, c, ph)
<1> DEFINE T == Tensors(conf.gnn, conf.numLayers)
<1>1. /\ DOMAIN data = Node /\ DOMAIN data[n] = T
      /\ \A t \in T : DOMAIN data[n][t] = TensorRows(n, t)
  BY DEF DataInv, DataOK
<1>2. \A m \in Node \ {n} : data'[m] = data[m]
  BY <1>1 DEF Write
<1>3. data'[n] = [t \in T |-> IF t \notin ph.writes THEN data[n][t]
        ELSE [r \in DOMAIN data[n][t] |->
               IF r \notin Rows(n, i) THEN data[n][t][r]
               ELSE <<VertexOf(n, r), IF Accumulated(conf.build, conf.gnn, t) THEN 0 ELSE c.epoch>>]]
  BY <1>1 DEF Write
<1>4. ASSUME NEW t, Saves(t), NEW j \in ChunkId, NEW r \in Rows(n, j)
      PROVE  data'[n][t][r] = IF t \notin ph.writes \/ r \notin Rows(n, i) THEN data[n][t][r]
                              ELSE <<VertexOf(n, r), IF Accumulated(conf.build, conf.gnn, t) THEN 0 ELSE c.epoch>>
  <2>1. t \in T /\ r \in TensorRows(n, t)
    BY <1>4, RowsFacts DEF Saves, TensorRows
  <2>2. CASE t \notin ph.writes
    <3>1. data'[n][t] = data[n][t]
      BY <1>3, <2>1, <2>2
    <3> QED BY <2>2, <3>1
  <2>3. CASE t \in ph.writes
    <3>1. data'[n][t] = [x \in TensorRows(n, t) |->
               IF x \notin Rows(n, i) THEN data[n][t][x]
               ELSE <<VertexOf(n, x), IF Accumulated(conf.build, conf.gnn, t) THEN 0 ELSE c.epoch>>]
      BY <1>1, <1>3, <2>1, <2>3
    <3> QED BY <2>1, <2>3, <3>1
  <2> QED BY <2>2, <2>3
<1> QED BY <1>2, <1>4 DEF Wrote

\* A phase writes all that is due until the chunk's next one.
LEMMA OwnWritten ==
  ASSUME DataInv, conf \in Confs, conf' = conf, NEW n \in Node, NEW i \in ChunkId, OwnAt(n, i),
         NEW c, NEW ph, NEW p, NEW q, FitsIn(n, i, c, ph, p, q)
  PROVE  OwnAt(n, i)'
<1>1. TablesSame /\ Wrote(n, i, c, ph)
  BY TablesKept, WriteIs DEF FitsIn
<1>2. PICK e : e = Stamp(n, i)
  OBVIOUS
<1>3. /\ c.epoch = e /\ Stamp(n, i)' = e /\ Pos(n, i) = p /\ Pos(n, i)' = q
      /\ p \in Int /\ q \in Int /\ Fits(ph, p, q)
  BY <1>2 DEF FitsIn
<1>4. e >= 1 => Own(n, i, p, e)
  BY <1>2, <1>3 DEF OwnAt
<1>5. ASSUME e >= 1, NEW t, Saves(t), ~Exempt(t), Due(t) < q, NEW r \in Rows(n, i)
      PROVE  data'[n][t][r] = <<VertexOf(n, r), e>>
  <2>1. ~Accumulated(conf.build, conf.gnn, t) /\ Due(t) \in Int
    BY <1>5, DueInt DEF Exempt
  <2>2. CASE t \in ph.writes
    BY <1>1, <1>3, <1>5, <2>1, <2>2 DEF Wrote
  <2>3. CASE t \notin ph.writes
    <3>1. t \notin DueIn(p, q)
      BY <1>3, <2>3 DEF Fits
    <3>2. t \in Tensors(conf.gnn, conf.numLayers) /\ ~IsGhost(t)
      BY <1>5 DEF Saves
    <3>3. ~(p <= Due(t))
      BY <1>5, <3>1, <3>2 DEF DueIn
    <3>4. Due(t) < p
      BY <1>3, <2>1, <3>3
    <3>5. data[n][t][r] = <<VertexOf(n, r), e>>
      BY <1>4, <1>5, <3>4 DEF Own
    <3>6. data'[n][t][r] = data[n][t][r]
      BY <1>1, <1>5, <2>3 DEF Wrote
    <3> QED BY <3>5, <3>6
  <2> QED BY <2>2, <2>3
<1>6. e >= 1 => Own(n, i, q, e)'
  BY <1>1, <1>5 DEF Own, TablesSame
<1> QED BY <1>3, <1>6 DEF OwnAt

\* No two chunks share a row.
LEMMA RowsApart ==
  ASSUME conf \in Confs, NEW n \in Node, NEW i \in ChunkId, NEW j \in ChunkId, i # j
  PROVE  Rows(n, i) \cap Rows(n, j) = {}
<1>1. ASSUME NEW r \in Rows(n, i), r \in Rows(n, j)
      PROVE  FALSE
  <2>1. PICK v : v = VertexOf(n, r)
    OBVIOUS
  <2>2. LocalId(conf.graph, n, v) = r
    BY <2>1, RowsFacts
  <2>3. Holds(n, i, v) /\ Holds(n, j, v)
    BY <1>1, <2>2 DEF Holds
  <2> QED BY <2>3, OneHolder
<1> QED BY <1>1

\* A phase of one chunk: its rows, and those of the others.
LEMMA WorkOwns ==
  ASSUME DataInv, AlignInv, NEW n \in Node, NEW i \in ChunkId, Work(n, i),
         \A m \in Node, j \in ChunkId : OwnAt(m, j)
  PROVE  \A m \in Node, j \in ChunkId : OwnAt(m, j)'
<1>1. PICK c, ph, p, q : FitsIn(n, i, c, ph, p, q)
  BY WorkFits
<1>2. conf \in Confs /\ conf' = conf
  BY AlignFacts DEF Work, Gather, ApplyVertex, ApplyEdge
<1>3. Wrote(n, i, c, ph)
  BY <1>1, <1>2, WriteIs DEF FitsIn
<1>4. PICK x, d : Send(n, i, x, d)
  BY DEF Work, Gather, ApplyVertex, ApplyEdge
<1>5. \A m \in Node, j \in ChunkId : <<m, j>> # <<n, i>> =>
        place'[m][j] = place[m][j] /\ chunk'[m][j] = chunk[m][j]
  BY <1>4, AlignFacts DEF Send
<1>6. ASSUME NEW m \in Node, NEW j \in ChunkId
      PROVE  OwnAt(m, j)'
  <2>1. CASE m = n /\ j = i
    BY <1>1, <1>2, <2>1, OwnWritten
  <2>2. CASE ~(m = n /\ j = i)
    <3>1. Pos(m, j)' = Pos(m, j) /\ Stamp(m, j)' = Stamp(m, j)
      BY <1>2, <1>5, <2>2, ChunkStays
    <3>2. \A t : Saves(t) => \A r \in Rows(m, j) : data'[m][t][r] = data[m][t][r]
      <4>1. CASE m # n
        BY <1>3, <4>1 DEF Wrote
      <4>2. CASE m = n /\ j # i
        <5>1. \A r \in Rows(m, j) : r \notin Rows(n, i)
          BY <1>2, <4>2, RowsApart
        <5> QED BY <1>3, <4>2, <5>1 DEF Wrote
      <4> QED BY <2>2, <4>1, <4>2
    <3> QED BY <1>2, <3>1, <3>2, OwnKept
  <2> QED BY <2>1, <2>2
<1> QED BY <1>6

\* Steps that take a chunk from queue to queue and save nothing.
LEMMA SchedOwns ==
  ASSUME AlignInv, NEW n \in Node, NEW i \in ChunkId, SchedPass(n, i) \/ SchedStart(n, i),
         \A m \in Node, j \in ChunkId : OwnAt(m, j)
  PROVE  \A m \in Node, j \in ChunkId : OwnAt(m, j)'
<1>1. UNCHANGED <<conf, data>> /\ Send(n, i, FirstQueue, chunk[n][i]) /\ place[n][i] = "sch"
  BY DEF SchedPass, SchedStart, Schedulable, InQueue
<1>2. conf \in Confs /\ ChunkAt(n, i, Gap(n))
  BY GapAt
<1>3. chunk[n][i].dir = "FORWARD" /\ chunk[n][i].layer = 0
  BY <1>1, <1>2 DEF ChunkAt, Scattered
<1>4. /\ place'[n][i] = FirstQueue /\ chunk'[n][i] = chunk[n][i]
      /\ \A m \in Node, j \in ChunkId : <<m, j>> # <<n, i>> =>
           place'[m][j] = place[m][j] /\ chunk'[m][j] = chunk[m][j]
  BY <1>1, AlignFacts DEF Send
<1>5. OwnAt(n, i)'
  BY <1>1, <1>2, <1>3, <1>4, OwnBegun
<1>6. ASSUME NEW m \in Node, NEW j \in ChunkId, <<m, j>> # <<n, i>>
      PROVE  OwnAt(m, j)'
  <2>1. Pos(m, j)' = Pos(m, j) /\ Stamp(m, j)' = Stamp(m, j)
    BY <1>1, <1>4, <1>6, ChunkStays
  <2> QED BY <1>1, <2>1, OwnKept
<1> QED BY <1>5, <1>6

\* The queues of a scatter phase, and the edges' after it, are one place in the epoch.
Waiting == Scattered \cup {"SC", "AE"}

LEMMA WaitingOwns ==
  ASSUME AlignInv, UNCHANGED <<conf, data, chunk>>,
         \A m \in Node, j \in ChunkId : place'[m][j] = place[m][j] \/ (place[m][j] \in Waiting /\ place'[m][j] \in Waiting),
         \A m \in Node, j \in ChunkId : OwnAt(m, j)
  PROVE  \A m \in Node, j \in ChunkId : OwnAt(m, j)'
<1>1. ASSUME NEW m \in Node, NEW j \in ChunkId
      PROVE  OwnAt(m, j)'
  <2>1. Pos(m, j)' = Pos(m, j) /\ Stamp(m, j)' = Stamp(m, j)
    <3>1. CASE place'[m][j] = place[m][j]
      BY <3>1, ChunkStays
    <3>2. CASE place[m][j] \in Waiting /\ place'[m][j] \in Waiting
      <4>1. place[m][j] \notin {"sch", "GA", "AV"} /\ place'[m][j] \notin {"sch", "GA", "AV"}
        BY <3>2 DEF Waiting, Scattered
      <4>2. PICK x : x = 3 * GapOf(chunk[m][j]) + 0
        OBVIOUS
      <4>3. Pos(m, j) = x /\ Stamp(m, j) = chunk[m][j].epoch
        BY <4>1, <4>2 DEF Pos, Stamp
      <4>4. GapOf(chunk[m][j])' = GapOf(chunk[m][j])
        BY ConfSame DEF GapOf
      <4>5. Pos(m, j)' = 3 * GapOf(chunk[m][j])' + 0 /\ Stamp(m, j)' = chunk[m][j].epoch
        BY <4>1 DEF Pos, Stamp
      <4> QED BY <4>2, <4>3, <4>4, <4>5
    <3> QED BY <3>1, <3>2
  <2> QED BY <2>1, OwnKept
<1> QED BY <1>1

-----------------------------------------------------------------------------
(* The ghosts.                                                             *)

\* Ghosts have rows of their own.
LEMMA GhostRows ==
  ASSUME conf \in Confs, NEW n \in Node, NEW dir
  PROVE  \A v \in Ghosts(conf.graph, n, dir), w \in Ghosts(conf.graph, n, dir) :
           /\ GhostRow(conf.graph, n, dir, v) \in 0..Cardinality(Ghosts(conf.graph, n, dir)) - 1
           /\ GhostRow(conf.graph, n, dir, v) = GhostRow(conf.graph, n, dir, w) => v = w
<1>1. PICK S : S = Ghosts(conf.graph, n, dir)
  OBVIOUS
<1>2. S \in SUBSET Nat /\ IsFiniteSet(S)
  BY <1>1, ConfFacts, GhostsAreVertices
<1>3. \A v \in S : GhostRow(conf.graph, n, dir, v) = Rank(S, v)
  BY <1>1 DEF GhostRow, Rank
<1> QED BY <1>1, <1>2, <1>3, RankOnto

\* A message is stored: its vertices' rows of the ghost tensor of the round that is
\* expected have its values, and all else stays.
Stores(n, msg, s, d, e) ==
  /\ msg \in hand[n] /\ hand'[n] = hand[n] \ {msg} /\ (\A m \in Node \ {n} : hand'[m] = hand[m])
  /\ s = ExpectedPhase(n) /\ d = ExpectedDir(n) /\ e = ExpectedEpoch(n)
  /\ \A m \in Node \ {n} : data'[m] = data[m]
  /\ \A t \in Tensors(conf.gnn, conf.numLayers) : t # StoreOf(s) => data'[n][t] = data[n][t]
  /\ \A v \in Wants(n) :
       data'[n][StoreOf(s)][GhostRow(conf.graph, n, d, v)]
         = IF v \in VtcsOf(msg) THEN <<v, e>> ELSE data[n][StoreOf(s)][GhostRow(conf.graph, n, d, v)]

\* What StoreValues does with a message of the round that its server expects.
LEMMA StoreIs ==
  ASSUME AlignInv, DataInv, SendInv, NEW n \in Node, FlightAt(n), StoreValues(n)
  PROVE  \E msg, s, d, e : Stores(n, msg, s, d, e)
<1>1. PICK msg \in hand[n] :
        /\ hand' = [hand EXCEPT ![n] = @ \ {msg}]
        /\ data' = [data EXCEPT ![n][msg.tensor] =
             [r \in DOMAIN @ |-> IF RowsFor(n, msg, r) = {} THEN @[r]
                                 ELSE (CHOOSE x \in RowsFor(n, msg, r) : TRUE)[2]]]
  BY StoreFacts
<1>2. PICK s, d, e : s = ExpectedPhase(n) /\ d = ExpectedDir(n) /\ e = ExpectedEpoch(n)
  OBVIOUS
<1>3. conf \in Confs /\ s \in 1..Scatters /\ d = DirOf(s) /\ d \in PropType
  BY <1>2, AlignFacts, Now DEF NowAt, DirOf, PropType
<1>4. msg.tensor = StoreOf(s) /\ msg.dir = d /\ \A x \in msg.rows : x[2] = <<x[1], e>>
  BY <1>2 DEF FlightAt, Flying, MsgOK
<1>5. PICK t : t = StoreOf(s)
  OBVIOUS
<1>6. t \in Tensors(conf.gnn, conf.numLayers) /\ IsGhost(t) /\ GhostDir(t) = d
  BY <1>3, <1>5, SendFits DEF SendAt
<1>7. /\ DOMAIN hand = Node /\ DOMAIN data = Node /\ DOMAIN data[n] = Tensors(conf.gnn, conf.numLayers)
      /\ DOMAIN data[n][t] = TensorRows(n, t)
  BY <1>6 DEF DataInv, DataOK, HandOK
<1>8. Wants(n) = Ghosts(conf.graph, n, d)
  BY <1>2 DEF Wants
<1>9. \A x \in msg.rows : x[1] \in Wants(n)
  <2>1. InTime(n, msg)
    BY DEF SendInv, HandAt
  <2> QED BY <1>3, <2>1, WantedFacts DEF InTime
<1>10. /\ \A m \in Node \ {n} : data'[m] = data[m]
       /\ \A u \in Tensors(conf.gnn, conf.numLayers) : u # t => data'[n][u] = data[n][u]
  BY <1>1, <1>4, <1>5, <1>7
<1>11. data'[n][t] = [r \in TensorRows(n, t) |-> IF RowsFor(n, msg, r) = {} THEN data[n][t][r]
                                                 ELSE (CHOOSE x \in RowsFor(n, msg, r) : TRUE)[2]]
  BY <1>1, <1>4, <1>5, <1>6, <1>7
<1>12. ASSUME NEW v \in Wants(n), NEW r, r = GhostRow(conf.graph, n, d, v)
       PROVE  data'[n][t][r] = IF v \in VtcsOf(msg) THEN <<v, e>> ELSE data[n][t][r]
  <2>1. r \in TensorRows(n, t)
    <3>1. r \in 0..Cardinality(Ghosts(conf.graph, n, d)) - 1
      BY <1>3, <1>8, <1>12, GhostRows
    <3> QED BY <1>6, <3>1 DEF TensorRows
  <2>2. \A x \in RowsFor(n, msg, r) : x \in msg.rows /\ x[1] = v
    <3>1. TAKE x \in RowsFor(n, msg, r)
    <3>2. x \in msg.rows /\ GhostRow(conf.graph, n, d, x[1]) = r
      BY <1>4 DEF RowsFor
    <3>3. x[1] = v
      BY <1>3, <1>8, <1>9, <1>12, <3>2, GhostRows
    <3> QED BY <3>2, <3>3
  <2>3. CASE RowsFor(n, msg, r) = {}
    <3>1. v \notin VtcsOf(msg)
      BY <1>4, <1>12, <2>3 DEF VtcsOf, RowsFor
    <3> QED BY <1>11, <2>1, <2>3, <3>1
  <2>4. CASE RowsFor(n, msg, r) # {}
    <3>1. PICK x : x = CHOOSE y \in RowsFor(n, msg, r) : TRUE
      OBVIOUS
    <3>2. x \in RowsFor(n, msg, r)
      BY <2>4, <3>1
    <3>3. x \in msg.rows /\ x[1] = v /\ x[2] = <<v, e>>
      BY <1>4, <2>2, <3>2
    <3>4. v \in VtcsOf(msg)
      BY <3>3 DEF VtcsOf
    <3> QED BY <1>11, <2>1, <2>4, <3>1, <3>3, <3>4
  <2> QED BY <2>3, <2>4
<1>13. hand'[n] = hand[n] \ {msg} /\ \A m \in Node \ {n} : hand'[m] = hand[m]
  BY <1>1, <1>7
<1>14. \A v \in Wants(n) :
         data'[n][StoreOf(s)][GhostRow(conf.graph, n, d, v)]
           = IF v \in VtcsOf(msg) THEN <<v, e>> ELSE data[n][StoreOf(s)][GhostRow(conf.graph, n, d, v)]
  BY <1>5, <1>12
<1>15. \A u \in Tensors(conf.gnn, conf.numLayers) : u # StoreOf(s) => data'[n][u] = data[n][u]
  BY <1>5, <1>10
<1>16. Stores(n, msg, s, d, e)
  BY <1>2, <1>10, <1>13, <1>14, <1>15 DEF Stores
<1> QED BY <1>16

\* No chunk loses a row by it.
LEMMA StoreOwns ==
  ASSUME AlignInv, DataInv, SendInv, NEW n \in Node, FlightAt(n), StoreValues(n),
         \A m \in Node, j \in ChunkId : OwnAt(m, j)
  PROVE  \A m \in Node, j \in ChunkId : OwnAt(m, j)'
<1>1. PICK msg, s, d, e : Stores(n, msg, s, d, e)
  BY StoreIs
<1>2. conf \in Confs /\ s \in 1..Scatters
  BY <1>1, AlignFacts, Now DEF NowAt, Stores
<1>3. IsGhost(StoreOf(s))
  BY <1>2, SendFits DEF SendAt
<1>4. UNCHANGED <<conf, chunk, place>>
  BY DEF StoreValues, queues
<1>5. ASSUME NEW m \in Node, NEW j \in ChunkId
      PROVE  OwnAt(m, j)'
  <2>1. Pos(m, j)' = Pos(m, j) /\ Stamp(m, j)' = Stamp(m, j)
    BY <1>4, ChunkStays
  <2>2. \A t : Saves(t) => data'[m][t] = data[m][t]
    BY <1>1, <1>3 DEF Saves, Stores
  <2> QED BY <1>4, <2>1, <2>2, OwnKept
<1> QED BY <1>5

-----------------------------------------------------------------------------
(* What is on its way.                                                     *)

LEMMA MsgKept ==
  ASSUME conf' = conf, NEW n \in Node, SameFor(n), NEW msg, MsgOK(n, msg)
  PROVE  MsgOK(n, msg)'
<1>1. ExpectedPhase(n)' = ExpectedPhase(n) /\ ExpectedEpoch(n)' = ExpectedEpoch(n)
  BY RoundKept
<1>2. ExpectedDir(n)' = ExpectedDir(n)
  BY DEF SameFor
<1>3. \A s : StoreOf(s)' = StoreOf(s)
  BY ConfSame DEF StoreOf, ChunkOf, Stored, StoredGCN, StoredGAT
<1>4. PICK s : s = ExpectedPhase(n)
  OBVIOUS
<1>5. StoreOf(ExpectedPhase(n))' = StoreOf(s)'
  BY <1>1, <1>4 DEF StoreOf, ChunkOf
<1> QED BY <1>1, <1>2, <1>3, <1>4, <1>5 DEF MsgOK

\* No message comes but those that are on their way, and these are of the round.
LEMMA FlightKept ==
  ASSUME conf' = conf, NEW n \in Node, SameFor(n), FlightAt(n),
         \A msg : Flying(n, msg)' => Flying(n, msg)
  PROVE  FlightAt(n)'
BY MsgKept DEF FlightAt

LEMMA FlyingSame ==
  ASSUME conf' = conf, NEW n \in Node, hand'[n] = hand[n], \A m \in Node : net'[m][n] = net[m][n]
  PROVE  \A msg : Flying(n, msg)' => Flying(n, msg)
BY ConfSame DEF Flying, Places

\* What the receivers take from the net.
LEMMA FlyingTaken ==
  ASSUME AckInv, conf' = conf, NEW n \in Node, NEW m \in Node, net[m][n] # <<>>,
         net'[m][n] = Tail(net[m][n]), \A k \in Node \ {m} : net'[k][n] = net[k][n],
         \/ hand'[n] = hand[n]
         \/ hand'[n] = hand[n] \cup {Head(net[m][n])} /\ Head(net[m][n]).kind = "data"
  PROVE  \A msg : Flying(n, msg)' => Flying(n, msg)
<1>1. Node' = Node /\ IsQueue(net[m][n])
  BY ConfSame, AckFacts DEF Wired
<1>2. ASSUME NEW k \in Places(Tail(net[m][n]), "data")
      PROVE  k + 1 \in Places(net[m][n], "data") /\ Tail(net[m][n])[k] = net[m][n][k + 1]
  BY <1>1, <1>2 DEF Places, IsQueue
<1>3. Head(net[m][n]).kind = "data" => 1 \in Places(net[m][n], "data") /\ net[m][n][1] = Head(net[m][n])
  BY <1>1 DEF Places, IsQueue
<1>4. ASSUME NEW msg, Flying(n, msg)'
      PROVE  Flying(n, msg)
  <2>1. CASE msg \in hand'[n]
    <3>1. CASE msg \in hand[n]
      BY <3>1 DEF Flying
    <3>2. CASE msg \notin hand[n]
      BY <1>3, <2>1, <3>2 DEF Flying
    <3> QED BY <3>1, <3>2
  <2>2. ASSUME NEW k \in Node, NEW l \in Places(net'[k][n], "data"), net'[k][n][l] = msg
        PROVE  Flying(n, msg)
    <3>1. CASE k = m
      <4>1. l + 1 \in Places(net[m][n], "data") /\ net[m][n][l + 1] = msg
        BY <1>2, <2>2, <3>1
      <4> QED BY <4>1 DEF Flying
    <3>2. CASE k # m
      BY <2>2, <3>2 DEF Flying
    <3> QED BY <3>1, <3>2
  <2>3. \/ msg \in hand'[n]
        \/ \E k \in Node : \E l \in Places(net'[k][n], "data") : net'[k][n][l] = msg
    BY <1>1, <1>4 DEF Flying, Places
  <2> QED BY <2>1, <2>2, <2>3
<1> QED BY <1>4

\* A queue with one more message.
LEMMA FlyingSent ==
  ASSUME AckInv, conf' = conf, NEW n \in Node, NEW m \in Node, NEW x,
         net'[m][n] = Append(net[m][n], x), \A k \in Node \ {m} : net'[k][n] = net[k][n],
         hand'[n] = hand[n]
  PROVE  \A msg : Flying(n, msg)' => Flying(n, msg) \/ (x.kind = "data" /\ msg = x)
<1>1. Node' = Node /\ IsQueue(net[m][n])
  BY ConfSame, AckFacts DEF Wired
<1>2. ASSUME NEW k \in Places(Append(net[m][n], x), "data")
      PROVE  \/ k \in Places(net[m][n], "data") /\ Append(net[m][n], x)[k] = net[m][n][k]
             \/ Append(net[m][n], x)[k] = x /\ x.kind = "data"
  BY <1>1, <1>2 DEF Places, IsQueue
<1>3. ASSUME NEW msg, Flying(n, msg)'
      PROVE  Flying(n, msg) \/ (x.kind = "data" /\ msg = x)
  <2>1. CASE msg \in hand'[n]
    BY <2>1 DEF Flying
  <2>2. ASSUME NEW k \in Node, NEW l \in Places(net'[k][n], "data"), net'[k][n][l] = msg
        PROVE  Flying(n, msg) \/ (x.kind = "data" /\ msg = x)
    <3>1. CASE k = m
      BY <1>2, <2>2, <3>1 DEF Flying
    <3>2. CASE k # m
      BY <2>2, <3>2 DEF Flying
    <3> QED BY <3>1, <3>2
  <2>3. \/ msg \in hand'[n]
        \/ \E k \in Node : \E l \in Places(net'[k][n], "data") : net'[k][n][l] = msg
    BY <1>1, <1>3 DEF Flying, Places
  <2> QED BY <2>1, <2>2, <2>3
<1> QED BY <1>3

\* When values of the next epoch come, all chunks have ended this one: the sender has
\* left the barrier of the scheduler, and so the receiver has entered it.
LEMMA Wrapped ==
  ASSUME AlignInv, Together, NEW n \in Node, GapNow(n) = Scatters,
         NEW m \in Node, NEW j \in ChunkId, Begun(m, j) = Expected(n)
  PROVE  AllNext(n)
<1>1. /\ Passed(n) \in Nat /\ Passed(m) \in Nat /\ Scatters \in Nat /\ Scatters > 0
      /\ currEpoch[n] \in Nat /\ currEpoch[m] \in Nat /\ Gap(n) \in 0..Scatters /\ Gap(m) \in 0..Scatters
      /\ Passed(n) = RoundsOf(Scatters, currEpoch[n], Gap(n))
      /\ Passed(m) = RoundsOf(Scatters, currEpoch[m], Gap(m))
      /\ Bar(n) = BarsUpTo(Bars(1), currEpoch[n], Passed(n))
      /\ Bar(m) = BarsUpTo(Bars(1), currEpoch[m], Passed(m))
  BY PassedIs
<1>2. PICK S \in Nat, e \in Nat, f \in Nat, g \in 0..Scatters, h \in 0..Scatters :
        S = Scatters /\ e = currEpoch[n] /\ f = currEpoch[m] /\ g = Gap(n) /\ h = Gap(m)
  BY <1>1
<1>3. PICK x \in Int : x = (e - 1) * S
  OBVIOUS
<1>4. Passed(n) = x + g
  BY <1>1, <1>2, <1>3 DEF RoundsOf
<1>5. /\ Passed(m) <= Passed(n) + 1 /\ (Closing(n) \/ Passed(m) <= Passed(n))
  BY InTurn
<1>6. Begun(m, j) = Passed(m) \/ (Begun(m, j) = Passed(m) + 1 /\ place[m][j] \in Scattered)
  BY DEF Begun
<1>7. /\ Closing(n) => g = S - 1 /\ Expected(n) = Passed(n) + 2
      /\ ~Closing(n) => g = S /\ Expected(n) = Passed(n) + 1
  BY <1>1, <1>2 DEF GapNow, Expected
<1>8. Begun(m, j) = Passed(m) + 1 /\ place[m][j] \in Scattered /\ Passed(m) = x + S
  <2>1. CASE Closing(n)
    BY <1>1, <1>2, <1>4, <1>5, <1>6, <1>7, <2>1
  <2>2. CASE ~Closing(n)
    BY <1>1, <1>2, <1>4, <1>5, <1>6, <1>7, <2>2
  <2> QED BY <2>1, <2>2
<1>9. h < S
  <2>1. ChunkAt(m, j, Gap(m))
    BY GapAt
  <2> QED BY <1>2, <1>8, <2>1 DEF ChunkAt, Scattered
<1>10. f = e + 1
  <2>1. S \in 0..S /\ h \in 0..S /\ S > 0
    BY <1>1, <1>2
  <2>2. RoundsOf(S, f, h) = RoundsOf(S, e, S)
    BY <1>1, <1>2, <1>3, <1>8 DEF RoundsOf
  <2>3. (h = S /\ f = e) \/ (h = S /\ S = 0 /\ e = f + 1) \/ (h = 0 /\ S = S /\ f = e + 1)
    BY <2>1, <2>2, RoundsUnique
  <2> QED BY <1>9, <2>1, <2>3
<1>11. stage[m] = "running"
  BY <1>2, <1>9, GapAt
<1>12. PICK b \in {1, 2} : b = Bars(1)
  BY EnteredFacts
<1>13. PICK P \in Int : P = b * (x + S)
  BY <1>12
<1>14. Bar(m) = e + 2 + P
  <2>1. Bar(m) = 1 + f + b * (x + S)
    BY <1>1, <1>2, <1>8, <1>12 DEF BarsUpTo
  <2> QED BY <1>10, <1>13, <2>1
<1>15. entered[n] >= e + 2 + P
  <2>1. entered[m] - Inside(m) >= Bar(m) /\ Bar(m) \in Int /\ entered[m] \in Int /\ Inside(m) \in {0, 1}
    BY <1>11, EnteredFacts DEF Started
  <2>2. entered[n] >= entered[m] - Inside(m) /\ entered[n] \in Int
    BY TogetherFacts, EnteredFacts
  <2> QED BY <1>14, <2>1, <2>2
<1>16. CASE Closing(n)
  <2>1. Bar(n) = 1 + e + P - b
    <3>1. Bar(n) = 1 + e + b * (x + (S - 1))
      BY <1>1, <1>2, <1>4, <1>7, <1>12, <1>16 DEF BarsUpTo
    <3>2. b * (x + (S - 1)) = b * (x + S) - b
      BY <1>12
    <3>3. b * (x + (S - 1)) = P - b
      BY <1>13, <3>2
    <3> QED BY <3>1, <3>3
  <2>2. entered[n] <= Bar(n) + b /\ entered[n] \in Int
    BY <1>12, EnteredFacts
  <2> QED BY <1>12, <1>15, <2>1, <2>2
<1>17. CASE ~Closing(n)
  <2>1. CASE stage[n] # "running"
    BY <2>1, GapAt DEF Resting
  <2>2. CASE stage[n] = "running"
    <3>1. Running(n, Gap(n)) /\ conf \in Confs
      BY <2>2, GapAt
    <3>2. Bar(n) = 1 + e + P
      BY <1>1, <1>2, <1>4, <1>7, <1>12, <1>13, <1>17 DEF BarsUpTo
    <3>3. entered[n] = Bar(n) + Extra(n) /\ Extra(n) \in Int
      BY <2>2, <3>1, ExtraBounds DEF Running, Bar
    <3>4. Extra(n) # 0
      BY <1>15, <3>2, <3>3
    <3>5. Blocking(n) /\ \A i \in ChunkId : ChunkAt(n, i, Gap(n))
      BY <3>1 DEF Running
    <3>6. ~(where[n] = "scatter" \/ scatter[n] = "reset")
      BY <1>17, <3>5 DEF Blocking, Closing
    <3>7. ~(where[n] = "begin" \/ ~scBlock[n])
      <4>1. PICK i \in ChunkId : TRUE
        BY <3>1, ConfFacts
      <4>2. ~(Gap(n) < Scatters)
        BY <1>2, <1>7, <1>17
      <4>3. place[n][i] \notin Scattered \cup {"SC"}
        BY <3>5, <4>1, <4>2 DEF ChunkAt, Scattered
      <4> QED BY <3>5, <4>1, <4>3 DEF Blocking, Scattered
    <3>8. where[n] = "epoch" \/ ~schBlock[n]
      BY <3>4, <3>6, <3>7 DEF Extra
    <3> QED BY <3>5, <3>8 DEF Blocking
  <2> QED BY <2>1, <2>2
<1> QED BY <1>16, <1>17

-----------------------------------------------------------------------------
(* What has arrived, and what is kept.                                     *)

\* No ghost of a server changes.
GhostsStill(n) == \A t \in Tensors(conf.gnn, conf.numLayers) : IsGhost(t) => data'[n][t] = data[n][t]

LEMMA GhostStill ==
  ASSUME conf' = conf, conf \in Confs, NEW n \in Node, GhostsStill(n), NEW s \in 1..Scatters, NEW v
  PROVE  Ghost(n, s, v)' = Ghost(n, s, v)
<1>1. StoreOf(s) \in Tensors(conf.gnn, conf.numLayers) /\ IsGhost(StoreOf(s))
  BY SendFits DEF SendAt
<1>2. StoreOf(s)' = StoreOf(s) /\ DirOf(s)' = DirOf(s)
  BY ConfSame DEF StoreOf, ChunkOf, Stored, StoredGCN, StoredGAT
<1> QED BY <1>1, <1>2 DEF Ghost, GhostsStill

LEMMA ArrivedKept ==
  ASSUME AlignInv, conf' = conf, NEW n \in Node, Settled(n), GhostsStill(n), ArrivedAt(n)
  PROVE  ArrivedAt(n)'
<1>1. /\ ExpectedPhase(n)' = ExpectedPhase(n) /\ ExpectedEpoch(n)' = ExpectedEpoch(n)
      /\ Wants(n)' = Wants(n) /\ Owed(n)' = Owed(n)
  BY RoundKept, WantsSame DEF Settled
<1>2. PICK s, e : s = ExpectedPhase(n) /\ e = ExpectedEpoch(n)
  OBVIOUS
<1>3. conf \in Confs /\ s \in 1..Scatters
  BY <1>2, AlignFacts, Now DEF NowAt
<1>4. \A v \in Wants(n) : v \notin Owed(n) => Ghost(n, s, v) = <<v, e>>
  BY <1>2 DEF ArrivedAt
<1>5. \A v \in Wants(n) : v \notin Owed(n) => Ghost(n, s, v)' = <<v, e>>
  BY <1>3, <1>4, GhostStill
<1>6. ASSUME NEW v \in Wants(n)', v \notin Owed(n)'
      PROVE  Ghost(n, ExpectedPhase(n), v)' = <<v, ExpectedEpoch(n)>>'
  <2>1. Ghost(n, s, v)' = <<v, e>>
    BY <1>1, <1>5, <1>6
  <2> QED BY <1>1, <1>2, <2>1 DEF Ghost
<1> QED BY <1>6 DEF ArrivedAt

\* A server whose round a step leaves is as far in its epoch as it was.
LEMMA GapNowSame ==
  ASSUME AlignInv, AlignInv', conf' = conf, NEW n \in Node, RoundSame(n), currEpoch'[n] = currEpoch[n]
  PROVE  GapNow(n)' = GapNow(n)
<1>1. Node' = Node /\ Scatters' = Scatters
  BY ConfSame
<1>2. GapOK(n) /\ GapOK(n)' /\ Scatters \in Nat
  BY <1>1, Gaps, GapsNext, PassedIs DEF GapsOK
<1>3. PICK x \in Int : x = (currEpoch[n] - 1) * Scatters
  BY <1>2 DEF GapOK
<1>4. Passed(n) = x + Gap(n) /\ Passed(n)' = x + Gap(n)'
  BY <1>1, <1>3 DEF Passed
<1>5. PICK g \in Int, h \in Int : g = Gap(n) /\ h = Gap(n)'
  BY <1>1, <1>2 DEF GapOK
<1>6. Gap(n)' = Gap(n)
  <2>1. Passed(n)' = Passed(n)
    BY DEF RoundSame
  <2>2. x + g = x + h
    BY <1>4, <1>5, <2>1
  <2>3. g = h
    <3>1. \A a \in Int, b \in Int, c \in Int : a + b = a + c => b = c
      OBVIOUS
    <3> HIDE <1>3, <1>5
    <3> QED BY <2>2, <3>1
  <2> QED BY <1>5, <2>3
<1> QED BY <1>6 DEF GapNow, RoundSame

LEMMA KeptKept ==
  ASSUME AlignInv, conf' = conf, NEW n \in Node, KeptAt(n), GapNow(n)' = GapNow(n),
         currEpoch'[n] = currEpoch[n], AllNext(n) => AllNext(n)', GhostsStill(n)
  PROVE  KeptAt(n)'
<1>1. PICK g : g = GapNow(n)
  OBVIOUS
<1>2. conf \in Confs /\ 1..g \subseteq 1..Scatters
  BY <1>1, AlignFacts, Now DEF NowAt
<1>3. \A s : DirOf(s)' = DirOf(s)
  BY ConfSame
<1>4. ASSUME ~AllNext(n)', NEW s \in 1..g, NEW v \in Ghosts(conf.graph, n, DirOf(s))
      PROVE  Ghost(n, s, v)' = <<v, currEpoch[n]>>
  <2>1. Ghost(n, s, v) = <<v, currEpoch[n]>>
    BY <1>1, <1>4 DEF KeptAt
  <2> QED BY <1>2, <2>1, GhostStill
<1> QED BY <1>1, <1>3, <1>4 DEF KeptAt

LEMMA AllNextStays ==
  ASSUME conf' = conf, NEW n \in Node, AllNext(n), currEpoch'[n] = currEpoch[n],
         place'[n] = place[n], chunk'[n] = chunk[n]
  PROVE  AllNext(n)'
BY ConfSame DEF AllNext

\* A server that a step leaves as far in its epoch as it was.
Idle(n) ==
  /\ GhostsStill(n) /\ currEpoch'[n] = currEpoch[n] /\ GapNow(n)' = GapNow(n)
  /\ AllNext(n) => AllNext(n)'

LEMMA IdleKeeps ==
  ASSUME AlignInv, conf' = conf, NEW n \in Node, Settled(n), Idle(n), ArrivedAt(n), KeptAt(n)
  PROVE  ArrivedAt(n)' /\ KeptAt(n)'
BY ArrivedKept, KeptKept DEF Idle

\* A step that leaves the chunks.
LEMMA IdleStill ==
  ASSUME AlignInv, AlignInv', conf' = conf, \A m \in Node : RoundSame(m),
         UNCHANGED <<chunk, place, currEpoch, data>>
  PROVE  \A m \in Node : Idle(m)
<1>1. ASSUME NEW m \in Node PROVE Idle(m)
  <2>1. GapNow(m)' = GapNow(m)
    BY <1>1, GapNowSame
  <2>2. AllNext(m) => AllNext(m)'
    BY <1>1, AllNextStays
  <2> QED BY <2>1, <2>2 DEF Idle, GhostsStill
<1> QED BY <1>1

\* A step that moves chunks of a server that has not ended its epoch.
LEMMA IdleMoved ==
  ASSUME AlignInv, AlignInv', conf' = conf, UNCHANGED currEpoch,
         \A m \in Node : GapNow(m)' = GapNow(m) /\ GhostsStill(m),
         NEW n \in Node, ~AllNext(n), \A m \in Node \ {n} : place'[m] = place[m] /\ chunk'[m] = chunk[m]
  PROVE  \A m \in Node : Idle(m)
<1>1. ASSUME NEW m \in Node PROVE AllNext(m) => AllNext(m)'
  <2>1. CASE m = n
    BY <2>1
  <2>2. CASE m # n
    BY <1>1, <2>2, AllNextStays
  <2> QED BY <2>1, <2>2
<1> QED BY <1>1 DEF Idle

\* A step without values.
LEMMA SilentGhosts ==
  ASSUME AlignInv, Silent, \A m \in Node : Idle(m), \A m \in Node : GhostsFresh(m)
  PROVE  \A m \in Node : GhostsFresh(m)'
<1>1. conf' = conf /\ UNCHANGED <<net, hand>> /\ \A m \in Node : Settled(m)
  BY SilentSettled DEF Silent
<1>2. ASSUME NEW m \in Node PROVE GhostsFresh(m)'
  <2>1. \A msg : Flying(m, msg)' => Flying(m, msg)
    BY <1>1, <1>2, FlyingSame
  <2>2. FlightAt(m)'
    BY <1>1, <1>2, <2>1, FlightKept DEF Settled, GhostsFresh
  <2> QED BY <1>1, <1>2, <2>2, IdleKeeps DEF GhostsFresh
<1> QED BY <1>2

LEMMA SilentGapNow ==
  ASSUME AlignInv, AlignInv', Silent, UNCHANGED currEpoch
  PROVE  \A m \in Node : GapNow(m)' = GapNow(m)
BY GapNowSame DEF Silent

LEMMA StillGhosts ==
  ASSUME AlignInv, AlignInv', SendInv, Silent, UNCHANGED <<chunk, place, currEpoch, data>>,
         \A m \in Node : GhostsFresh(m)
  PROVE  \A m \in Node : GhostsFresh(m)'
<1>1. conf' = conf /\ \A m \in Node : RoundSame(m)
  BY DEF Silent
<1> QED BY <1>1, IdleStill, SilentGhosts

LEMMA CallsGhosts ==
  ASSUME SendInv, AlignInv, AlignInv', NEW n \in Node,
         Main(n) \/ SchedHalt(n) \/ SchedBarrier(n) \/ SchedUnblock(n)
           \/ BeginBarrier(n) \/ BeginScatter(n) \/ ScatterLeave(n) \/ Check(n),
         \A m \in Node : GhostsFresh(m)
  PROVE  \A m \in Node : GhostsFresh(m)'
<1>1. UNCHANGED <<chunk, place, currEpoch, data>>
  <2>1. CASE Main(n)
    BY <2>1 DEF Main, StartBarrier, LoadChunks, EndBarrier, Done, queues, scheduler
  <2>2. CASE SchedHalt(n) \/ SchedBarrier(n) \/ SchedUnblock(n)
    BY <2>2 DEF SchedHalt, SchedBarrier, SchedUnblock, queues, scheduler
  <2>3. CASE BeginBarrier(n) \/ BeginScatter(n) \/ ScatterLeave(n) \/ Check(n)
    BY <2>3 DEF BeginBarrier, BeginScatter, ScatterLeave, Check, queues, scheduler
  <2> QED BY <2>1, <2>2, <2>3
<1>2. Silent
  BY SilentCalls
<1> QED BY <1>1, <1>2, StillGhosts

\* A phase of a chunk writes no ghosts.
LEMMA WorkStill ==
  ASSUME AlignInv, DataInv, NEW n \in Node, NEW i \in ChunkId, Work(n, i)
  PROVE  \A m \in Node : GhostsStill(m)
<1>1. PICK c, ph, p, q : FitsIn(n, i, c, ph, p, q)
  BY WorkFits
<1>2. Write(n, i, c, ph) /\ \A t \in ph.writes : ~IsGhost(t)
  BY <1>1 DEF FitsIn, Fits
<1>3. DOMAIN data = Node /\ \A m \in Node : DOMAIN data[m] = Tensors(conf.gnn, conf.numLayers)
  BY DEF DataInv, DataOK
<1>4. \A m \in Node \ {n} : data'[m] = data[m]
  BY <1>2, <1>3 DEF Write
<1>5. \A t \in Tensors(conf.gnn, conf.numLayers) : t \notin ph.writes => data'[n][t] = data[n][t]
  BY <1>2, <1>3 DEF Write
<1> QED BY <1>2, <1>4, <1>5 DEF GhostsStill

LEMMA WorkGhosts ==
  ASSUME SendInv, AlignInv, AlignInv', DataInv, NEW n \in Node, NEW i \in ChunkId, Work(n, i),
         \A m \in Node : GhostsFresh(m)
  PROVE  \A m \in Node : GhostsFresh(m)'
<1>1. Silent /\ conf' = conf
  BY SilentWork DEF Silent
<1>2. /\ place[n][i] \in {"GA", "AV", "AE"} /\ UNCHANGED currEpoch
      /\ \E q, c : Send(n, i, q, c)
  <2>1. CASE Gather(n, i)
    BY <2>1 DEF Gather, InQueue, scheduler
  <2>2. CASE ApplyVertex(n, i)
    BY <2>2 DEF ApplyVertex, InQueue, scheduler
  <2>3. CASE ApplyEdge(n, i)
    BY <2>3 DEF ApplyEdge, InQueue, scheduler
  <2> QED BY <2>1, <2>2, <2>3 DEF Work
<1>3. ~AllNext(n)
  BY <1>2 DEF AllNext
<1>4. \A m \in Node \ {n} : place'[m] = place[m] /\ chunk'[m] = chunk[m]
  BY <1>2, AlignFacts DEF Send
<1>5. \A m \in Node : GapNow(m)' = GapNow(m) /\ GhostsStill(m)
  BY <1>1, <1>2, SilentGapNow, WorkStill
<1>6. \A m \in Node : Idle(m)
  BY <1>1, <1>2, <1>3, <1>4, <1>5, IdleMoved
<1> QED BY <1>1, <1>6, SilentGhosts

\* Steps that take a chunk from queue to queue.
LEMMA PassGhosts ==
  ASSUME SendInv, AlignInv, AlignInv', NEW n \in Node, NEW i \in ChunkId,
         SchedPass(n, i) \/ Count(n, i) \/ ScatterStash(n, i), \A m \in Node : GhostsFresh(m)
  PROVE  \A m \in Node : GhostsFresh(m)'
<1>1. Silent /\ conf' = conf
  BY SilentPass DEF Silent
<1>2. /\ UNCHANGED <<currEpoch, data>> /\ (place[n][i] # "sch" \/ chunk[n][i].epoch <= currEpoch[n])
      /\ \E q, c : Send(n, i, q, c)
  <2>1. CASE SchedPass(n, i)
    BY <2>1 DEF SchedPass, scheduler
  <2>2. CASE Count(n, i)
    BY <2>2 DEF Count, InQueue, scheduler
  <2>3. CASE ScatterStash(n, i)
    BY <2>3 DEF ScatterStash, InQueue, scheduler
  <2> QED BY <2>1, <2>2, <2>3
<1>3. ~AllNext(n)
  <2>1. currEpoch[n] \in Nat
    BY AlignFacts
  <2> QED BY <1>2, <2>1 DEF AllNext
<1>4. \A m \in Node \ {n} : place'[m] = place[m] /\ chunk'[m] = chunk[m]
  BY <1>2, AlignFacts DEF Send
<1>5. \A m \in Node : GapNow(m)' = GapNow(m) /\ GhostsStill(m)
  BY <1>1, <1>2, SilentGapNow DEF GhostsStill
<1>6. \A m \in Node : Idle(m)
  BY <1>1, <1>2, <1>3, <1>4, <1>5, IdleMoved
<1> QED BY <1>1, <1>6, SilentGhosts

\* A step of which no server gets a new message.
LEMMA IdleGhosts ==
  ASSUME AlignInv, conf' = conf, \A m \in Node : Settled(m) /\ Idle(m),
         \A m \in Node : \A msg : Flying(m, msg)' => Flying(m, msg), \A m \in Node : GhostsFresh(m)
  PROVE  \A m \in Node : GhostsFresh(m)'
<1>1. ASSUME NEW m \in Node PROVE GhostsFresh(m)'
  <2>1. FlightAt(m)'
    BY <1>1, FlightKept DEF Settled, GhostsFresh
  <2> QED BY <1>1, <2>1, IdleKeeps DEF GhostsFresh
<1> QED BY <1>1

\* A chunk is scattered: nothing is sent yet.
LEMMA PopGhosts ==
  ASSUME SendInv, Together, AlignInv, AlignInv', AckInv, NEW n \in Node, NEW i \in ChunkId,
         ScatterPop(n, i), \A m \in Node : GhostsFresh(m)
  PROVE  \A m \in Node : GhostsFresh(m)'
<1>1. /\ conf' = conf /\ UNCHANGED <<net, hand>>
      /\ \A m \in Node : (Closing(m)' <=> Closing(m)) /\ Gap(m)' = Gap(m)
  BY PopFacts
<1>2. \A m \in Node : Settled(m)
  BY PopSettled
<1>3. UNCHANGED <<currEpoch, data>> /\ place[n][i] # "sch" /\ Send(n, i, "send", chunk[n][i])
  BY DEF ScatterPop, InQueue, scheduler
<1>4. ~AllNext(n)
  BY <1>3 DEF AllNext
<1>5. \A m \in Node \ {n} : place'[m] = place[m] /\ chunk'[m] = chunk[m]
  BY <1>3, AlignFacts DEF Send
<1>6. \A m \in Node : GapNow(m)' = GapNow(m) /\ GhostsStill(m)
  BY <1>1, <1>3 DEF GapNow, GhostsStill
<1>7. \A m \in Node : Idle(m)
  BY <1>1, <1>3, <1>4, <1>5, <1>6, IdleMoved
<1>8. \A m \in Node : \A msg : Flying(m, msg)' => Flying(m, msg)
  BY <1>1, FlyingSame
<1> QED BY <1>1, <1>2, <1>7, <1>8, IdleGhosts

\* The receivers take messages from the net, and keep what is on its way.
LEMMA RecvGhosts ==
  ASSUME SendInv, AckInv, AlignInv, AlignInv', DataInv, NEW n \in Node, NEW m \in Node \ {n},
         RecvValues(n, m) \/ RecvAck(n, m), \A k \in Node : GhostsFresh(k)
  PROVE  \A k \in Node : GhostsFresh(k)'
<1>1. UNCHANGED <<conf, chunk, place, currEpoch, scatter, todo, data>> /\ net[m][n] # <<>>
  BY DEF RecvValues, RecvAck, queues, scheduler, scatterer
<1>2. \A k \in Node : RoundSame(k)
  BY <1>1, ReceiverRounds
<1>3. \A k \in Node : Idle(k)
  BY <1>1, <1>2, IdleStill
<1>4. \A k \in Node : Settled(k)
  BY RecvValuesSettled, RecvAckSettled
<1>5. /\ DOMAIN net = Node /\ \A k \in Node : DOMAIN net[k] = Node
      /\ DOMAIN hand = Node
  BY DEF AckInv, AckTypes, Wired, DataInv, HandOK
<1>6. CASE RecvValues(n, m)
  <2>1. /\ hand' = [hand EXCEPT ![n] = @ \cup {Head(net[m][n])}] /\ Head(net[m][n]).kind = "data"
        /\ net' = [net EXCEPT ![m][n] = Tail(@), ![n][m] = Append(@, [kind |-> "ack"])]
    BY <1>6 DEF RecvValues
  <2>2. /\ net'[m][n] = Tail(net[m][n]) /\ \A k \in Node \ {m} : net'[k][n] = net[k][n]
        /\ hand'[n] = hand[n] \cup {Head(net[m][n])}
    BY <1>5, <2>1
  <2>3. \A msg : Flying(n, msg)' => Flying(n, msg)
    BY <1>1, <2>1, <2>2, FlyingTaken
  <2>4. PICK x : x = [kind |-> "ack"]
    OBVIOUS
  <2>5. /\ net'[n][m] = Append(net[n][m], x) /\ \A k \in Node \ {n} : net'[k][m] = net[k][m]
        /\ hand'[m] = hand[m]
    BY <1>5, <2>1, <2>4
  <2>6. x.kind # "data"
    BY <2>4
  <2>7. \A msg : Flying(m, msg)' => Flying(m, msg)
    BY <1>1, <2>5, <2>6, FlyingSent
  <2>8. ASSUME NEW k \in Node, k # n, k # m
        PROVE  \A msg : Flying(k, msg)' => Flying(k, msg)
    <3>1. hand'[k] = hand[k] /\ \A p \in Node : net'[p][k] = net[p][k]
      BY <1>5, <2>1, <2>8
    <3> QED BY <1>1, <3>1, FlyingSame
  <2>9. \A k \in Node : \A msg : Flying(k, msg)' => Flying(k, msg)
    BY <2>3, <2>7, <2>8
  <2> QED BY <1>1, <1>3, <1>4, <2>9, IdleGhosts
<1>7. CASE RecvAck(n, m)
  <2>1. hand' = hand /\ net' = [net EXCEPT ![m][n] = Tail(@)]
    BY <1>7 DEF RecvAck
  <2>2. /\ net'[m][n] = Tail(net[m][n]) /\ \A k \in Node \ {m} : net'[k][n] = net[k][n]
        /\ hand'[n] = hand[n]
    BY <1>5, <2>1
  <2>3. \A msg : Flying(n, msg)' => Flying(n, msg)
    BY <1>1, <2>2, FlyingTaken
  <2>4. ASSUME NEW k \in Node, k # n
        PROVE  \A msg : Flying(k, msg)' => Flying(k, msg)
    <3>1. hand'[k] = hand[k] /\ \A p \in Node : net'[p][k] = net[p][k]
      BY <1>5, <2>1, <2>4
    <3> QED BY <1>1, <3>1, FlyingSame
  <2>5. \A k \in Node : \A msg : Flying(k, msg)' => Flying(k, msg)
    BY <2>3, <2>4
  <2> QED BY <1>1, <1>3, <1>4, <2>5, IdleGhosts
<1> QED BY <1>6, <1>7

\* The counters are set back after the barrier.
LEMMA ResetGhosts ==
  ASSUME AlignInv, AlignInv', NEW n \in Node, ScatterReset(n), \A m \in Node : GhostsFresh(m)
  PROVE  \A m \in Node : GhostsFresh(m)'
<1>1. UNCHANGED <<conf, chunk, currEpoch, net, hand, data>>
  BY DEF ScatterReset, receivers, scheduler
<1>2. \A m \in Node : Settled(m)
  BY ResetSettled
<1>3. /\ Gap(n)' = Gap(n) + 1 /\ Closing(n) /\ ~Closing(n)'
      /\ \A j \in ChunkId : place[n][j] = "stash"
      /\ \A m \in Node \ {n} : place'[m] = place[m]
  BY ResetGap
<1>4. ASSUME NEW m \in Node PROVE GapNow(m)' = GapNow(m)
  <2>1. CASE m = n
    BY <1>3, <2>1 DEF GapNow
  <2>2. CASE m # n
    <3>1. RoundSame(m)
      BY <2>2, ResetRounds
    <3> QED BY <1>1, <3>1, GapNowSame
  <2> QED BY <2>1, <2>2
<1>5. ~AllNext(n)
  BY <1>3, AlignFacts, ConfFacts DEF AllNext
<1>6. \A m \in Node : Idle(m)
  BY <1>1, <1>3, <1>4, <1>5, IdleMoved DEF GhostsStill
<1>7. \A m \in Node : \A msg : Flying(m, msg)' => Flying(m, msg)
  BY <1>1, FlyingSame
<1> QED BY <1>1, <1>2, <1>6, <1>7, IdleGhosts

\* The first chunk begins an epoch, and with it its server.
LEMMA StartGhosts ==
  ASSUME SendInv, AlignInv, AlignInv', NEW n \in Node, NEW i \in ChunkId, SchedStart(n, i),
         \A m \in Node : GhostsFresh(m)
  PROVE  \A m \in Node : GhostsFresh(m)'
<1>1. Silent
  BY SilentStart
<1>2. conf' = conf /\ UNCHANGED <<net, hand>> /\ \A m \in Node : RoundSame(m) /\ Settled(m)
  BY <1>1, SilentSettled DEF Silent
<1>3. data' = data /\ Send(n, i, FirstQueue, chunk[n][i]) /\ currEpoch' = [currEpoch EXCEPT ![n] = @ + 1]
  BY DEF SchedStart
<1>4. \A m \in Node \ {n} : place'[m] = place[m] /\ chunk'[m] = chunk[m] /\ currEpoch'[m] = currEpoch[m]
  BY <1>3, AlignFacts DEF Send
<1>5. GapNow(n)' = 0
  <2>1. Gap(n)' = 0 /\ ~Closing(n)
    BY StartGap
  <2> QED BY <1>2, <2>1 DEF RoundSame, GapNow
<1>6. ASSUME NEW m \in Node PROVE GhostsFresh(m)'
  <2>1. \A msg : Flying(m, msg)' => Flying(m, msg)
    BY <1>2, <1>6, FlyingSame
  <2>2. FlightAt(m)'
    BY <1>2, <1>6, <2>1, FlightKept DEF Settled, GhostsFresh
  <2>3. ArrivedAt(m)'
    BY <1>2, <1>3, <1>6, ArrivedKept DEF GhostsStill, GhostsFresh
  <2>4. KeptAt(m)'
    <3>1. CASE m = n
      BY <1>5, <3>1 DEF KeptAt
    <3>2. CASE m # n
      <4>1. GapNow(m)' = GapNow(m) /\ (AllNext(m) => AllNext(m)')
        BY <1>2, <1>4, <3>2, GapNowSame, AllNextStays
      <4> QED BY <1>2, <1>3, <1>4, <1>6, <3>2, <4>1, KeptKept DEF GhostsStill, GhostsFresh
    <3> QED BY <3>1, <3>2
  <2> QED BY <2>2, <2>3, <2>4 DEF GhostsFresh
<1> QED BY <1>6

\* A server that expects a round that nobody has begun is owed all of it.
UnbegunOwed ==
  \A n \in Node : (\A m \in Node, j \in ChunkId : Begun(m, j) < Expected(n)) => Owed(n) = Wants(n)

\* While no chunk has begun to send for a round, all its values are owed.
LEMMA Unbegun == AlignInv => UnbegunOwed
<1> SUFFICES ASSUME AlignInv, NEW n \in Node,
                    \A m \in Node, j \in ChunkId : Begun(m, j) < Expected(n)
             PROVE  Owed(n) = Wants(n)
  BY DEF UnbegunOwed
<1>1. ASSUME NEW v \in Wants(n) PROVE v \in Owed(n)
  <2>1. PICK m \in Node \ {n} : v \in Wanted(n, m)
    BY <1>1, WantedFacts, AlignFacts
  <2>2. PICK j \in ChunkId : Holds(m, j, v)
    BY <2>1, WantedFacts, AlignFacts
  <2>3. Unsent(n, m, v)
    BY <2>2 DEF Unsent
  <2> QED BY <1>1, <2>1, <2>3 DEF Owed
<1> QED BY <1>1, WantedFacts, AlignFacts

LEMMA UnbegunNext == AlignInv' => UnbegunOwed'
BY Unbegun, PTL

\* A scatter phase ends: it has arrived, and the next one has not begun.
LEMMA CloseGhosts ==
  ASSUME SendInv, DirInv, Together, AlignInv, AlignInv', NEW n \in Node, ScatterWait(n),
         \A m \in Node : GhostsFresh(m)
  PROVE  \A m \in Node : GhostsFresh(m)'
<1>1. /\ UNCHANGED <<conf, chunk, place, currEpoch, net, hand, data>> /\ AllIn(n, "stash")
  BY DEF ScatterWait, queues, scheduler, receivers
<1>2. CASE Silent
  BY <1>1, <1>2, StillGhosts
<1>3. CASE Closes(n)
  <2>1. /\ todo' = todo /\ ~Closing(n) /\ Closing(n)' /\ Owed(n) = {}
        /\ \A m \in Node : /\ Gap(m)' = Gap(m) /\ Passed(m)' = Passed(m)
                           /\ \A j \in ChunkId : Begun(m, j)' = Begun(m, j)
        /\ \A m \in Node \ {n} : RoundSame(m) /\ SameFor(m)
    BY <1>3 DEF Closes
  <2>2. /\ conf \in Confs /\ Gap(n) \in 0..Scatters /\ Gap(n) < Scatters /\ Scatters \in Nat
    BY <1>1, StashFacts
  <2>3. \A m \in Node : \A msg : Flying(m, msg)' => Flying(m, msg)
    BY <1>1, FlyingSame
  <2>4. \A m \in Node : GhostsStill(m)
    BY <1>1 DEF GhostsStill
  <2>5. ASSUME NEW m \in Node, m # n PROVE GhostsFresh(m)'
    <3>1. Settled(m)
      BY <1>1, <2>1, <2>5, OwedSame DEF Settled
    <3>2. Idle(m)
      <4>1. GapNow(m)' = GapNow(m)
        BY <1>1, <2>1, <2>5, GapNowSame
      <4>2. AllNext(m) => AllNext(m)'
        BY <1>1, AllNextStays
      <4> QED BY <1>1, <2>4, <4>1, <4>2 DEF Idle
    <3>3. FlightAt(m)'
      BY <1>1, <2>3, <3>1, FlightKept DEF Settled, GhostsFresh
    <3> QED BY <1>1, <3>1, <3>2, <3>3, IdleKeeps DEF GhostsFresh
  <2>6. FlightAt(n)'
    <3>1. ASSUME NEW msg, Flying(n, msg) PROVE FALSE
      <4>1. msg.rows # {}
        BY <3>1 DEF GhostsFresh, FlightAt, MsgOK
      <4>2. /\ \A m \in Node : \A k \in Places(net[m][n], "data") : net[m][n][k].rows = {}
            /\ \A x \in hand[n] : x.rows = {}
        BY <2>1, <2>2, OwedNothing
      <4> QED BY <3>1, <4>1, <4>2 DEF Flying
    <3> QED BY <2>3, <3>1 DEF FlightAt
  <2>7. ArrivedAt(n)'
    <3>1. Node' = Node /\ ChunkId' = ChunkId
      BY <1>1, ConfSame
    <3>2. ASSUME NEW m \in Node, NEW j \in ChunkId PROVE Begun(m, j)' < Expected(n)'
      <4>1. Passed(n) \in Nat /\ Expected(n) = Passed(n) + 1 /\ Expected(n)' = Passed(n) + 2
        BY <2>1, PassedIs DEF Expected
      <4>2. Begun(m, j) \in Nat /\ Begun(m, j) <= Expected(n)
        BY InExpected
      <4> QED BY <2>1, <4>1, <4>2
    <3>3. Owed(n)' = Wants(n)'
      BY <3>1, <3>2, UnbegunNext DEF UnbegunOwed
    <3> QED BY <3>3 DEF ArrivedAt
  <2>8. KeptAt(n)'
    <3>1. GapNow(n) = Gap(n) /\ GapNow(n)' = Gap(n) + 1
      BY <2>1 DEF GapNow
    <3>2. /\ ExpectedPhase(n) = Gap(n) + 1 /\ ExpectedEpoch(n) = currEpoch[n]
          /\ Wants(n) = Ghosts(conf.graph, n, DirOf(Gap(n) + 1))
      BY <2>2, <3>1, Now DEF NowAt, Wants
    <3>3. AllNext(n)' <=> AllNext(n)
      BY <1>1, ConfSame DEF AllNext
    <3>4. ASSUME ~AllNext(n), NEW s \in 1..Gap(n) + 1, NEW v \in Ghosts(conf.graph, n, DirOf(s))
          PROVE  Ghost(n, s, v) = <<v, currEpoch[n]>>
      <4>1. CASE s = Gap(n) + 1
        <5>1. v \in Wants(n) /\ v \notin Owed(n)
          BY <2>1, <3>2, <3>4, <4>1
        <5> QED BY <3>2, <4>1, <5>1 DEF GhostsFresh, ArrivedAt
      <4>2. CASE s # Gap(n) + 1
        <5>1. s \in 1..GapNow(n)
          BY <2>2, <3>1, <4>2
        <5> QED BY <3>4, <5>1 DEF GhostsFresh, KeptAt
      <4> QED BY <4>1, <4>2
    <3>5. \A s \in 1..Gap(n) + 1 : s \in 1..Scatters
      BY <2>2
    <3>6. \A s : DirOf(s)' = DirOf(s)
      BY <1>1, ConfSame
    <3>7. ASSUME ~AllNext(n)', NEW s \in 1..Gap(n) + 1, NEW v \in Ghosts(conf.graph, n, DirOf(s))
          PROVE  Ghost(n, s, v)' = <<v, currEpoch'[n]>>
      <4>1. Ghost(n, s, v)' = Ghost(n, s, v)
        BY <1>1, <2>2, <2>4, <3>5, GhostStill
      <4> QED BY <1>1, <3>3, <3>4, <3>7, <4>1
    <3> QED BY <1>1, <3>1, <3>6, <3>7 DEF KeptAt
  <2> QED BY <2>5, <2>6, <2>7, <2>8 DEF GhostsFresh
<1> QED BY <1>2, <1>3, WaitCloses

\* Each local vertex is in a chunk.
LEMMA LocalHeld ==
  ASSUME conf \in Confs, NEW n \in Node, NEW v \in Local(conf.graph, n)
  PROVE  \E j \in ChunkId : Holds(n, j, v)
<1>1. IsGraph(conf.graph) /\ conf.numLambdas \in Nat \ {0}
  BY ConfFacts
<1>2. LocalId(conf.graph, n, v) \in 0..LocalVtxCnt(conf.graph, n) - 1
  BY RowsFacts
<1>3. LocalVtxCnt(conf.graph, n) \in Nat
  <2>1. IsFiniteSet(Local(conf.graph, n))
    BY <1>1, FS_Subset DEF IsGraph, Local
  <2> QED BY <2>1, FS_CardinalityType DEF LocalVtxCnt
<1>4. ChunksCover(LocalVtxCnt(conf.graph, n), conf.numLambdas)
  BY <1>1, <1>3, ChunksShareOut
<1> QED BY <1>2, <1>4 DEF ChunksCover, Holds, Rows, ChunkId

\* The saved value of a local vertex, once it was due.
LEMMA OwnValue ==
  ASSUME conf \in Confs, NEW n \in Node, NEW v \in Local(conf.graph, n), NEW j \in ChunkId, Holds(n, j, v),
         OwnAt(n, j), NEW e \in Nat, e >= 1, Stamp(n, j) = e,
         NEW t, Saves(t), ~Exempt(t), Due(t) < Pos(n, j)
  PROVE  data[n][t][LocalId(conf.graph, n, v)] = <<v, e>>
<1>1. PICK r : r = LocalId(conf.graph, n, v)
  OBVIOUS
<1>2. r \in Rows(n, j)
  BY <1>1 DEF Holds
<1>3. VertexOf(n, r) \in Local(conf.graph, n) /\ LocalId(conf.graph, n, VertexOf(n, r)) = r
  BY <1>2, RowsFacts
<1>4. IsGraph(conf.graph)
  BY ConfFacts
<1>5. VertexOf(n, r) = v
  BY <1>1, <1>3, <1>4, EachVertexARow
<1>6. data[n][t][r] = <<VertexOf(n, r), e>>
  BY <1>2 DEF OwnAt, Own
<1> QED BY <1>1, <1>5, <1>6

\* A message has the values of the round that its receiver expects.
LEMMA PushOK ==
  ASSUME AlignInv, SendInv, NEW n \in Node, NEW i \in ChunkId, OwnAt(n, i), NEW b, NEW msg,
         Pushed(n, i, b, msg), Payload(n, i, msg)
  PROVE  b.to \in Node /\ MsgOK(b.to, msg)
<1>1. PICK k : k = b.to
  OBVIOUS
<1>2. PICK c : c = chunk[n][i]
  OBVIOUS
<1>3. b \in todo[n][i] /\ k \in Node \ {n} /\ place[n][i] = "send" /\ Carries(msg, b)
  BY <1>1 DEF Pushed
<1>4. BatchOK(n, i, b)
  BY <1>3 DEF SendInv, TodoAt
<1>5. Expected(k) = Passed(n) + 1 /\ \A v \in b.vtcs : v \in Wanted(k, n) /\ Holds(n, i, v)
  BY <1>1, <1>4 DEF BatchOK
<1>6. /\ conf \in Confs /\ Scatters \in Nat /\ Gap(n) \in 0..Scatters /\ currEpoch[n] \in Nat
      /\ currEpoch[n] = 0 => Gap(n) = Scatters
  BY PassedIs
<1>7. PosAt(n, i, Gap(n))
  BY PosIs
<1>8. PICK g \in 0..Scatters : g = Gap(n)
  BY <1>6
<1>9. /\ Pos(n, i) = 3 * (g + 1) /\ g < Scatters /\ Between(c, g + 1)
      /\ Stamp(n, i) = currEpoch[n]
  <2>1. place[n][i] \in Scattered \cup {"SC"} /\ place[n][i] # "sch"
    BY <1>3 DEF Scattered
  <2> QED BY <1>2, <1>7, <1>8, <2>1 DEF PosAt
<1>10. g + 1 \in 1..Scatters
  BY <1>6, <1>9
<1>11. ExpectedPhase(k) = g + 1 /\ ExpectedEpoch(k) = currEpoch[n]
  BY <1>3, <1>5, <1>8, <1>9, SenderAgrees
<1>12. ExpectedDir(k) = DirOf(g + 1)
  BY <1>3, <1>11, Now DEF NowAt
<1>13. PICK t : t = SendOf(g + 1)
  OBVIOUS
<1>14. Saves(t) /\ ~Exempt(t) /\ Due(t) = 3 * (g + 1) - 1
  BY <1>6, <1>10, <1>13, SendFits DEF SendAt
<1>15. Due(t) < Pos(n, i)
  BY <1>8, <1>9, <1>14
<1>16. Sent(conf.gnn, c) = t /\ Stored(conf.gnn, c) = StoreOf(g + 1) /\ c.dir = DirOf(g + 1)
  BY <1>9, <1>13, SendBetween DEF Between
<1>17. currEpoch[n] >= 1
  BY <1>6, <1>8, <1>9
<1>18. ASSUME NEW x \in msg.rows PROVE x[2] = <<x[1], currEpoch[n]>>
  <2>1. x[1] \in Wanted(k, n) /\ Holds(n, i, x[1])
    BY <1>3, <1>5 DEF Carries
  <2>2. x[1] \in Local(conf.graph, n)
    <3>1. conf.graph.part[x[1]] = n /\ x[1] \in Wants(k)
      BY <1>3, <1>6, <2>1, WantedFacts
    <3>2. x[1] \in Vertices(conf.graph)
      <4>1. IsGraph(conf.graph)
        BY <1>6, ConfFacts
      <4>2. Wants(k) \subseteq Vertices(conf.graph)
        BY <4>1, ArcsOfVertices DEF Wants, Ghosts, InEdgeGhosts, OutEdgeGhosts
      <4> QED BY <3>1, <4>2
    <3> QED BY <3>1, <3>2 DEF Local
  <2>3. x[2] = data[n][t][LocalId(conf.graph, n, x[1])]
    BY <1>2, <1>16 DEF Payload
  <2> QED BY <1>6, <1>9, <1>14, <1>15, <1>17, <2>1, <2>2, <2>3, OwnValue
<1>19. msg.rows # {} /\ msg.tensor = StoreOf(g + 1) /\ msg.dir = DirOf(g + 1)
  BY <1>2, <1>16 DEF Payload
<1> QED BY <1>1, <1>3, <1>11, <1>12, <1>18, <1>19 DEF MsgOK

\* A batch becomes a message, of values that were due before the scatter phase.
LEMMA PushGhosts ==
  ASSUME SendInv, AckInv, AlignInv, AlignInv', NEW n \in Node, NEW i \in ChunkId, OwnAt(n, i),
         VerticesPushOut(n, i), \A m \in Node : GhostsFresh(m)
  PROVE  \A m \in Node : GhostsFresh(m)'
<1>1. PICK b, msg : Pushed(n, i, b, msg) /\ Payload(n, i, msg)
  BY PushMessage
<1>2. PICK k : k = b.to
  OBVIOUS
<1>3. k \in Node /\ MsgOK(k, msg)
  BY <1>1, <1>2, PushOK
<1>4. conf' = conf /\ hand' = hand /\ \A m \in Node : RoundSame(m) /\ Settled(m)
  BY PushRounds, PushSettled
<1>5. /\ net'[n][k] = Append(net[n][k], msg)
      /\ \A p \in Node, m \in Node : <<p, m>> # <<n, k>> => net'[p][m] = net[p][m]
      /\ place[n][i] = "send"
  BY <1>1, <1>2 DEF Pushed
<1>6. UNCHANGED <<currEpoch, data>> /\ Send(n, i, "count", chunk[n][i])
  BY DEF VerticesPushOut, scheduler
<1>7. \A m \in Node \ {n} : place'[m] = place[m] /\ chunk'[m] = chunk[m]
  BY <1>6, AlignFacts DEF Send
<1>8. ~AllNext(n)
  BY <1>5 DEF AllNext
<1>9. \A m \in Node : GapNow(m)' = GapNow(m) /\ GhostsStill(m)
  BY <1>4, <1>6, GapNowSame DEF GhostsStill
<1>10. \A m \in Node : Idle(m)
  BY <1>4, <1>6, <1>7, <1>8, <1>9, IdleMoved
<1>11. ASSUME NEW m \in Node PROVE FlightAt(m)'
  <2>1. CASE m # k
    <3>1. \A x : Flying(m, x)' => Flying(m, x)
      BY <1>4, <1>5, <2>1, FlyingSame
    <3> QED BY <1>4, <1>11, <3>1, FlightKept DEF Settled, GhostsFresh
  <2>2. CASE m = k
    <3>1. /\ net'[n][m] = Append(net[n][m], msg) /\ hand'[m] = hand[m]
          /\ \A p \in Node \ {n} : net'[p][m] = net[p][m]
      BY <1>4, <1>5, <2>2
    <3>2. \A x : Flying(m, x)' => Flying(m, x) \/ x = msg
      BY <1>4, <3>1, FlyingSent
    <3>3. ASSUME NEW x, Flying(m, x)' PROVE MsgOK(m, x)'
      <4>1. MsgOK(m, x)
        BY <1>3, <1>11, <2>2, <3>2, <3>3 DEF GhostsFresh, FlightAt
      <4> QED BY <1>4, <4>1, MsgKept DEF Settled
    <3> QED BY <3>3 DEF FlightAt
  <2> QED BY <2>1, <2>2
<1>12. ASSUME NEW m \in Node PROVE GhostsFresh(m)'
  BY <1>4, <1>10, <1>11, <1>12, IdleKeeps DEF GhostsFresh
<1> QED BY <1>12

\* What is stored is of the phase that the server expects, and so replaces nothing that it
\* has to keep.
LEMMA StoreGhosts ==
  ASSUME SendInv, Together, AlignInv, AlignInv', DataInv, NEW n \in Node, StoreValues(n),
         \A m \in Node : GhostsFresh(m)
  PROVE  \A m \in Node : GhostsFresh(m)'
<1>1. UNCHANGED <<conf, chunk, place, currEpoch, scatter, todo, net>>
  BY DEF StoreValues, queues, scheduler, scatterer
<1>2. PICK msg, s, d, e : Stores(n, msg, s, d, e)
  BY StoreIs DEF GhostsFresh
<1>3. /\ msg \in hand[n] /\ hand'[n] = hand[n] \ {msg} /\ (\A m \in Node \ {n} : hand'[m] = hand[m])
      /\ s = ExpectedPhase(n) /\ d = ExpectedDir(n) /\ e = ExpectedEpoch(n)
      /\ \A m \in Node \ {n} : data'[m] = data[m]
  BY <1>2 DEF Stores
<1>4. \A m \in Node : RoundSame(m) /\ SameFor(m)
  BY <1>1, ReceiverRounds
<1>5. conf \in Confs /\ NowAt(n)
  BY Now, AlignFacts
<1>6. s \in 1..Scatters /\ d = DirOf(s) /\ Scatters \in Nat /\ GapNow(n) \in 0..Scatters
  BY <1>3, <1>5 DEF NowAt
<1>7. \A m \in Node : GapNow(m)' = GapNow(m) /\ (AllNext(m) => AllNext(m)')
  BY <1>1, <1>4, GapNowSame, AllNextStays
<1>8. ASSUME NEW m \in Node, m # n PROVE GhostsFresh(m)'
  <2>1. Settled(m)
    <3>1. hand'[m] = hand[m]
      BY <1>3, <1>8
    <3>2. Owed(m)' = Owed(m)
      BY <1>1, <1>4, <1>8, <3>1, OwedSame DEF RoundSame
    <3> QED BY <1>4, <1>8, <3>2 DEF Settled
  <2>2. Idle(m)
    BY <1>1, <1>3, <1>7, <1>8 DEF Idle, GhostsStill
  <2>3. \A x : Flying(m, x)' => Flying(m, x)
    BY <1>1, <1>3, <1>8, FlyingSame
  <2>4. FlightAt(m)'
    BY <1>1, <1>8, <2>1, <2>3, FlightKept DEF Settled, GhostsFresh
  <2> QED BY <1>1, <1>8, <2>1, <2>2, <2>4, IdleKeeps DEF GhostsFresh
<1>9. FlightAt(n)'
  <2>1. Node' = Node
    BY <1>1, ConfSame
  <2>2. \A x : Flying(n, x)' => Flying(n, x)
    BY <1>1, <1>3, <2>1 DEF Flying
  <2> QED BY <1>1, <1>4, <2>2, FlightKept DEF GhostsFresh
<1>10. \A r : StoreOf(r)' = StoreOf(r) /\ DirOf(r)' = DirOf(r)
  BY <1>1, ConfSame DEF StoreOf, ChunkOf, Stored, StoredGCN, StoredGAT
<1>11. ArrivedAt(n)'
  <2>1. Owed(n)' = Owed(n) \ VtcsOf(msg)
    BY <1>1, <1>3, StoredOwed
  <2>2. Wants(n)' = Wants(n) /\ ExpectedPhase(n)' = s /\ ExpectedEpoch(n)' = e
    BY <1>1, <1>3, <1>4, WantsSame, RoundKept
  <2>3. ASSUME NEW v \in Wants(n), v \in VtcsOf(msg) \/ v \notin Owed(n)
        PROVE  Ghost(n, s, v)' = <<v, e>>
    <3>1. Ghost(n, s, v)' = IF v \in VtcsOf(msg) THEN <<v, e>> ELSE Ghost(n, s, v)
      BY <1>1, <1>2, <1>6, <1>10, <2>3 DEF Stores, Ghost
    <3>2. v \notin VtcsOf(msg) => Ghost(n, s, v) = <<v, e>>
      BY <1>3, <2>3 DEF GhostsFresh, ArrivedAt
    <3> QED BY <3>1, <3>2
  <2>4. ASSUME NEW v \in Wants(n)', v \notin Owed(n)'
        PROVE  Ghost(n, ExpectedPhase(n), v)' = <<v, ExpectedEpoch(n)'>>
    <3>1. Ghost(n, s, v)' = <<v, e>>
      BY <2>1, <2>2, <2>3, <2>4
    <3> QED BY <2>2, <3>1 DEF Ghost
  <2> QED BY <2>4 DEF ArrivedAt
<1>12. ASSUME ~AllNext(n), NEW r \in 1..GapNow(n)
       PROVE  r # s
  <2>1. CASE GapNow(n) < Scatters
    <3>1. s = GapNow(n) + 1
      BY <1>3, <1>5, <2>1 DEF NowAt
    <3> QED BY <1>6, <1>12, <3>1
  <2>2. CASE GapNow(n) = Scatters
    <3>1. PICK x \in msg.rows : TRUE
      BY <1>3 DEF GhostsFresh, FlightAt, Flying, MsgOK
    <3>2. InTime(n, msg)
      BY <1>3 DEF SendInv, HandAt
    <3>3. msg.from \in Node /\ x[1] \in Wanted(n, msg.from)
      BY <3>1, <3>2 DEF InTime
    <3>4. PICK j \in ChunkId : Holds(msg.from, j, x[1])
      BY <1>5, <3>3, WantedFacts
    <3>5. Begun(msg.from, j) = Expected(n)
      BY <3>1, <3>2, <3>4 DEF InTime
    <3> QED BY <1>12, <2>2, <3>3, <3>4, <3>5, Wrapped
  <2> QED BY <1>6, <2>1, <2>2
<1>13. KeptAt(n)'
  <2>1. AllNext(n)' <=> AllNext(n)
    BY <1>1, ConfSame DEF AllNext
  <2>2. ASSUME ~AllNext(n), NEW r \in 1..GapNow(n), NEW v \in Ghosts(conf.graph, n, DirOf(r))
        PROVE  Ghost(n, r, v)' = <<v, currEpoch[n]>>
    <3>1. r \in 1..Scatters
      BY <1>6, <2>2
    <3>2. StoreOf(r) # StoreOf(s) /\ StoreOf(r) \in Tensors(conf.gnn, conf.numLayers)
      BY <1>5, <1>6, <1>12, <2>2, <3>1, StoreApart, SendFits DEF SendAt
    <3>3. data'[n][StoreOf(r)] = data[n][StoreOf(r)]
      BY <1>2, <3>2 DEF Stores
    <3>4. Ghost(n, r, v)' = Ghost(n, r, v)
      BY <1>1, <1>10, <3>3 DEF Ghost
    <3> QED BY <2>2, <3>4 DEF GhostsFresh, KeptAt
  <2> QED BY <1>1, <1>7, <1>10, <2>1, <2>2 DEF KeptAt
<1>14. GhostsFresh(n)'
  BY <1>9, <1>11, <1>13 DEF GhostsFresh
<1> QED BY <1>8, <1>14

-----------------------------------------------------------------------------
(* All steps.                                                              *)

\* No step takes a value of its epoch from a chunk.
LEMMA OwnNext ==
  ASSUME AlignInv, DataInv, SendInv, [Next]_vars, FreshInv
  PROVE  \A m \in Node, j \in ChunkId : OwnAt(m, j)'
<1>1. (\A m \in Node, j \in ChunkId : OwnAt(m, j)) /\ \A m \in Node : FlightAt(m)
  BY DEF FreshInv, GhostsFresh
<1>0. AlignInv
  OBVIOUS
<1>2. /\ chunk \in [Node -> [ChunkId -> Chunk]] /\ place \in [Node -> [ChunkId -> Place]]
  BY AlignFacts
<1>3. ASSUME UNCHANGED <<conf, chunk, place, data>> PROVE \A m \in Node, j \in ChunkId : OwnAt(m, j)'
  BY <1>1, <1>3, WaitingOwns
<1>4. ASSUME NEW n \in Node, NEW i \in ChunkId, NEW q, Send(n, i, q, chunk[n][i]), UNCHANGED <<conf, data>>,
             place[n][i] \in Waiting, q \in Waiting
      PROVE  \A m \in Node, j \in ChunkId : OwnAt(m, j)'
  <2>1. chunk' = chunk
    BY <1>2, <1>4 DEF Send
  <2>2. \A m \in Node, j \in ChunkId : place'[m][j] = IF m = n /\ j = i THEN q ELSE place[m][j]
    BY <1>2, <1>4 DEF Send
  <2>3. \A m \in Node, j \in ChunkId :
          place'[m][j] = place[m][j] \/ (place[m][j] \in Waiting /\ place'[m][j] \in Waiting)
    BY <1>4, <2>2
  <2> QED BY <1>1, <1>4, <2>1, <2>3, WaitingOwns
<1>5. ASSUME NEW n \in Node, Main(n) PROVE \A m \in Node, j \in ChunkId : OwnAt(m, j)'
  <2>1. UNCHANGED <<conf, chunk, place, data>>
    BY <1>5 DEF Main, StartBarrier, LoadChunks, EndBarrier, Done, queues
  <2> QED BY <1>3, <2>1
<1>6. ASSUME NEW n \in Node, Schedule(n) PROVE \A m \in Node, j \in ChunkId : OwnAt(m, j)'
  <2>1. CASE SchedHalt(n) \/ SchedBarrier(n) \/ SchedUnblock(n)
    <3>1. UNCHANGED <<conf, chunk, place, data>>
      BY <2>1 DEF SchedHalt, SchedBarrier, SchedUnblock, queues
    <3> QED BY <1>3, <3>1
  <2>2. ASSUME NEW i \in ChunkId, SchedStart(n, i) \/ SchedPass(n, i)
        PROVE  \A m \in Node, j \in ChunkId : OwnAt(m, j)'
    BY <1>1, <2>2, SchedOwns
  <2> QED BY <1>6, <2>1, <2>2 DEF Schedule
<1>7. ASSUME NEW n \in Node, Scatter(n) PROVE \A m \in Node, j \in ChunkId : OwnAt(m, j)'
  <2>1. CASE ScatterWait(n) \/ ScatterLeave(n) \/ BeginBarrier(n) \/ BeginScatter(n)
    <3>1. UNCHANGED <<conf, chunk, place, data>>
      BY <2>1 DEF ScatterWait, ScatterLeave, BeginBarrier, BeginScatter, queues
    <3> QED BY <1>3, <3>1
  <2>2. CASE ScatterReset(n)
    <3>1. UNCHANGED <<conf, chunk, data>> /\ place' = [place EXCEPT ![n] = [i \in ChunkId |-> "AE"]]
      BY <2>2 DEF ScatterReset
    <3>2. \A i \in ChunkId : place[n][i] = "stash"
      BY <1>0, <2>2, ClosingFacts DEF ScatterReset, Closing
    <3>3. \A m \in Node, j \in ChunkId :
            place'[m][j] = place[m][j] \/ (place[m][j] \in Waiting /\ place'[m][j] \in Waiting)
      BY <1>2, <3>1, <3>2 DEF Waiting, Scattered
    <3> QED BY <1>1, <3>1, <3>3, WaitingOwns
  <2>3. ASSUME NEW i \in ChunkId,
               ScatterPop(n, i) \/ VerticesPushOut(n, i) \/ Count(n, i) \/ ScatterStash(n, i)
        PROVE  \A m \in Node, j \in ChunkId : OwnAt(m, j)'
    <3>1. /\ UNCHANGED <<conf, data>>
          /\ \E q \in Waiting : Send(n, i, q, chunk[n][i])
          /\ place[n][i] \in Waiting
      BY <2>3 DEF ScatterPop, VerticesPushOut, Count, ScatterStash, InQueue, Waiting, Scattered
    <3> QED BY <1>4, <3>1
  <2> QED BY <1>7, <2>1, <2>2, <2>3 DEF Scatter
<1>8. ASSUME NEW n \in Node, Receive(n) PROVE \A m \in Node, j \in ChunkId : OwnAt(m, j)'
  <2>1. ASSUME NEW m \in Node \ {n}, RecvValues(n, m) \/ RecvAck(n, m)
        PROVE  UNCHANGED <<conf, chunk, place, data>>
    BY <2>1 DEF RecvValues, RecvAck, queues
  <2>2. CASE Check(n)
    <3>1. UNCHANGED <<conf, chunk, place, data>>
      BY <2>2 DEF Check, queues
    <3> QED BY <1>3, <3>1
  <2>3. CASE StoreValues(n)
    BY <1>1, <2>3, StoreOwns
  <2> QED BY <1>3, <1>8, <2>1, <2>2, <2>3 DEF Receive
<1>9. ASSUME NEW n \in Node, NEW i \in ChunkId, Work(n, i)
      PROVE  \A m \in Node, j \in ChunkId : OwnAt(m, j)'
  BY <1>1, <1>9, WorkOwns
<1>10. CASE UNCHANGED kept
  <2>1. UNCHANGED <<conf, chunk, place, data>>
    BY <1>10 DEF kept, queues
  <2> QED BY <1>3, <2>1
<1> QED BY <1>5, <1>6, <1>7, <1>8, <1>9, <1>10, Steps

\* No step takes a value from a ghost that a gather of the epoch may still read.
LEMMA GhostsNext ==
  ASSUME SendInv, DirInv, Together, AlignInv, AlignInv', AckInv, DataInv, [Next]_vars, FreshInv
  PROVE  \A m \in Node : GhostsFresh(m)'
<1>1. (\A m \in Node, j \in ChunkId : OwnAt(m, j)) /\ \A m \in Node : GhostsFresh(m)
  BY DEF FreshInv
<1>2. CASE UNCHANGED kept
  <2>1. UNCHANGED <<chunk, place, currEpoch, data>>
    BY <1>2 DEF kept, queues, scheduler
  <2> QED BY <1>1, <1>2, <2>1, SilentStutter, StillGhosts
<1>3. ASSUME NEW n \in Node, Main(n) PROVE \A m \in Node : GhostsFresh(m)'
  BY <1>1, <1>3, CallsGhosts
<1>4. ASSUME NEW n \in Node, Schedule(n) PROVE \A m \in Node : GhostsFresh(m)'
  <2>1. CASE SchedHalt(n) \/ SchedBarrier(n) \/ SchedUnblock(n)
    BY <1>1, <2>1, CallsGhosts
  <2>2. ASSUME NEW i \in ChunkId, SchedStart(n, i) \/ SchedPass(n, i)
        PROVE  \A m \in Node : GhostsFresh(m)'
    BY <1>1, <2>2, StartGhosts, PassGhosts
  <2> QED BY <1>4, <2>1, <2>2 DEF Schedule
<1>5. ASSUME NEW n \in Node, Scatter(n) PROVE \A m \in Node : GhostsFresh(m)'
  <2>1. CASE ScatterLeave(n) \/ BeginBarrier(n) \/ BeginScatter(n)
    BY <1>1, <2>1, CallsGhosts
  <2>2. CASE ScatterWait(n) \/ ScatterReset(n)
    BY <1>1, <2>2, CloseGhosts, ResetGhosts
  <2>3. ASSUME NEW i \in ChunkId, ScatterPop(n, i) \/ VerticesPushOut(n, i)
        PROVE  \A m \in Node : GhostsFresh(m)'
    BY <1>1, <2>3, PopGhosts, PushGhosts
  <2>4. ASSUME NEW i \in ChunkId, Count(n, i) \/ ScatterStash(n, i)
        PROVE  \A m \in Node : GhostsFresh(m)'
    BY <1>1, <2>4, PassGhosts
  <2> QED BY <1>5, <2>1, <2>2, <2>3, <2>4 DEF Scatter
<1>6. ASSUME NEW n \in Node, Receive(n) PROVE \A m \in Node : GhostsFresh(m)'
  <2>1. ASSUME NEW m \in Node \ {n}, RecvValues(n, m) \/ RecvAck(n, m)
        PROVE  \A k \in Node : GhostsFresh(k)'
    BY <1>1, <2>1, RecvGhosts
  <2>2. CASE StoreValues(n) \/ Check(n)
    BY <1>1, <2>2, StoreGhosts, CallsGhosts
  <2> QED BY <1>6, <2>1, <2>2 DEF Receive
<1>7. ASSUME NEW n \in Node, NEW i \in ChunkId, Work(n, i) PROVE \A m \in Node : GhostsFresh(m)'
  BY <1>1, <1>7, WorkGhosts
<1> QED BY <1>2, <1>3, <1>4, <1>5, <1>6, <1>7, Steps

LEMMA FreshNext ==
  FreshInv /\ RoundInv /\ AlignInv /\ AckInv /\ DataInv /\ [Next]_vars => FreshInv'
<1> SUFFICES ASSUME FreshInv, RoundInv, AlignInv, AckInv, DataInv, [Next]_vars PROVE FreshInv'
  OBVIOUS
<1>1. SendInv /\ DirInv /\ Together /\ AlignInv'
  BY AlignNext DEF RoundInv
<1>2. Node' = Node /\ ChunkId' = ChunkId
  BY ConfKept, ConfSame
<1>3. (\A m \in Node, j \in ChunkId : OwnAt(m, j)') /\ \A m \in Node : GhostsFresh(m)'
  BY <1>1, OwnNext, GhostsNext
<1> QED BY <1>2, <1>3 DEF FreshInv

\* Before the run no chunk has begun an epoch, and all values are owed.
LEMMA FreshInit == Init => FreshInv
<1> SUFFICES ASSUME Init PROVE FreshInv
  OBVIOUS
<1>1. AlignInv /\ conf \in Confs
  BY AlignInit DEF Init
<1>2. ASSUME NEW n \in Node
      PROVE  /\ currEpoch[n] = 0 /\ scatter[n] = "run" /\ hand[n] = {}
             /\ \A m \in Node : net[m][n] = <<>>
             /\ \A i \in ChunkId : place[n][i] = "sch" /\ chunk[n][i].epoch = 1
  BY DEF Init
<1>3. ASSUME NEW n \in Node
      PROVE  Expected(n) = 1 /\ \A i \in ChunkId : Begun(n, i) = 0
  <2>1. ~Closing(n)
    BY <1>2 DEF Closing
  <2>2. stage[n] = "new"
    BY DEF Init
  <2>3. Passed(n) = 0
    <3>1. Gap(n) = Scatters
      BY <1>1, <2>2, GapAt
    <3> QED BY <1>1, <1>2, <3>1, PassedIs
  <2>4. Expected(n) = 1
    BY <2>1, <2>3 DEF Expected
  <2>5. \A i \in ChunkId : Begun(n, i) = 0
    BY <1>2, <2>3 DEF Begun, Scattered
  <2> QED BY <2>4, <2>5
<1>4. ASSUME NEW n \in Node PROVE FlightAt(n)
  <2>1. DOMAIN <<>> = {}
    OBVIOUS
  <2>2. \A m \in Node : Places(net[m][n], "data") = {}
    BY <1>2, <2>1 DEF Places
  <2> QED BY <1>2, <2>2 DEF FlightAt, Flying
<1>5. ASSUME NEW n \in Node PROVE ArrivedAt(n)
  <2>1. \A m \in Node, j \in ChunkId : Begun(m, j) < Expected(n)
    BY <1>3
  <2>2. Owed(n) = Wants(n)
    BY <1>1, <2>1, Unbegun DEF UnbegunOwed
  <2> QED BY <2>2 DEF ArrivedAt
<1>6. ASSUME NEW n \in Node PROVE KeptAt(n)
  <2>1. AllNext(n)
    BY <1>2 DEF AllNext
  <2> QED BY <2>1 DEF KeptAt
<1>7. ASSUME NEW n \in Node, NEW i \in ChunkId PROVE OwnAt(n, i)
  <2>1. Stamp(n, i) = 0
    BY <1>2 DEF Stamp
  <2> QED BY <2>1 DEF OwnAt
<1> QED BY <1>4, <1>5, <1>6, <1>7 DEF FreshInv, GhostsFresh

-----------------------------------------------------------------------------
(* What the phases read.                                                   *)

ReadsUpTo(ph, p, s) == (\A t \in ph.own : Owns(t, p)) /\ GatherReads(ph, s)

\* A phase reads what was due before it, and what was sent before it.
LEMMA NextFits ==
  ASSUME AlignInv, NEW n \in Node, NEW i \in ChunkId
  PROVE  /\ place[n][i] = "sch" => NextPhase(n, i) = NoPhase
         /\ place[n][i] # "sch" => ReadsUpTo(NextPhase(n, i), Pos(n, i), Gap(n))
<1>1. PICK s \in 0..Scatters : s = Gap(n)
  BY GapAt
<1>2. PICK c : c = chunk[n][i]
  OBVIOUS
<1>3. PICK p : p = place[n][i]
  OBVIOUS
<1>4. c \in Chunk /\ p \in Place /\ conf \in Confs /\ Scatters \in Nat /\ PosAt(n, i, s)
  BY <1>1, <1>2, <1>3, AlignFacts, PosIs, ScatterFacts
<1>5. PICK ph : ph = NextPhase(n, i)
  OBVIOUS
<1>6. ASSUME ph.own = {}, ph.inn = {}, ph.out = {}
      PROVE  ReadsUpTo(ph, Pos(n, i), s)
  BY <1>6 DEF ReadsUpTo, GatherReads
<1>7. ASSUME NEW q, NEW r, Fits(ph, q, r), Pos(n, i) = q, ph.inn = {}, ph.out = {}
      PROVE  ReadsUpTo(ph, Pos(n, i), s)
  BY <1>7 DEF ReadsUpTo, GatherReads, Fits
<1>8. CASE p \in {"sch", "count", "stash"}
  <2>1. ph = NoPhase
    <3>1. place[n][i] # "GA" /\ place[n][i] # "AV" /\ place[n][i] # "AE" /\ place[n][i] \notin {"SC", "send"}
      BY <1>3, <1>8
    <3> QED BY <1>5, <3>1 DEF NextPhase
  <2>2. ph.own = {} /\ ph.inn = {} /\ ph.out = {}
    BY <2>1, PhaseFields DEF NoPhase
  <2> QED BY <1>1, <1>3, <1>5, <1>6, <2>1, <2>2
<1>9. CASE p = "GA"
  <2>1. ph = Gathering(conf.gnn, conf.numLayers, c)
    BY <1>2, <1>3, <1>5, <1>9 DEF NextPhase, NextChunk
  <2>2. Between(c, s) /\ Pos(n, i) = 3 * s + 1 /\ (conf.gnn = "GAT" => s > 0)
    BY <1>2, <1>3, <1>4, <1>9 DEF PosAt
  <2>3. \E r : Fits(ph, 3 * s + 1, r) /\ GatherReads(ph, s)
    <3>1. CASE conf.gnn = "GCN"
      <4>1. Fits(ph, 3 * s + 1, 3 * s + 2) /\ GatherReads(ph, s)
        BY <1>4, <2>1, <2>2, <3>1, GatherFitsGCN
      <4> QED BY <4>1
    <3>2. CASE conf.gnn = "GAT"
      <4>1. s \in 1..Scatters
        BY <2>2, <3>2
      <4>2. /\ Fits(ph, 3 * s + 1, IF IsTurn(conf.gnn, conf.numLayers, c) THEN 3 * (s + 1) ELSE 3 * s + 2)
            /\ GatherReads(ph, s)
        BY <1>4, <2>1, <2>2, <3>2, <4>1, GatherFitsGAT
      <4> QED BY <4>2
    <3> QED BY <1>4, <3>1, <3>2, ScatterFacts DEF Gnn
  <2>4. ReadsUpTo(ph, Pos(n, i), s)
    BY <2>2, <2>3 DEF ReadsUpTo, Fits
  <2> QED BY <1>1, <1>3, <1>5, <1>9, <2>4
<1>10. CASE p = "AV"
  <2>1. PICK d : d = Applied(c)
    OBVIOUS
  <2>2. ph = NNCompute(conf.build, conf.gnn, conf.numLayers, d)
    BY <1>2, <1>3, <1>5, <1>10, <2>1 DEF NextPhase, NextChunk
  <2>3. Between(c, s) /\ Pos(n, i) = 3 * s + 2 /\ (conf.gnn = "GAT" => s # Turn)
    BY <1>2, <1>3, <1>4, <1>10 DEF PosAt
  <2>4. Fits(ph, 3 * s + 2, 3 * (s + 1)) /\ ph.inn = {} /\ ph.out = {}
    <3>1. CASE conf.gnn = "GCN"
      BY <1>4, <2>1, <2>2, <2>3, <3>1, VertexFitsGCN
    <3>2. CASE conf.gnn = "GAT"
      BY <1>4, <2>1, <2>2, <2>3, <3>2, VertexFitsGAT
    <3> QED BY <1>4, <3>1, <3>2, ScatterFacts DEF Gnn
  <2>5. ReadsUpTo(ph, Pos(n, i), s)
    BY <1>7, <2>3, <2>4
  <2> QED BY <1>1, <1>3, <1>5, <1>10, <2>5
<1>11. CASE p = "AE"
  <2>1. PICK d : d = [c EXCEPT !.vertex = FALSE]
    OBVIOUS
  <2>2. ph = NNCompute(conf.build, conf.gnn, conf.numLayers, d)
    BY <1>2, <1>3, <1>5, <1>11, <2>1 DEF NextPhase, NextChunk
  <2>3. Between(c, s) /\ Pos(n, i) = 3 * s /\ s > 0
    BY <1>2, <1>3, <1>4, <1>11 DEF PosAt
  <2>4. d.layer = c.layer /\ d.dir = c.dir /\ ~d.vertex /\ d.dir \in PropType
    BY <1>4, <2>1 DEF Chunk
  <2>5. Between(d, s)
    BY <2>3, <2>4 DEF Between
  <2>6. s \in 1..Scatters
    BY <2>3
  <2>7. Fits(ph, 3 * s, 3 * s + 1) /\ ph.inn = {} /\ ph.out = {}
    BY <1>4, <2>2, <2>4, <2>5, <2>6, EdgeFits
  <2>8. ReadsUpTo(ph, Pos(n, i), s)
    BY <1>7, <2>3, <2>7
  <2> QED BY <1>1, <1>3, <1>5, <1>11, <2>8
<1>12. CASE p \in {"SC", "send"}
  <2>1. ph = Phase({Sent(conf.gnn, c)}, {}, {}, {})
    <3>1. place[n][i] # "GA" /\ place[n][i] # "AV" /\ place[n][i] # "AE" /\ place[n][i] \in {"SC", "send"}
      BY <1>3, <1>12
    <3> QED BY <1>2, <1>5, <3>1 DEF NextPhase, NextChunk
  <2>2. ph.own = {Sent(conf.gnn, c)} /\ ph.inn = {} /\ ph.out = {}
    BY <2>1, PhaseFields
  <2>3. Pos(n, i) = 3 * (s + 1) /\ s < Scatters /\ Between(c, s + 1)
    <3>1. p \in Scattered \cup {"SC"}
      BY <1>12 DEF Scattered
    <3> QED BY <1>2, <1>3, <1>4, <3>1 DEF PosAt
  <2>4. s + 1 \in 1..Scatters
    BY <1>4, <2>3
  <2>5. PICK t : t = SendOf(s + 1)
    OBVIOUS
  <2>6. Saves(t) /\ Due(t) = 3 * (s + 1) - 1
    BY <1>4, <2>4, <2>5, SendFits DEF SendAt
  <2>7. Sent(conf.gnn, c) = t
    BY <2>3, <2>5, SendBetween
  <2>8. Due(t) < 3 * (s + 1)
    BY <2>6
  <2>9. Owns(t, Pos(n, i))
    BY <2>3, <2>6, <2>8 DEF Owns
  <2>10. ReadsUpTo(ph, Pos(n, i), s)
    BY <2>2, <2>7, <2>9 DEF ReadsUpTo, GatherReads
  <2>11. p # "sch"
    BY <1>12
  <2> QED BY <1>1, <1>3, <1>5, <2>10, <2>11
<1> QED BY <1>4, <1>8, <1>9, <1>10, <1>11, <1>12 DEF Place

\* A chunk that is in an epoch is in that of its server.
LEMMA InEpoch ==
  ASSUME AlignInv, NEW n \in Node, NEW i \in ChunkId, place[n][i] # "sch"
  PROVE  /\ chunk[n][i].epoch = currEpoch[n] /\ Stamp(n, i) = currEpoch[n]
         /\ currEpoch[n] \in Nat /\ currEpoch[n] >= 1 /\ ~AllNext(n)
<1>1. stage[n] = "running" /\ Running(n, Gap(n)) /\ currEpoch[n] \in Nat
  <2>1. stage[n] # "running" => Resting(n)
    BY GapAt
  <2>2. Resting(n) => place[n][i] = "sch"
    BY DEF Resting, AllNext
  <2> QED BY <2>1, <2>2, GapAt
<1>2. currEpoch[n] # 0
  BY <1>1 DEF Running
<1>3. PosAt(n, i, Gap(n))
  BY PosIs
<1>4. Stamp(n, i) = currEpoch[n] /\ Stamp(n, i) = chunk[n][i].epoch
  BY <1>3 DEF PosAt
<1>5. ~AllNext(n)
  BY DEF AllNext
<1> QED BY <1>1, <1>2, <1>4, <1>5

\* The value that a server has of a vertex, its own or a ghost's, once the scatter phase
\* that sends it is over.
ReadOf(n, r, u) ==
  IF u \in Local(conf.graph, n) THEN data[n][SendOf(r)][LocalId(conf.graph, n, u)] ELSE Ghost(n, r, u)

LEMMA ReadsFresh ==
  ASSUME AlignInv, FreshInv, NEW n \in Node, NEW i \in ChunkId, place[n][i] # "sch",
         NEW r \in 1..Gap(n), NEW u \in Local(conf.graph, n) \cup Ghosts(conf.graph, n, DirOf(r))
  PROVE  ReadOf(n, r, u) = <<u, chunk[n][i].epoch>>
<1>1. PICK e \in Nat : e = currEpoch[n]
  BY InEpoch
<1>2. e >= 1 /\ chunk[n][i].epoch = e /\ ~AllNext(n)
  BY <1>1, InEpoch
<1>3. PICK s \in 0..Scatters : s = Gap(n)
  BY GapAt
<1>4. Scatters \in Nat /\ conf \in Confs /\ r \in 1..s /\ r \in 1..Scatters
  BY <1>3, GapAt
<1>5. CASE u \in Local(conf.graph, n)
  <2>1. PICK j \in ChunkId : Holds(n, j, u)
    BY <1>4, <1>5, LocalHeld
  <2>2. PosAt(n, j, s)
    BY <1>3, PosIs
  <2>3. place[n][j] \in Place
    BY AlignFacts
  <2>4. Stamp(n, j) = e
    BY <1>1, <1>4, <2>2 DEF PosAt
  <2>5. Pos(n, j) \in Int /\ Pos(n, j) >= 3 * s
    <3>1. CASE place[n][j] = "sch"
      BY <1>4, <2>2, <3>1 DEF PosAt
    <3>2. CASE place[n][j] \in {"AE", "GA", "AV"}
      <4>1. Pos(n, j) = 3 * s \/ Pos(n, j) = 3 * s + 1 \/ Pos(n, j) = 3 * s + 2
        BY <2>2, <3>2 DEF PosAt
      <4> QED BY <4>1
    <3>3. CASE place[n][j] \in Scattered \cup {"SC"}
      <4>1. Pos(n, j) = 3 * (s + 1)
        BY <2>2, <3>3 DEF PosAt
      <4> QED BY <4>1
    <3> QED BY <2>3, <3>1, <3>2, <3>3 DEF Place, Scattered
  <2>6. PICK t : t = SendOf(r)
    OBVIOUS
  <2>7. Saves(t) /\ ~Exempt(t) /\ Due(t) = 3 * r - 1
    BY <1>4, <2>6, SendFits DEF SendAt
  <2>8. Due(t) < Pos(n, j)
    BY <1>4, <2>5, <2>7
  <2>9. OwnAt(n, j)
    BY DEF FreshInv
  <2>10. data[n][t][LocalId(conf.graph, n, u)] = <<u, e>>
    BY <1>2, <1>4, <1>5, <2>1, <2>4, <2>7, <2>8, <2>9, OwnValue
  <2> QED BY <1>2, <1>5, <2>6, <2>10 DEF ReadOf
<1>6. CASE u \notin Local(conf.graph, n)
  <2>1. r \in 1..GapNow(n)
    BY <1>3, <1>4 DEF GapNow
  <2>2. u \in Ghosts(conf.graph, n, DirOf(r))
    BY <1>6
  <2>3. KeptAt(n)
    BY DEF FreshInv, GhostsFresh
  <2>4. Ghost(n, r, u) = <<u, e>>
    BY <1>1, <1>2, <2>1, <2>2, <2>3 DEF KeptAt
  <2> QED BY <1>2, <1>6, <2>4 DEF ReadOf
<1> QED BY <1>5, <1>6

\* A chunk's own rows.
LEMMA OwnsFresh ==
  ASSUME AlignInv, FreshInv, NEW n \in Node, NEW i \in ChunkId, place[n][i] # "sch",
         NEW t, Owns(t, Pos(n, i)), ~Exempt(t)
  PROVE  OwnFresh(n, i, t)
<1>1. OwnAt(n, i)
  BY DEF FreshInv
<1>2. Stamp(n, i) >= 1 /\ Stamp(n, i) = chunk[n][i].epoch
  BY InEpoch
<1>3. Saves(t) /\ Due(t) < Pos(n, i)
  BY DEF Owns
<1> QED BY <1>1, <1>2, <1>3 DEF OwnAt, Own, OwnFresh

\* The rows of its neighbours on all servers.
LEMMA NeighbourFresh ==
  ASSUME AlignInv, FreshInv, NEW n \in Node, NEW i \in ChunkId, place[n][i] # "sch",
         NEW w, NEW dir, NEW r \in 1..Gap(n), DirOf(r) = dir, w.own = SendOf(r), w.ghost = StoreOf(r),
         NEW v, NEW u \in Local(conf.graph, n) \cup Ghosts(conf.graph, n, dir)
  PROVE  (IF u \in Local(conf.graph, n) THEN data[n][w.own][LocalId(conf.graph, n, u)]
          ELSE data[n][w.ghost][GhostRow(conf.graph, n, dir, u)]) = <<u, chunk[n][i].epoch>>
<1>1. ReadOf(n, r, u) = <<u, chunk[n][i].epoch>>
  BY ReadsFresh
<1> QED BY <1>1 DEF ReadOf, Ghost

\* What a phase reads is among what its chunk owns and what its server keeps.
LEMMA FreshImplies == FreshInv /\ AlignInv => InputsFresh
<1> SUFFICES ASSUME FreshInv, AlignInv PROVE InputsFresh
  OBVIOUS
<1> DEFINE exempt == {t \in Tensors(conf.gnn, conf.numLayers) :
                        \/ Accumulated(conf.build, conf.gnn, t)
                        \/ NeverWritten(conf.build, conf.gnn, t)}
<1>1. conf \in Confs /\ IsGraph(conf.graph)
  BY AlignFacts, ConfFacts
<1>2. ASSUME NEW n \in Node, NEW i \in ChunkId PROVE PhaseFresh(n, i, exempt)
  <2>1. PICK ph : ph = NextPhase(n, i)
    OBVIOUS
  <2>2. CASE place[n][i] = "sch"
    <3>1. ph.own = {} /\ ph.inn = {} /\ ph.out = {}
      BY <1>2, <2>1, <2>2, NextFits, PhaseFields DEF NoPhase
    <3> QED BY <2>1, <3>1 DEF PhaseFresh
  <2>3. CASE place[n][i] # "sch"
    <3>1. ReadsUpTo(ph, Pos(n, i), Gap(n))
      BY <1>2, <2>1, <2>3, NextFits
    <3>2. ASSUME NEW t \in ph.own \ exempt PROVE OwnFresh(n, i, t)
      <4>1. Owns(t, Pos(n, i))
        BY <3>1, <3>2 DEF ReadsUpTo
      <4>2. ~Exempt(t)
        BY <3>2, <4>1 DEF Owns, Saves, Exempt
      <4> QED BY <1>2, <2>3, <4>1, <4>2, OwnsFresh
    <3>3. ASSUME NEW r \in Rows(n, i)
          PROVE  /\ InNeighbours(conf.graph, VertexOf(n, r))
                      \subseteq Local(conf.graph, n) \cup Ghosts(conf.graph, n, "FORWARD")
                 /\ OutNeighbours(conf.graph, VertexOf(n, r))
                      \subseteq Local(conf.graph, n) \cup Ghosts(conf.graph, n, "BACKWARD")
      <4>1. VertexOf(n, r) \in Local(conf.graph, n)
        BY <1>1, <1>2, <3>3, RowsFacts
      <4>2. NeighboursKept(conf.graph)
        BY <1>1, EachNeighbourKept
      <4> QED BY <1>2, <4>1, <4>2 DEF NeighboursKept, Node, Ghosts
    <3> DEFINE inOf(v) == InNeighbours(conf.graph, v)
    <3> DEFINE outOf(v) == OutNeighbours(conf.graph, v)
    <3>4. ASSUME NEW w \in ph.inn PROVE NeighboursFresh(n, i, w, inOf, "FORWARD")
      <4>1. PICK q \in 1..Gap(n) : DirOf(q) = "FORWARD" /\ w.own = SendOf(q) /\ w.ghost = StoreOf(q)
        BY <3>1, <3>4 DEF ReadsUpTo, GatherReads
      <4>2. ASSUME NEW u \in Local(conf.graph, n) \cup Ghosts(conf.graph, n, "FORWARD")
            PROVE  (IF u \in Local(conf.graph, n) THEN data[n][w.own][LocalId(conf.graph, n, u)]
                    ELSE data[n][w.ghost][GhostRow(conf.graph, n, "FORWARD", u)]) = <<u, chunk[n][i].epoch>>
        BY <1>2, <2>3, <4>1, <4>2, NeighbourFresh
      <4> QED BY <3>3, <4>2 DEF NeighboursFresh
    <3>5. ASSUME NEW w \in ph.out PROVE NeighboursFresh(n, i, w, outOf, "BACKWARD")
      <4>1. PICK q \in 1..Gap(n) : DirOf(q) = "BACKWARD" /\ w.own = SendOf(q) /\ w.ghost = StoreOf(q)
        BY <3>1, <3>5 DEF ReadsUpTo, GatherReads
      <4>2. ASSUME NEW u \in Local(conf.graph, n) \cup Ghosts(conf.graph, n, "BACKWARD")
            PROVE  (IF u \in Local(conf.graph, n) THEN data[n][w.own][LocalId(conf.graph, n, u)]
                    ELSE data[n][w.ghost][GhostRow(conf.graph, n, "BACKWARD", u)]) = <<u, chunk[n][i].epoch>>
        BY <1>2, <2>3, <4>1, <4>2, NeighbourFresh
      <4> QED BY <3>3, <4>2 DEF NeighboursFresh
    <3> QED BY <2>1, <3>2, <3>4, <3>5 DEF PhaseFresh
  <2> QED BY <2>2, <2>3
<1> QED BY <1>2 DEF InputsFresh

\* Whatever a phase reads, of its chunk's rows and of the neighbours' rows on all
\* servers, is what the chunk's epoch has computed for that very vertex, neither an
\* older nor a newer value (aggregateGCN and aggregateGAT read the ghost tensors
\* without a lock while ghostReceiverGCN and ghostReceiverGAT write to them).  That
\* is as long as no server has stopped before the last epoch (InStep), as one that a
\* weight server has told DONE does: in CPU and GPU builds to the end of the run.
THEOREM InputsAreFresh == Spec => [](InStep => InputsFresh)
<1>1. Init => (InStep => FreshInv /\ RoundInv) /\ DataInv /\ AckInv /\ AlignInv /\ TeamOK
  BY FreshInit, RoundInit, DataInit, AckInit, AlignInit, TeamInit
<1>2. /\ (InStep => FreshInv /\ RoundInv) /\ DataInv /\ AckInv /\ AlignInv /\ TeamOK /\ [Next]_vars
      => (InStep => FreshInv /\ RoundInv)' /\ DataInv' /\ AckInv' /\ AlignInv' /\ TeamOK'
  BY FreshNext, RoundNext, InStepStays, DataNext, AckNext, AlignNext, TeamNext
<1>3. (InStep => FreshInv /\ RoundInv) /\ DataInv /\ AckInv /\ AlignInv => (InStep => InputsFresh)
  BY FreshImplies
<1> QED BY <1>1, <1>2, <1>3, PTL DEF Spec

=============================================================================
