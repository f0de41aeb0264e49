---------------------------- MODULE ExchangeProofs ----------------------------
(***************************************************************************)
(* Theorems about Exchange, for every cluster: any graph, any partition,   *)
(* any number of chunks, layers and epochs.  What dataloader and           *)
(* loadChunks prepare fits together on all graph servers (PartitionFits):  *)
(* facts about any graph come first, and no step changes the configuration.*)
(* recvCnt counts the acknowledgements to come (AcksCounted): AckInv adds  *)
(* that from the test of the counters until they are set back no message   *)
(* is sent (Resetting).  And the k-th barrier of all servers is the same,  *)
(* except the last one of a server that DONE has stopped before the last   *)
(* epoch (BarriersMatch): AlignInv adds that a server's chunks, all over   *)
(* its queues, are all in the gap after the same scatter phase (ChunkAt),  *)
(* and that epoch, gap and waiting thread tell how many barriers a server  *)
(* has entered (Base, Extra).  TypeOK (TypeCorrect) needs what is sent and *)
(* stored to be rows of the graph in values of the epochs and layers:      *)
(* DataInv bounds the values and the batches in flight, in the handlers    *)
(* and in the ghosts, TeamOK the threads and the TERM messages read.  Two  *)
(* more groups of facts are for the theorems of ExchangeRoundProofs: the   *)
(* order of an epoch, which says of every phase that what it reads was due *)
(* or sent before it (Fits, GatherReads), and how far servers are apart as *)
(* long as none has stopped before the last epoch (Rounds, InStep,         *)
(* Together).                                                              *)
(***************************************************************************)
EXTENDS Exchange, ChannelsProofs, FunctionTheorems

-----------------------------------------------------------------------------
(***************************************************************************)
(* What the loaded graph promises, for every graph, every partition and    *)
(* every number of chunks: each ghost has one sender and a row of its own, *)
(* neighbours are at hand, the chunks share out the rows, and degrees      *)
(* agree in directed graphs.                                               *)
(***************************************************************************)
LEMMA ArcsOfVertices ==
  ASSUME NEW g, IsGraph(g)
  PROVE  /\ Arcs(g) \subseteq Vertices(g) \X Vertices(g)
         /\ \A e \in Arcs(g) : g.part[e[1]] \in Servers(g) /\ g.part[e[2]] \in Servers(g)
<1>1. Arcs(g) \subseteq Vertices(g) \X Vertices(g)
  BY DEF IsGraph, Arcs, ReadEdges
<1> QED BY <1>1 DEF Servers

\* forwardDstTables and backwardDstTables against the ghost lists: in both directions
\* and for any partition, each ghost of a server is sent to it by exactly one server,
\* and nothing else is sent.
THEOREM EachGhostServed ==
  ASSUME NEW g, IsGraph(g)
  PROVE  GhostsServed(g)
<1> SUFFICES ASSUME NEW p \in Servers(g), NEW dir \in {"FORWARD", "BACKWARD"}
             PROVE  /\ UNION {GhostMap(g, n, p, dir) : n \in Servers(g)} = Ghosts(g, p, dir)
                    /\ \A n \in Servers(g), m \in Servers(g) :
                         n # m => GhostMap(g, n, p, dir) \cap GhostMap(g, m, p, dir) = {}
  BY DEF GhostsServed
<1>1. CASE dir = "FORWARD"
  <2>1. \A n \in Servers(g) : GhostMap(g, n, p, dir) = ForwardDsts(g, n, p)
    BY <1>1 DEF GhostMap
  <2>2. Ghosts(g, p, dir) = InEdgeGhosts(g, p)
    BY <1>1 DEF Ghosts
  <2>3. UNION {ForwardDsts(g, n, p) : n \in Servers(g)} \subseteq InEdgeGhosts(g, p)
    BY DEF ForwardDsts, InEdgeGhosts
  <2>4. InEdgeGhosts(g, p) \subseteq UNION {ForwardDsts(g, n, p) : n \in Servers(g)}
    <3> SUFFICES ASSUME NEW a \in Arcs(g), g.part[a[2]] = p, g.part[a[1]] # p
                 PROVE  \E n \in Servers(g) : a[1] \in ForwardDsts(g, n, p)
      BY DEF InEdgeGhosts
    <3>1. g.part[a[1]] \in Servers(g)
      BY ArcsOfVertices
    <3>2. a[1] \in ForwardDsts(g, g.part[a[1]], p)
      BY DEF ForwardDsts
    <3> QED BY <3>1, <3>2
  <2>5. \A n, m : n # m => ForwardDsts(g, n, p) \cap ForwardDsts(g, m, p) = {}
    BY DEF ForwardDsts
  <2> QED BY <2>1, <2>2, <2>3, <2>4, <2>5
<1>2. CASE dir = "BACKWARD"
  <2>1. \A n \in Servers(g) : GhostMap(g, n, p, dir) = BackwardDsts(g, n, p)
    BY <1>2 DEF GhostMap
  <2>2. Ghosts(g, p, dir) = OutEdgeGhosts(g, p)
    BY <1>2 DEF Ghosts
  <2>3. UNION {BackwardDsts(g, n, p) : n \in Servers(g)} \subseteq OutEdgeGhosts(g, p)
    BY DEF BackwardDsts, OutEdgeGhosts
  <2>4. OutEdgeGhosts(g, p) \subseteq UNION {BackwardDsts(g, n, p) : n \in Servers(g)}
    <3> SUFFICES ASSUME NEW a \in Arcs(g), g.part[a[1]] = p, g.part[a[2]] # p
                 PROVE  \E n \in Servers(g) : a[2] \in BackwardDsts(g, n, p)
      BY DEF OutEdgeGhosts
    <3>1. g.part[a[2]] \in Servers(g)
      BY ArcsOfVertices
    <3>2. a[2] \in BackwardDsts(g, g.part[a[2]], p)
      BY DEF BackwardDsts
    <3> QED BY <3>1, <3>2
  <2>5. \A n, m : n # m => BackwardDsts(g, n, p) \cap BackwardDsts(g, m, p) = {}
    BY DEF BackwardDsts
  <2> QED BY <2>1, <2>2, <2>3, <2>4, <2>5
<1> QED BY <1>1, <1>2

\* processEdge looks at both ends of every edge: no neighbour of a local vertex is
\* neither local nor a ghost.
THEOREM EachNeighbourKept ==
  ASSUME NEW g, IsGraph(g)
  PROVE  NeighboursKept(g)
<1> SUFFICES ASSUME NEW n \in Servers(g), NEW v \in Local(g, n)
             PROVE  /\ InNeighbours(g, v) \subseteq Local(g, n) \cup InEdgeGhosts(g, n)
                    /\ OutNeighbours(g, v) \subseteq Local(g, n) \cup OutEdgeGhosts(g, n)
  BY DEF NeighboursKept
<1>1. ASSUME NEW a \in Arcs(g), a[2] = v
      PROVE  a[1] \in Local(g, n) \cup InEdgeGhosts(g, n)
  <2>1. g.part[a[2]] = n /\ a[1] \in Vertices(g)
    BY <1>1, ArcsOfVertices DEF Local
  <2> QED BY <2>1 DEF Local, InEdgeGhosts
<1>2. ASSUME NEW a \in Arcs(g), a[1] = v
      PROVE  a[2] \in Local(g, n) \cup OutEdgeGhosts(g, n)
  <2>1. g.part[a[1]] = n /\ a[2] \in Vertices(g)
    BY <1>2, ArcsOfVertices DEF Local
  <2> QED BY <2>1 DEF Local, OutEdgeGhosts
<1> QED BY <1>1, <1>2 DEF InNeighbours, OutNeighbours

-----------------------------------------------------------------------------
(* Rows.                                                                   *)

\* How many members of S come before v.
Rank(S, v) == Cardinality({u \in S : u < v})

\* The ranks in a finite set of numbers are 0, 1, and so on: it is how rows are given
\* to ghosts and local vertices.
LEMMA RankOnto ==
  ASSUME NEW S \in SUBSET Nat, IsFiniteSet(S)
  PROVE  /\ \A v \in S : Rank(S, v) \in 0..Cardinality(S) - 1
         /\ \A v \in S, w \in S : Rank(S, v) = Rank(S, w) => v = w
         /\ {Rank(S, v) : v \in S} = 0..Cardinality(S) - 1
<1> DEFINE Before(v) == {u \in S : u < v}
           N == Cardinality(S)
<1>0. \A v \in S : v \in Nat
  OBVIOUS
<1>1. N \in Nat
  BY FS_CardinalityType
<1>2. \A v \in S : IsFiniteSet(Before(v)) /\ Cardinality(Before(v)) \in Nat
  <2> SUFFICES ASSUME NEW v \in S PROVE IsFiniteSet(Before(v)) /\ Cardinality(Before(v)) \in Nat
    OBVIOUS
  <2>1. Before(v) \in SUBSET S
    OBVIOUS
  <2>2. IsFiniteSet(Before(v))
    BY <2>1, FS_Subset
  <2> QED BY <2>2, FS_CardinalityType
<1>3. ASSUME NEW v \in S PROVE Cardinality(Before(v)) < N
  <2>1. Before(v) \in SUBSET S /\ v \notin Before(v)
    OBVIOUS
  <2>2. Cardinality(Before(v)) <= N /\ (N = Cardinality(Before(v)) => S = Before(v))
    BY <2>1, FS_Subset
  <2> QED BY <1>1, <1>2, <2>1, <2>2
<1>4. ASSUME NEW v \in S, NEW w \in S, v < w
      PROVE  Cardinality(Before(v)) < Cardinality(Before(w))
  <2>1. Before(v) \in SUBSET Before(w)
    <3> SUFFICES ASSUME NEW u \in S, u < v PROVE u < w
      OBVIOUS
    <3>1. u \in Nat /\ v \in Nat /\ w \in Nat
      BY <1>0
    <3> QED BY <1>4, <3>1
  <2>2. v \in Before(w) /\ v \notin Before(v)
    BY <1>4
  <2>3. Cardinality(Before(v)) <= Cardinality(Before(w))
        /\ (Cardinality(Before(w)) = Cardinality(Before(v)) => Before(w) = Before(v))
    BY <1>2, <2>1, FS_Subset
  <2> QED BY <1>2, <2>2, <2>3
<1>5. \A v \in S : Rank(S, v) = Cardinality(Before(v))
  BY DEF Rank
<1> HIDE DEF N
<1>6. \A v \in S : Rank(S, v) \in 0..N - 1
  <2> SUFFICES ASSUME NEW v \in S PROVE Rank(S, v) \in 0..N - 1
    OBVIOUS
  <2> DEFINE r == Cardinality(Before(v))
  <2>1. Rank(S, v) = r /\ r \in Nat /\ r < N
    BY <1>2, <1>3, <1>5
  <2> HIDE DEF r
  <2> QED BY <1>1, <2>1
<1>7. ASSUME NEW v \in S, NEW w \in S, Rank(S, v) = Rank(S, w) PROVE v = w
  <2>1. v < w \/ w < v \/ v = w
    OBVIOUS
  <2>2. Cardinality(Before(v)) = Cardinality(Before(w))
    BY <1>5, <1>7
  <2> QED BY <1>2, <1>4, <2>1, <2>2
<1>8. {Rank(S, v) : v \in S} = 0..N - 1
  <2> DEFINE f == [v \in S |-> Rank(S, v)]
  <2>1. f \in Injection(S, 0..N - 1)
    BY <1>6, <1>7 DEF Injection, IsInjective
  <2>2. IsFiniteSet(0..N - 1) /\ Cardinality(0..N - 1) = N
    BY <1>1, FS_Interval
  <2>3. f \in Surjection(S, 0..N - 1)
    BY <2>1, <2>2, FS_Injection DEF N
  <2>4. \A r \in 0..N - 1 : \E v \in S : f[v] = r
    BY <2>3 DEF Surjection
  <2> QED BY <1>6, <2>4
<1> QED BY <1>6, <1>7, <1>8 DEF N

LEMMA GhostsAreVertices ==
  ASSUME NEW g, IsGraph(g), NEW n, NEW dir
  PROVE  Ghosts(g, n, dir) \in SUBSET Nat /\ IsFiniteSet(Ghosts(g, n, dir))
<1>1. Ghosts(g, n, dir) \in SUBSET Vertices(g)
  BY ArcsOfVertices DEF Ghosts, InEdgeGhosts, OutEdgeGhosts
<1>2. IsFiniteSet(Vertices(g)) /\ Vertices(g) \subseteq Nat
  BY DEF IsGraph
<1> QED BY <1>1, <1>2, FS_Subset

\* preprocess counts the ghosts' local ids on from the local vertices': no two ghosts
\* share a row of a ghost tensor, and the tensor has no row too many or too few.
THEOREM EachGhostARow ==
  ASSUME NEW g, IsGraph(g)
  PROVE  GhostRowsApart(g)
<1> SUFFICES ASSUME NEW n \in Servers(g), NEW dir \in {"FORWARD", "BACKWARD"}
             PROVE  {GhostRow(g, n, dir, v) : v \in Ghosts(g, n, dir)}
                      = 0..Cardinality(Ghosts(g, n, dir)) - 1
  BY DEF GhostRowsApart
<1> DEFINE S == Ghosts(g, n, dir)
<1>1. \A v \in S : GhostRow(g, n, dir, v) = Rank(S, v)
  BY DEF GhostRow, Rank
<1>2. {GhostRow(g, n, dir, v) : v \in S} = {Rank(S, v) : v \in S}
  BY <1>1
<1>3. S \in SUBSET Nat /\ IsFiniteSet(S)
  BY GhostsAreVertices
<1>4. {Rank(S, v) : v \in S} = 0..Cardinality(S) - 1
  BY <1>3, RankOnto
<1> QED BY <1>2, <1>4

\* readPartsFile gives the local vertices the rows 0 to localVtxCnt - 1, one each.
THEOREM EachVertexARow ==
  ASSUME NEW g, IsGraph(g), NEW n
  PROVE  /\ {LocalId(g, n, v) : v \in Local(g, n)} = 0..LocalVtxCnt(g, n) - 1
         /\ \A v \in Local(g, n), w \in Local(g, n) :
              LocalId(g, n, v) = LocalId(g, n, w) => v = w
<1> DEFINE S == Local(g, n)
<1>1. S \in SUBSET Vertices(g)
  BY DEF Local
<1>2. IsFiniteSet(Vertices(g)) /\ Vertices(g) \subseteq Nat
  BY DEF IsGraph
<1>3. S \in SUBSET Nat /\ IsFiniteSet(S)
  BY <1>1, <1>2, FS_Subset
<1>4. \A v \in S : LocalId(g, n, v) = Rank(S, v)
  BY DEF LocalId, Rank
<1>5. /\ \A v \in S, w \in S : Rank(S, v) = Rank(S, w) => v = w
      /\ {Rank(S, v) : v \in S} = 0..Cardinality(S) - 1
  BY <1>3, RankOnto
<1>6. {LocalId(g, n, v) : v \in S} = {Rank(S, v) : v \in S}
  BY <1>4
<1> QED BY <1>4, <1>5, <1>6 DEF LocalVtxCnt

\* setEdgeNormalizations and findGhostDegrees: in a directed graph the degree that the
\* others count for a ghost is the degree that its owner counts.
THEOREM DegreesAgree ==
  ASSUME NEW g, IsGraph(g), ~g.undirected, NEW v
  PROVE  NumInEdges(g, v) = GhostDegree(g, v)
<1> DEFINE E == {e \in ReadEdges(g) : e[2] = v}
<1>1. Arcs(g) = ReadEdges(g)
  BY DEF Arcs
<1>2. InNeighbours(g, v) = {e[1] : e \in E}
  BY <1>1 DEF InNeighbours
<1>3. E \in SUBSET (Vertices(g) \X Vertices(g))
  BY DEF ReadEdges, IsGraph
<1>4. IsFiniteSet(Vertices(g) \X Vertices(g))
  BY FS_Product DEF IsGraph
<1>5. IsFiniteSet(E)
  BY <1>3, <1>4, FS_Subset
<1> DEFINE f == [e \in E |-> e[1]]
<1>6. \A e, d \in E : e[1] = d[1] => e = d
  BY <1>3
<1>7. f \in Surjection(E, InNeighbours(g, v)) /\ f \in Injection(E, InNeighbours(g, v))
  BY <1>2, <1>6 DEF Surjection, Injection, IsInjective
<1>8. Cardinality(InNeighbours(g, v)) = Cardinality(E)
  BY <1>5, <1>7, FS_Surjection
<1> QED BY <1>8 DEF NumInEdges, GhostDegree

-----------------------------------------------------------------------------
(* Chunks.                                                                 *)

\* loadChunks: whatever the number of vertices and of chunks, every row is in one
\* chunk; chunks that start beyond the last vertex have no rows.
THEOREM ChunksShareOut ==
  ASSUME NEW cnt \in Nat, NEW num \in Nat \ {0}
  PROVE  ChunksCover(cnt, num)
<1> DEFINE z == ChunkSize(cnt, num)
<1>1. z \in Nat /\ z * num >= cnt
  <2> DEFINE a == cnt + num - 1
  <2>1. a \in Nat /\ num \in Nat /\ num > 0
    OBVIOUS
  <2>2. (a \div num) \in Nat /\ (a \div num) * num <= a /\ a < (a \div num) * num + num
    BY <2>1, Z3
  <2>3. z = a \div num
    BY DEF ChunkSize
  <2> HIDE DEF z
  <2> QED BY <2>1, <2>2, <2>3
<1>2. \A i \in 0..num - 1 : \A r : r \in ChunkRows(cnt, num, i) <=>
        r \in 0..cnt - 1 /\ i * z <= r /\ r < i * z + z
  <2> SUFFICES ASSUME NEW i \in 0..num - 1, NEW r \in 0..cnt - 1
               PROVE  r < UpBound(cnt, num, i) <=> r < i * z + z
    BY DEF ChunkRows, LowBound
  <2>1. UpBound(cnt, num, i) = IF i * z + z < cnt THEN i * z + z ELSE cnt
    BY DEF UpBound, LowBound
  <2>2. i * z \in Nat
    BY <1>1
  <2> HIDE DEF z
  <2> QED BY <1>1, <2>1, <2>2
<1> HIDE DEF z
<1>3. ASSUME NEW r \in 0..cnt - 1
      PROVE  \E i \in 0..num - 1 : i * z <= r /\ r < i * z + z
  <2>1. z > 0
    BY <1>1
  <2> DEFINE q == r \div z
  <2>2. q \in Nat /\ q * z <= r /\ r < q * z + z
    BY <1>1, <2>1, Z3
  <2> HIDE DEF q
  <2>3. q * z < num * z
    BY <1>1, <2>2
  <2>4. q < num
    BY <1>1, <2>1, <2>2, <2>3
  <2> QED BY <2>2, <2>4
<1>4. ASSUME NEW i \in 0..num - 1, NEW j \in 0..num - 1, i < j
      PROVE  i * z + z <= j * z
  BY <1>1, <1>4
<1>5. UNION {ChunkRows(cnt, num, i) : i \in 0..num - 1} = 0..cnt - 1
  BY <1>2, <1>3
<1>6. ASSUME NEW i \in 0..num - 1, NEW j \in 0..num - 1, i # j,
             NEW r, r \in ChunkRows(cnt, num, i), r \in ChunkRows(cnt, num, j)
      PROVE  FALSE
  <2>1. r \in Int /\ i * z <= r /\ r < i * z + z /\ j * z <= r /\ r < j * z + z
    BY <1>2, <1>6
  <2>2. i * z \in Nat /\ j * z \in Nat
    BY <1>1
  <2>3. i < j \/ j < i
    BY <1>6
  <2> QED BY <1>1, <1>4, <2>1, <2>2, <2>3
<1>7. \A i, j \in 0..num - 1 : i # j => ChunkRows(cnt, num, i) \cap ChunkRows(cnt, num, j) = {}
  BY <1>6
<1> QED BY <1>5, <1>7 DEF ChunksCover

-----------------------------------------------------------------------------
(* The configuration.                                                      *)

\* All but the receiver threads' number and the TERM messages that were read.
kept == <<conf, queues, run, scheduler, scatterer, counters, net, hand, checks, data>>

\* A step is one of the chunks' or of the barriers', or leaves all of that alone: a
\* receiver thread that ends and a TERM message that is read do.
LEMMA Steps ==
  ASSUME [Next]_vars
  PROVE  \/ \E n \in Node : Main(n) \/ Schedule(n) \/ Scatter(n) \/ Receive(n)
         \/ \E n \in Node : \E i \in ChunkId : Work(n, i)
         \/ UNCHANGED kept
<1>1. CASE UNCHANGED vars
  BY <1>1 DEF vars, kept, receivers
<1>2. CASE Stopped
  BY <1>2 DEF Stopped, vars, kept, receivers
<1>3. ASSUME NEW n \in Node, ReceiverEnds(n) \/ RecvTerm(n)
      PROVE  UNCHANGED kept
  BY <1>3 DEF ReceiverEnds, RecvTerm, kept
<1> QED BY <1>1, <1>2, <1>3 DEF Next

\* No step changes the graph, the build or the number of chunks.
LEMMA ConfKept ==
  ASSUME [Next]_vars
  PROVE  conf' = conf
<1>1. CASE UNCHANGED kept
  BY <1>1 DEF kept
<1>2. ASSUME NEW n \in Node, Main(n)
      PROVE  conf' = conf
  BY <1>2 DEF Main, StartBarrier, LoadChunks, EndBarrier, Done
<1>3. ASSUME NEW n \in Node, Schedule(n)
      PROVE  conf' = conf
  BY <1>3 DEF Schedule, SchedHalt, SchedBarrier, SchedUnblock, SchedStart, SchedPass
<1>4. ASSUME NEW n \in Node, Scatter(n)
      PROVE  conf' = conf
  BY <1>4 DEF Scatter, ScatterWait, ScatterLeave, ScatterReset, BeginBarrier, BeginScatter,
              ScatterPop, VerticesPushOut, Count, ScatterStash
<1>5. ASSUME NEW n \in Node, Receive(n)
      PROVE  conf' = conf
  BY <1>5 DEF Receive, RecvValues, RecvAck, StoreValues, Check
<1>6. ASSUME NEW n \in Node, NEW i \in ChunkId, Work(n, i)
      PROVE  conf' = conf
  BY <1>6 DEF Work, Gather, ApplyVertex, ApplyEdge
<1> QED BY <1>1, <1>2, <1>3, <1>4, <1>5, <1>6, Steps

\* A configuration's graph and chunks fit together on all servers.
LEMMA ConfFits ==
  ASSUME conf \in Confs
  PROVE  PartitionOK
<1> DEFINE g == conf.graph
           num == conf.numLambdas
<1>1. IsGraph(g) /\ num \in Nat \ {0}
  BY ExchangeOK
<1> HIDE DEF g
<1>2. GhostsServed(g)
  BY <1>1, EachGhostServed
<1>3. GhostRowsApart(g)
  BY <1>1, EachGhostARow
<1>4. NeighboursKept(g)
  BY <1>1, EachNeighbourKept
<1>5. ASSUME NEW n \in Node
      PROVE  ChunksCover(LocalVtxCnt(g, n), num)
  <2>1. Local(g, n) \in SUBSET Vertices(g)
    BY DEF Local
  <2>2. IsFiniteSet(Local(g, n))
    BY <1>1, <2>1, FS_Subset DEF IsGraph
  <2>3. LocalVtxCnt(g, n) \in Nat
    BY <2>2, FS_CardinalityType DEF LocalVtxCnt
  <2> QED BY <1>1, <2>3, ChunksShareOut
<1>6. ASSUME ~g.undirected, NEW v \in Vertices(g)
      PROVE  NumInEdges(g, v) = GhostDegree(g, v)
  BY <1>1, <1>6, DegreesAgree
<1> QED BY <1>2, <1>3, <1>4, <1>5, <1>6 DEF PartitionOK, g

\* For every cluster: when the servers start, each ghost has one sender and a row of
\* its own, neighbours are at hand, the chunks share out the vertices and degrees of
\* ghosts are right in a directed graph (dataloader.cpp, Engine::loadChunks).
THEOREM PartitionFits == Spec => []PartitionOK
<1> DEFINE Inv == conf \in Confs
<1>1. Init => Inv
  BY DEF Init
<1>2. Inv /\ [Next]_vars => Inv'
  BY ConfKept
<1>3. Inv => PartitionOK
  BY ConfFits
<1> HIDE DEF Inv
<1> QED BY <1>1, <1>2, <1>3, PTL DEF Spec

-----------------------------------------------------------------------------
(***************************************************************************)
(* Acknowledgements.  recvCnt, the messages that are counted, and those    *)
(* that are sent and not yet counted, add up to what is on its way.  The   *)
(* counters are set back when they are complete and no chunk is being      *)
(* scattered, so that nothing is forgotten.                                *)
(***************************************************************************)
Uncounted(n) == {i \in ChunkId : place[n][i] = "count"}

Balanced(n) ==
  recvCnt[n] + Cardinality(Uncounted(n))
    = Cardinality(SentBy(net, n, "data")) + Cardinality(SentTo(net, n, "ack"))

\* From the test of the counters on, until they are set back.
Quiet(n) == recvCnt[n] = 0 /\ \A i \in ChunkId : place[n][i] = "stash"

AckTypes ==
  /\ conf \in Confs /\ Wired(net, Node) /\ recvCnt \in [Node -> Int]
  /\ place \in [Node -> [ChunkId -> Place]]
  /\ \A n \in Node, i \in ChunkId : \A b \in todo[n][i] : b.to \in Node
  /\ DOMAIN todo = Node /\ \A n \in Node : DOMAIN todo[n] = ChunkId
  /\ DOMAIN scatter = Node /\ DOMAIN where = Node

Resetting(n) ==
  /\ where[n] = "scatter" => scatter[n] = "barrier"
  /\ scatter[n] \in {"barrier", "reset"} => Quiet(n)

AckInv ==
  /\ AckTypes
  /\ \A n \in Node : Balanced(n) /\ Resetting(n)

-----------------------------------------------------------------------------
LEMMA ConfFacts ==
  ASSUME conf \in Confs
  PROVE  /\ IsGraph(conf.graph) /\ IsFiniteSet(Node) /\ IsFiniteSet(ChunkId)
         /\ conf.numLambdas \in Nat \ {0} /\ 0 \in ChunkId
<1>1. IsGraph(conf.graph) /\ conf.numLambdas \in Nat \ {0}
  BY ExchangeOK
<1>2. IsFiniteSet(Node)
  <2>1. IsFiniteSet(Vertices(conf.graph))
    BY <1>1 DEF IsGraph
  <2> DEFINE f == [v \in Vertices(conf.graph) |-> conf.graph.part[v]]
  <2>2. \A n \in Node : \E v \in Vertices(conf.graph) : f[v] = n
    BY DEF Node, Servers
  <2>3. f \in [Vertices(conf.graph) -> Node]
    BY DEF Node, Servers
  <2>4. f \in Surjection(Vertices(conf.graph), Node)
    BY <2>2, <2>3 DEF Surjection
  <2> QED BY <2>1, <2>4, FS_Surjection
<1>3. IsFiniteSet(ChunkId)
  BY <1>1, FS_Interval DEF ChunkId
<1>4. 0 \in ChunkId
  BY <1>1 DEF ChunkId
<1> QED BY <1>1, <1>2, <1>3, <1>4

LEMMA AckFacts ==
  ASSUME AckInv
  PROVE  /\ conf \in Confs /\ Wired(net, Node) /\ recvCnt \in [Node -> Int]
         /\ place \in [Node -> [ChunkId -> Place]]
         /\ DOMAIN todo = Node /\ (\A n \in Node : DOMAIN todo[n] = ChunkId)
         /\ DOMAIN scatter = Node /\ DOMAIN where = Node
         /\ \A n \in Node : /\ Balanced(n) /\ Resetting(n)
                            /\ IsFiniteSet(Uncounted(n))
                            /\ Cardinality(Uncounted(n)) \in Nat
                            /\ Cardinality(SentBy(net, n, "data")) \in Nat
                            /\ Cardinality(SentTo(net, n, "ack")) \in Nat
<1>1. /\ conf \in Confs /\ Wired(net, Node) /\ recvCnt \in [Node -> Int]
      /\ place \in [Node -> [ChunkId -> Place]]
      /\ DOMAIN todo = Node /\ (\A n \in Node : DOMAIN todo[n] = ChunkId)
      /\ DOMAIN scatter = Node /\ DOMAIN where = Node
      /\ \A n \in Node : Balanced(n) /\ Resetting(n)
  BY DEF AckInv, AckTypes
<1>2. IsFiniteSet(ChunkId)
  BY <1>1, ConfFacts
<1>3. ASSUME NEW n \in Node
      PROVE  IsFiniteSet(Uncounted(n)) /\ Cardinality(Uncounted(n)) \in Nat
  <2>1. Uncounted(n) \subseteq ChunkId
    BY DEF Uncounted
  <2> QED BY <1>2, <2>1, FS_Subset, FS_CardinalityType
<1>4. ASSUME NEW n \in Node
      PROVE  /\ Cardinality(SentBy(net, n, "data")) \in Nat
             /\ Cardinality(SentTo(net, n, "ack")) \in Nat
  BY <1>1, CountsNat
<1> QED BY <1>1, <1>3, <1>4

LEMMA AckInit == Init => AckInv
<1> SUFFICES ASSUME Init PROVE AckInv
  OBVIOUS
<1>1. conf \in Confs
  BY DEF Init
<1>2. IsFiniteSet(Node) /\ IsFiniteSet(ChunkId)
  BY <1>1, ConfFacts
<1>3. \A n \in Node, m \in Node : net[n][m] = <<>>
  BY DEF Init
<1>4. IsQueue(<<>>) /\ \A k : Places(<<>>, k) = {}
  <2>1. Len(<<>>) = 0 /\ DOMAIN <<>> = {}
    OBVIOUS
  <2> QED BY <2>1, QueueEmpty DEF Places
<1>5. Wired(net, Node)
  BY <1>2, <1>3, <1>4 DEF Init, Wired
<1>6. AckTypes
  <2>1. /\ recvCnt \in [Node -> Int]
        /\ DOMAIN todo = Node /\ (\A n \in Node : DOMAIN todo[n] = ChunkId)
        /\ DOMAIN scatter = Node /\ DOMAIN where = Node
    <3>1. /\ recvCnt = [n \in Node |-> 0] /\ todo = [n \in Node |-> [i \in ChunkId |-> {}]]
          /\ scatter = [n \in Node |-> "run"] /\ where = [n \in Node |-> ""]
      BY DEF Init
    <3>2. recvCnt \in [Node -> Int]
      <4>1. recvCnt = [n \in Node |-> 0]
        BY <3>1
      <4>2. 0 \in Int
        OBVIOUS
      <4> QED BY <4>1, <4>2, Zenon
    <3>3. DOMAIN todo = Node /\ (\A n \in Node : DOMAIN todo[n] = ChunkId)
      BY <3>1
    <3>4. DOMAIN scatter = Node /\ DOMAIN where = Node
      BY <3>1
    <3> QED BY <3>2, <3>3, <3>4
  <2>2. \A n \in Node, i \in ChunkId : todo[n][i] = {}
    BY DEF Init
  <2>3. place \in [Node -> [ChunkId -> Place]]
    <3>1. "sch" \in Place
      BY DEF Place
    <3> QED BY <3>1 DEF Init
  <2> QED BY <1>1, <1>5, <2>1, <2>2, <2>3 DEF AckTypes
<1>7. ASSUME NEW n \in Node
      PROVE  Balanced(n) /\ Resetting(n)
  <2>1. Uncounted(n) = {}
    BY DEF Init, Uncounted
  <2>2. Cardinality({}) = 0
    BY FS_EmptySet
  <2>3. (\A t \in Node : Places(net[n][t], "data") = {}) /\ (\A t \in Node : Places(net[t][n], "ack") = {})
    BY <1>3, <1>4
  <2>4. Cardinality(SentBy(net, n, "data")) = 0
    BY <1>5, <2>3, CountsZero
  <2>5. Cardinality(SentTo(net, n, "ack")) = 0
    BY <1>5, <2>3, CountsZero
  <2>6. recvCnt[n] = 0 /\ where[n] = "" /\ scatter[n] = "run"
    BY DEF Init
  <2>7. Balanced(n)
    BY <2>1, <2>2, <2>4, <2>5, <2>6 DEF Balanced
  <2> QED BY <2>6, <2>7 DEF Resetting
<1> QED BY <1>6, <1>7 DEF AckInv

-----------------------------------------------------------------------------
(* Steps that neither send, receive nor count.                             *)

Uninvolved == UNCHANGED <<conf, net, recvCnt>>

\* One chunk goes from one queue to another.
Moves(n, i, p, q) == place[n][i] = p /\ place' = [place EXCEPT ![n][i] = q]

LEMMA MoveTypes ==
  ASSUME AckInv, conf' = conf, NEW n \in Node, NEW i \in ChunkId, NEW p, NEW q \in Place,
         Moves(n, i, p, q)
  PROVE  /\ place' \in [Node -> [ChunkId -> Place]]
         /\ place'[n][i] = q
         /\ \A m \in Node, j \in ChunkId : <<m, j>> # <<n, i>> => place'[m][j] = place[m][j]
BY AckFacts DEF Moves

LEMMA MoveCounts ==
  ASSUME AckInv, conf' = conf, NEW n \in Node, NEW i \in ChunkId, NEW p, NEW q \in Place,
         Moves(n, i, p, q)
  PROVE  /\ \A m \in Node \ {n} : Uncounted(m)' = Uncounted(m)
         /\ p # "count" /\ q # "count" => Uncounted(n)' = Uncounted(n)
         /\ p # "count" /\ q = "count" =>
              Cardinality(Uncounted(n)') = Cardinality(Uncounted(n)) + 1
         /\ p = "count" /\ q # "count" =>
              Cardinality(Uncounted(n)') = Cardinality(Uncounted(n)) - 1
<1>1. /\ place' \in [Node -> [ChunkId -> Place]]
      /\ place'[n][i] = q
      /\ \A m \in Node, j \in ChunkId : <<m, j>> # <<n, i>> => place'[m][j] = place[m][j]
  BY MoveTypes
<1>2. ChunkId' = ChunkId
  BY DEF ChunkId
<1>3. \A m \in Node \ {n} : Uncounted(m)' = Uncounted(m)
  BY <1>1, <1>2 DEF Uncounted
<1>4. IsFiniteSet(Uncounted(n))
  BY AckFacts
<1>5. p # "count" /\ q # "count" => Uncounted(n)' = Uncounted(n)
  BY <1>1, <1>2 DEF Uncounted, Moves
<1>6. ASSUME p # "count", q = "count"
      PROVE  Cardinality(Uncounted(n)') = Cardinality(Uncounted(n)) + 1
  <2>1. Uncounted(n)' = Uncounted(n) \cup {i} /\ i \notin Uncounted(n)
    BY <1>1, <1>2, <1>6 DEF Uncounted, Moves
  <2> QED BY <1>4, <2>1, FS_AddElement
<1>7. ASSUME p = "count", q # "count"
      PROVE  Cardinality(Uncounted(n)') = Cardinality(Uncounted(n)) - 1
  <2>1. Uncounted(n)' = Uncounted(n) \ {i} /\ i \in Uncounted(n)
    BY <1>1, <1>2, <1>7 DEF Uncounted, Moves
  <2> QED BY <1>4, <2>1, FS_RemoveElement
<1> QED BY <1>3, <1>5, <1>6, <1>7

\* The barrier and the scatter thread's state do not change in a way that matters.
Calm ==
  /\ DOMAIN scatter' = Node /\ DOMAIN where' = Node
  /\ \A n \in Node : /\ where'[n] = "scatter" => where[n] = "scatter"
                     /\ scatter'[n] \in {"barrier", "reset"} <=> scatter[n] \in {"barrier", "reset"}
                     /\ where'[n] = "scatter" => scatter'[n] = scatter[n]

LEMMA CalmSame ==
  ASSUME AckInv, UNCHANGED <<where, scatter>>
  PROVE  Calm
BY AckFacts DEF Calm

\* A chunk that moves is not in the stash of a scatter thread that waits at the barrier.
LEMMA CalmKeeps ==
  ASSUME AckInv, Calm, conf' = conf,
         \A n \in Node : Quiet(n) => recvCnt'[n] = recvCnt[n] /\ place'[n] = place[n]
  PROVE  \A n \in Node : Resetting(n)'
<1>1. ChunkId' = ChunkId
  BY DEF ChunkId
<1>2. ASSUME NEW n \in Node
      PROVE  Resetting(n)'
  <2>1. Resetting(n)
    BY AckFacts
  <2>2. where'[n] = "scatter" => scatter'[n] = "barrier"
    BY <2>1 DEF Calm, Resetting
  <2>3. ASSUME scatter'[n] \in {"barrier", "reset"}
        PROVE  Quiet(n)'
    <3>1. Quiet(n)
      BY <2>1, <2>3 DEF Calm, Resetting
    <3>2. recvCnt'[n] = recvCnt[n] /\ place'[n] = place[n]
      BY <3>1
    <3> QED BY <1>1, <3>1, <3>2 DEF Quiet
  <2> QED BY <2>2, <2>3 DEF Resetting
<1> QED BY <1>2

\* What a step has to show.
LEMMA AckStep ==
  ASSUME AckInv, conf' = conf, Wired(net', Node), recvCnt' \in [Node -> Int],
         place' \in [Node -> [ChunkId -> Place]],
         \A n \in Node, i \in ChunkId : \A b \in todo'[n][i] : b.to \in Node,
         DOMAIN todo' = Node, \A n \in Node : DOMAIN todo'[n] = ChunkId,
         DOMAIN scatter' = Node, DOMAIN where' = Node,
         \A n \in Node : Balanced(n)', \A n \in Node : Resetting(n)'
  PROVE  AckInv'
<1>1. Node' = Node /\ ChunkId' = ChunkId
  BY DEF Node, ChunkId
<1>2. conf' \in Confs
  BY AckFacts
<1>3. AckTypes'
  BY <1>1, <1>2 DEF AckTypes, Place
<1>4. \A n \in Node' : Balanced(n)' /\ Resetting(n)'
  BY <1>1
<1> QED BY <1>3, <1>4 DEF AckInv

LEMMA TodoSame ==
  ASSUME AckInv, todo' = todo
  PROVE  /\ \A n \in Node, i \in ChunkId : \A b \in todo'[n][i] : b.to \in Node
         /\ DOMAIN todo' = Node /\ \A n \in Node : DOMAIN todo'[n] = ChunkId
BY DEF AckInv, AckTypes

LEMMA UninvolvedBalanced ==
  ASSUME AckInv, Uninvolved, \A n \in Node : Uncounted(n)' = Uncounted(n)
  PROVE  \A n \in Node : Balanced(n)'
<1>1. ASSUME NEW n \in Node
      PROVE  Balanced(n)'
  <2>1. Balanced(n) /\ Uncounted(n)' = Uncounted(n)
    BY AckFacts
  <2> HIDE DEF Uncounted
  <2> QED BY <2>1 DEF Balanced, Uninvolved
<1> QED BY <1>1

\* Nothing but the run of the server goes on.
LEMMA UninvolvedKeeps ==
  ASSUME AckInv, Uninvolved, Calm, UNCHANGED <<place, todo>>
  PROVE  AckInv'
<1>1. conf' = conf /\ recvCnt' = recvCnt /\ net' = net
  BY DEF Uninvolved
<1>2. \A n \in Node : Uncounted(n)' = Uncounted(n)
  BY <1>1 DEF Uncounted, ChunkId
<1>3. \A n \in Node : Balanced(n)'
  BY <1>2, UninvolvedBalanced
<1>4. \A n \in Node : Resetting(n)'
  BY <1>1, CalmKeeps
<1> QED BY <1>1, <1>3, <1>4, AckFacts, TodoSame, AckStep DEF Calm

\* A chunk goes on that is neither in the stash nor being counted.
LEMMA MoveKeeps ==
  ASSUME AckInv, Uninvolved, UNCHANGED <<where, scatter>>,
         \A n \in Node, i \in ChunkId : \A b \in todo'[n][i] : b.to \in Node,
         DOMAIN todo' = Node, \A n \in Node : DOMAIN todo'[n] = ChunkId,
         NEW n \in Node, NEW i \in ChunkId, NEW p, NEW q \in Place, Moves(n, i, p, q),
         p # "count", q # "count", p # "stash"
  PROVE  AckInv'
<1>1. conf' = conf /\ recvCnt' = recvCnt /\ net' = net
  BY DEF Uninvolved
<1>2. /\ place' \in [Node -> [ChunkId -> Place]]
      /\ \A m \in Node, j \in ChunkId : <<m, j>> # <<n, i>> => place'[m][j] = place[m][j]
  BY <1>1, MoveTypes
<1>3. \A m \in Node : Uncounted(m)' = Uncounted(m)
  BY <1>1, MoveCounts
<1>4. \A m \in Node : Balanced(m)'
  BY <1>3, UninvolvedBalanced
<1>5. ASSUME NEW m \in Node, Quiet(m)
      PROVE  recvCnt'[m] = recvCnt[m] /\ place'[m] = place[m]
  <2>1. m # n
    BY <1>5 DEF Quiet, Moves
  <2> QED BY <1>1, <2>1, AckFacts DEF Moves
<1>6. \A m \in Node : Resetting(m)'
  BY <1>1, <1>5, CalmSame, CalmKeeps
<1> QED BY <1>1, <1>2, <1>4, <1>6, AckFacts, AckStep

LEMMA EnterCalm ==
  ASSUME AckInv, NEW n \in Node, NEW s, s # "scatter", Enter(n, s), scatter' = scatter
  PROVE  Calm
<1>1. where' = [where EXCEPT ![n] = s]
  BY DEF Enter
<1> QED BY <1>1, AckFacts DEF Calm

LEMMA LeaveCalm ==
  ASSUME AckInv, NEW n \in Node, NEW s, Leave(n, s), scatter' = scatter
  PROVE  Calm
<1>1. where' = [where EXCEPT ![n] = ""]
  BY DEF Leave
<1> QED BY <1>1, AckFacts DEF Calm

LEMMA MainKeeps ==
  ASSUME AckInv, NEW n \in Node, Main(n)
  PROVE  AckInv'
<1>1. Uninvolved /\ UNCHANGED <<place, todo, scatter>>
  BY DEF Main, StartBarrier, LoadChunks, EndBarrier, Done, Uninvolved, queues, scatterer, counters
<1>2. Calm
  BY <1>1, EnterCalm, LeaveCalm DEF Main, StartBarrier, LoadChunks, EndBarrier, Done
<1> QED BY <1>1, <1>2, UninvolvedKeeps

\* A chunk moves, and todo does not change.
LEMMA SendKeeps ==
  ASSUME AckInv, Uninvolved, UNCHANGED <<where, scatter, todo>>,
         NEW n \in Node, NEW i \in ChunkId, NEW p, NEW q \in Place \ {"count"}, NEW c,
         InQueue(n, i, p), Send(n, i, q, c), p # "count", p # "stash"
  PROVE  AckInv'
<1>1. Moves(n, i, p, q)
  BY DEF InQueue, Send, Moves
<1> QED BY <1>1, TodoSame, MoveKeeps

LEMMA ScheduleKeeps ==
  ASSUME AckInv, NEW n \in Node, Schedule(n)
  PROVE  AckInv'
<1>1. CASE SchedHalt(n)
  <2>1. Uninvolved /\ UNCHANGED <<place, todo, scatter, where>>
    BY <1>1 DEF SchedHalt, Uninvolved, queues, scatterer, counters
  <2> QED BY <2>1, CalmSame, UninvolvedKeeps
<1>2. CASE SchedBarrier(n) \/ SchedUnblock(n)
  <2>1. Uninvolved /\ UNCHANGED <<place, todo, scatter>>
    BY <1>2 DEF SchedBarrier, SchedUnblock, Uninvolved, queues, scatterer, counters
  <2>2. Calm
    BY <1>2, <2>1, EnterCalm, LeaveCalm DEF SchedBarrier, SchedUnblock
  <2> QED BY <2>1, <2>2, UninvolvedKeeps
<1>3. ASSUME NEW i \in ChunkId, SchedStart(n, i) \/ SchedPass(n, i)
      PROVE  AckInv'
  <2>1. Uninvolved /\ UNCHANGED <<where, scatter, todo>>
    BY <1>3 DEF SchedStart, SchedPass, Uninvolved, counters, run, scatterer
  <2>2. InQueue(n, i, "sch") /\ Send(n, i, FirstQueue, chunk[n][i])
    BY <1>3 DEF SchedStart, SchedPass, Schedulable
  <2>3. FirstQueue \in Place \ {"count"}
    BY DEF FirstQueue, Place
  <2> QED BY <2>1, <2>2, <2>3, SendKeeps
<1> QED BY <1>1, <1>2, <1>3 DEF Schedule

LEMMA WorkKeeps ==
  ASSUME AckInv, NEW n \in Node, NEW i \in ChunkId, Work(n, i)
  PROVE  AckInv'
<1>1. Uninvolved /\ UNCHANGED <<where, scatter, todo>>
  BY DEF Work, Gather, ApplyVertex, ApplyEdge, Uninvolved, counters, run, scatterer
<1>2. {"SC", "AV", "sch", "GA"} \subseteq Place \ {"count"}
  BY DEF Place
<1>3. CASE Gather(n, i)
  <2>1. PICK q, c : q \in {"SC", "AV"} /\ InQueue(n, i, "GA") /\ Send(n, i, q, c)
    BY <1>3 DEF Gather
  <2> QED BY <1>1, <1>2, <2>1, SendKeeps
<1>4. CASE ApplyVertex(n, i)
  <2>1. PICK q, c : q \in {"SC", "sch"} /\ InQueue(n, i, "AV") /\ Send(n, i, q, c)
    <3>1. PICK c : c = Applied(chunk[n][i])
      OBVIOUS
    <3>2. /\ InQueue(n, i, "AV")
          /\ CASE IsLastLayer(c) -> Send(n, i, "sch", Inc(c))
               [] ~IsLastLayer(c) /\ c.dir = "FORWARD" -> Send(n, i, "SC", Inc(c))
               [] OTHER -> Send(n, i, "SC", c)
      BY <1>4, <3>1 DEF ApplyVertex
    <3>3. Send(n, i, "sch", Inc(c)) \/ Send(n, i, "SC", Inc(c)) \/ Send(n, i, "SC", c)
      <4>1. CASE IsLastLayer(c)
        BY <3>2, <4>1
      <4>2. CASE ~IsLastLayer(c) /\ c.dir = "FORWARD"
        BY <3>2, <4>2
      <4>3. CASE ~IsLastLayer(c) /\ c.dir # "FORWARD"
        BY <3>2, <4>3
      <4> QED BY <4>1, <4>2, <4>3
    <3> QED BY <3>2, <3>3
  <2> QED BY <1>1, <1>2, <2>1, SendKeeps
<1>5. CASE ApplyEdge(n, i)
  <2>1. PICK c : InQueue(n, i, "AE") /\ Send(n, i, "GA", c)
    BY <1>5 DEF ApplyEdge
  <2> QED BY <1>1, <1>2, <2>1, SendKeeps
<1> QED BY <1>3, <1>4, <1>5 DEF Work

LEMMA ScatterWaitKeeps ==
  ASSUME AckInv, NEW n \in Node, ScatterWait(n)
  PROVE  AckInv'
<1>1. Uninvolved /\ UNCHANGED <<place, todo>>
  BY DEF ScatterWait, Uninvolved, queues, counters
<1>2. where[n] = "" /\ scatter[n] \in {"run", "woken"}
      /\ \A i \in ChunkId : place[n][i] = "stash"
  BY DEF ScatterWait, AllIn, InQueue
<1>3. DOMAIN scatter = Node /\ DOMAIN where = Node
  BY AckFacts
<1>4. CASE scatter' = [scatter EXCEPT ![n] = "wait"] /\ UNCHANGED where
  <2>1. Calm
    BY <1>2, <1>3, <1>4 DEF Calm
  <2> QED BY <1>1, <2>1, UninvolvedKeeps
<1>5. CASE Complete(n) /\ scatter' = [scatter EXCEPT ![n] = "barrier"] /\ Enter(n, "scatter")
  <2>1. conf' = conf /\ recvCnt' = recvCnt /\ net' = net
    BY <1>1 DEF Uninvolved
  <2>2. Node' = Node /\ ChunkId' = ChunkId
    BY <2>1 DEF Node, ChunkId
  <2>3. \A m \in Node : Uncounted(m)' = Uncounted(m)
    BY <1>1, <2>2 DEF Uncounted
  <2>4. \A m \in Node : Balanced(m)'
    BY <1>1, <2>3, UninvolvedBalanced
  <2>5. where' = [where EXCEPT ![n] = "scatter"]
    BY <1>5 DEF Enter
  <2>6. ASSUME NEW m \in Node
        PROVE  Resetting(m)'
    <3>1. CASE m = n
      <4>1. Quiet(n)'
        BY <1>1, <1>2, <1>5, <2>1, <2>2 DEF Quiet, Complete
      <4>2. scatter'[n] = "barrier"
        BY <1>3, <1>5
      <4> QED BY <3>1, <4>1, <4>2 DEF Resetting
    <3>2. CASE m # n
      <4>1. scatter'[m] = scatter[m] /\ where'[m] = where[m]
        BY <1>3, <1>5, <2>5, <3>2
      <4>2. Quiet(m) => Quiet(m)'
        BY <1>1, <2>1, <2>2 DEF Quiet
      <4>3. Resetting(m)
        BY AckFacts
      <4> QED BY <4>1, <4>2, <4>3 DEF Resetting
    <3> QED BY <3>1, <3>2
  <2>7. DOMAIN scatter' = Node /\ DOMAIN where' = Node
    BY <1>3, <1>5, <2>5
  <2> QED BY <1>1, <2>1, <2>4, <2>6, <2>7, AckFacts, TodoSame, AckStep
<1> QED BY <1>4, <1>5 DEF ScatterWait

LEMMA ScatterLeaveKeeps ==
  ASSUME AckInv, NEW n \in Node, ScatterLeave(n)
  PROVE  AckInv'
<1>1. Uninvolved /\ UNCHANGED <<place, todo>>
  BY DEF ScatterLeave, Uninvolved, queues, counters
<1>2. /\ where[n] = "scatter" /\ where' = [where EXCEPT ![n] = ""]
      /\ scatter' = [scatter EXCEPT ![n] = "reset"]
  BY DEF ScatterLeave, Leave
<1>3. DOMAIN scatter = Node /\ DOMAIN where = Node /\ scatter[n] = "barrier"
  BY <1>2, AckFacts DEF Resetting
<1>4. Calm
  BY <1>2, <1>3 DEF Calm
<1> QED BY <1>1, <1>4, UninvolvedKeeps

\* Nothing that is on its way is forgotten: the counter is 0 already.
LEMMA ScatterResetKeeps ==
  ASSUME AckInv, NEW n \in Node, ScatterReset(n)
  PROVE  AckInv'
<1>1. /\ scatter[n] = "reset" /\ UNCHANGED <<conf, net, todo, where>>
      /\ scatter' = [scatter EXCEPT ![n] = "run"]
      /\ recvCnt' = [recvCnt EXCEPT ![n] = 0]
      /\ place' = [place EXCEPT ![n] = [i \in ChunkId |-> "AE"]]
  BY DEF ScatterReset, run
<1>2. /\ conf \in Confs /\ Wired(net, Node) /\ recvCnt \in [Node -> Int]
      /\ place \in [Node -> [ChunkId -> Place]]
      /\ DOMAIN scatter = Node /\ DOMAIN where = Node
      /\ Balanced(n) /\ Resetting(n)
  BY AckFacts
<1>3. Quiet(n)
  BY <1>1, <1>2 DEF Resetting
<1>4. Node' = Node /\ ChunkId' = ChunkId
  BY <1>1 DEF Node, ChunkId
<1>5. recvCnt' = recvCnt
  BY <1>1, <1>2, <1>3 DEF Quiet
<1>6. "AE" \in Place
  BY DEF Place
<1>7. /\ place' \in [Node -> [ChunkId -> Place]]
      /\ \A i \in ChunkId : place'[n][i] = "AE"
      /\ \A m \in Node \ {n} : place'[m] = place[m]
  BY <1>1, <1>2, <1>6
<1>8. ASSUME NEW m \in Node
      PROVE  Uncounted(m)' = Uncounted(m)
  <2>1. CASE m = n
    BY <1>3, <1>4, <1>7, <2>1 DEF Uncounted, Quiet
  <2>2. CASE m # n
    BY <1>4, <1>7, <2>2 DEF Uncounted
  <2> QED BY <2>1, <2>2
<1>9. \A m \in Node : Balanced(m)'
  BY <1>1, <1>5, <1>8, UninvolvedBalanced DEF Uninvolved
<1>10. ASSUME NEW m \in Node
       PROVE  Resetting(m)'
  <2>1. CASE m = n
    <3>1. scatter'[n] = "run" /\ where'[n] = where[n]
      BY <1>1, <1>2
    <3>2. where[n] # "scatter"
      BY <1>1, <1>2 DEF Resetting
    <3> QED BY <2>1, <3>1, <3>2 DEF Resetting
  <2>2. CASE m # n
    <3>1. scatter'[m] = scatter[m] /\ where'[m] = where[m] /\ Resetting(m)
      BY <1>1, <1>2, <2>2, AckFacts
    <3>2. Quiet(m) => Quiet(m)'
      BY <1>4, <1>5, <1>7, <2>2 DEF Quiet
    <3> QED BY <3>1, <3>2 DEF Resetting
  <2> QED BY <2>1, <2>2
<1>11. DOMAIN scatter' = Node /\ DOMAIN where' = Node
  BY <1>1, <1>2
<1> QED BY <1>1, <1>2, <1>5, <1>7, <1>9, <1>10, <1>11, TodoSame, AckStep

LEMMA ScatterPopKeeps ==
  ASSUME AckInv, NEW n \in Node, NEW i \in ChunkId, ScatterPop(n, i)
  PROVE  AckInv'
<1>1. Uninvolved /\ UNCHANGED <<where, scatter>>
  BY DEF ScatterPop, Uninvolved, counters, run
<1>2. PICK c : InQueue(n, i, "SC") /\ Send(n, i, "send", c) /\ todo' = [todo EXCEPT ![n][i] = Batches(n, i, c)]
  BY DEF ScatterPop
<1>3. Moves(n, i, "SC", "send")
  BY <1>2 DEF InQueue, Send, Moves
<1>4. \A b \in Batches(n, i, c) : b.to \in Node
  BY DEF Batches
<1>5. /\ DOMAIN todo = Node /\ (\A m \in Node : DOMAIN todo[m] = ChunkId)
      /\ \A m \in Node, j \in ChunkId : \A b \in todo[m][j] : b.to \in Node
  BY DEF AckInv, AckTypes
<1>6. /\ \A m \in Node, j \in ChunkId : \A b \in todo'[m][j] : b.to \in Node
      /\ DOMAIN todo' = Node /\ \A m \in Node : DOMAIN todo'[m] = ChunkId
  <2> HIDE DEF Batches
  <2>1. DOMAIN todo' = Node /\ (\A m \in Node : DOMAIN todo'[m] = ChunkId)
    BY <1>2, <1>5
  <2>2. ASSUME NEW m \in Node, NEW j \in ChunkId, NEW b \in todo'[m][j]
        PROVE  b.to \in Node
    <3>1. CASE m = n /\ j = i
      <4>1. todo'[m][j] = Batches(n, i, c)
        BY <1>2, <1>5, <3>1
      <4> QED BY <1>4, <4>1
    <3>2. CASE ~(m = n /\ j = i)
      <4>1. todo'[m][j] = todo[m][j]
        BY <1>2, <1>5, <3>2
      <4> QED BY <1>5, <4>1
    <3> QED BY <3>1, <3>2
  <2> QED BY <2>1, <2>2
<1>7. "send" \in Place
  BY DEF Place
<1> QED BY <1>1, <1>3, <1>6, <1>7, MoveKeeps

LEMMA PushKeeps ==
  ASSUME AckInv, NEW n \in Node, NEW i \in ChunkId, VerticesPushOut(n, i)
  PROVE  AckInv'
<1>1. /\ UNCHANGED <<conf, where, scatter, recvCnt>>
      /\ InQueue(n, i, "send") /\ todo[n][i] # {} /\ Send(n, i, "count", chunk[n][i])
  BY DEF VerticesPushOut, run, scatterer, counters
<1>2. PICK b : b = CHOOSE x \in todo[n][i] : TRUE
  OBVIOUS
<1>3. b \in todo[n][i]
  BY <1>1, <1>2
<1>4. PICK m : /\ m.kind = "data"
               /\ net' = [net EXCEPT ![n][b.to] = Append(@, m)]
  <2>1. PICK t, d, r : net' = [net EXCEPT ![n][b.to] = Append(@,
          [kind |-> "data", tensor |-> t, dir |-> d, from |-> n, rows |-> r])]
    BY <1>2 DEF VerticesPushOut
  <2>2. PICK m : m = [kind |-> "data", tensor |-> t, dir |-> d, from |-> n, rows |-> r]
    OBVIOUS
  <2>3. m.kind = "data"
    BY <2>2
  <2> QED BY <2>1, <2>2, <2>3
<1>5. /\ Wired(net, Node) /\ recvCnt \in [Node -> Int]
      /\ DOMAIN todo = Node /\ (\A k \in Node : DOMAIN todo[k] = ChunkId)
      /\ \A k \in Node, j \in ChunkId : \A x \in todo[k][j] : x.to \in Node
      /\ \A k \in Node : /\ Balanced(k)
                         /\ Cardinality(Uncounted(k)) \in Nat
                         /\ Cardinality(SentBy(net, k, "data")) \in Nat
                         /\ Cardinality(SentTo(net, k, "ack")) \in Nat
  <2>1. AckTypes
    BY DEF AckInv
  <2> QED BY <2>1, AckFacts DEF AckTypes
<1>6. b.to \in Node
  BY <1>3, <1>5
<1>7. Sending(Node, net, net', n, b.to, m)
  BY <1>4, <1>5, <1>6, SendsExcept
<1>8. Wired(net', Node) /\ \A k : Counts(Node, net, net', n, b.to, k, One(m.kind = k))
  BY <1>5, <1>6, <1>7, SendCounts
<1>9. Counts(Node, net, net', n, b.to, "data", 1) /\ Counts(Node, net, net', n, b.to, "ack", 0)
  <2>1. One(m.kind = "data") = 1 /\ One(m.kind = "ack") = 0
    BY <1>4 DEF One
  <2>2. Counts(Node, net, net', n, b.to, "data", One(m.kind = "data"))
        /\ Counts(Node, net, net', n, b.to, "ack", One(m.kind = "ack"))
    BY <1>8
  <2> QED BY <2>1, <2>2
<1>10. Moves(n, i, "send", "count") /\ "count" \in Place
  BY <1>1 DEF InQueue, Send, Moves, Place
<1>11. place' \in [Node -> [ChunkId -> Place]]
  BY <1>1, <1>10, MoveTypes
<1>12. /\ \A k \in Node \ {n} : Uncounted(k)' = Uncounted(k)
       /\ Cardinality(Uncounted(n)') = Cardinality(Uncounted(n)) + 1
  BY <1>1, <1>10, MoveCounts
<1>13. ASSUME NEW k \in Node
       PROVE  Balanced(k)'
  <2>1. Cardinality(SentTo(net', k, "ack")) = Cardinality(SentTo(net, k, "ack"))
    BY <1>5, <1>9 DEF Counts
  <2>2. Balanced(k) /\ recvCnt'[k] = recvCnt[k] /\ recvCnt[k] \in Int
        /\ Cardinality(Uncounted(k)) \in Nat /\ Cardinality(SentBy(net, k, "data")) \in Nat
        /\ Cardinality(SentTo(net, k, "ack")) \in Nat
    BY <1>1, <1>5
  <2>3. CASE k = n
    <3>1. Cardinality(SentBy(net', k, "data")) = Cardinality(SentBy(net, k, "data")) + 1
      BY <1>9, <2>3 DEF Counts
    <3>2. Cardinality(Uncounted(k)') = Cardinality(Uncounted(k)) + 1
      BY <1>12, <2>3
    <3> HIDE DEF Uncounted
    <3> QED BY <2>1, <2>2, <3>1, <3>2 DEF Balanced
  <2>4. CASE k # n
    <3>1. Cardinality(SentBy(net', k, "data")) = Cardinality(SentBy(net, k, "data"))
      BY <1>9, <2>4 DEF Counts
    <3>2. Uncounted(k)' = Uncounted(k)
      BY <1>12, <2>4
    <3> HIDE DEF Uncounted
    <3> QED BY <2>1, <2>2, <3>1, <3>2 DEF Balanced
  <2> QED BY <2>3, <2>4
<1>14. ASSUME NEW k \in Node, Quiet(k)
       PROVE  recvCnt'[k] = recvCnt[k] /\ place'[k] = place[k]
  <2>1. k # n
    BY <1>10, <1>14 DEF Quiet, Moves
  <2> QED BY <1>1, <1>10, <2>1, AckFacts DEF Moves
<1>15. \A k \in Node : Resetting(k)'
  BY <1>1, <1>14, CalmSame, CalmKeeps
<1>16. /\ \A k \in Node, j \in ChunkId : \A x \in todo'[k][j] : x.to \in Node
       /\ DOMAIN todo' = Node /\ \A k \in Node : DOMAIN todo'[k] = ChunkId
  <2>1. todo' = [todo EXCEPT ![n][i] = @ \ {b}]
    BY <1>2 DEF VerticesPushOut
  <2>2. \A k \in Node, j \in ChunkId : todo'[k][j] \subseteq todo[k][j]
    BY <1>5, <2>1
  <2>3. DOMAIN todo' = Node /\ \A k \in Node : DOMAIN todo'[k] = ChunkId
    BY <1>5, <2>1
  <2> QED BY <1>5, <2>2, <2>3
<1>17. recvCnt' \in [Node -> Int]
  BY <1>1, <1>5
<1> QED BY <1>1, <1>8, <1>11, <1>13, <1>15, <1>16, <1>17, AckFacts, AckStep

LEMMA CountKeeps ==
  ASSUME AckInv, NEW n \in Node, NEW i \in ChunkId, Count(n, i)
  PROVE  AckInv'
<1>1. /\ UNCHANGED <<conf, where, scatter, todo, net>>
      /\ InQueue(n, i, "count") /\ Send(n, i, "send", chunk[n][i])
      /\ recvCnt' = [recvCnt EXCEPT ![n] = @ + 1]
  BY DEF Count, run, scatterer
<1>2. /\ Wired(net, Node) /\ recvCnt \in [Node -> Int]
      /\ \A k \in Node : /\ Balanced(k)
                         /\ Cardinality(Uncounted(k)) \in Nat
                         /\ Cardinality(SentBy(net, k, "data")) \in Nat
                         /\ Cardinality(SentTo(net, k, "ack")) \in Nat
  BY AckFacts
<1>3. Moves(n, i, "count", "send") /\ "send" \in Place
  BY <1>1 DEF InQueue, Send, Moves, Place
<1>4. place' \in [Node -> [ChunkId -> Place]]
  BY <1>1, <1>3, MoveTypes
<1>5. /\ \A k \in Node \ {n} : Uncounted(k)' = Uncounted(k)
      /\ Cardinality(Uncounted(n)') = Cardinality(Uncounted(n)) - 1
  BY <1>1, <1>3, MoveCounts
<1>6. ASSUME NEW k \in Node
      PROVE  Balanced(k)'
  <2>1. Balanced(k) /\ recvCnt[k] \in Int
        /\ Cardinality(Uncounted(k)) \in Nat /\ Cardinality(SentBy(net, k, "data")) \in Nat
        /\ Cardinality(SentTo(net, k, "ack")) \in Nat
    BY <1>2
  <2>2. CASE k = n
    <3>1. recvCnt'[k] = recvCnt[k] + 1
      BY <1>1, <1>2, <2>2
    <3>2. Cardinality(Uncounted(k)') = Cardinality(Uncounted(k)) - 1
      BY <1>5, <2>2
    <3> HIDE DEF Uncounted
    <3> QED BY <1>1, <2>1, <3>1, <3>2 DEF Balanced
  <2>3. CASE k # n
    <3>1. recvCnt'[k] = recvCnt[k]
      BY <1>1, <1>2, <2>3
    <3>2. Uncounted(k)' = Uncounted(k)
      BY <1>5, <2>3
    <3> HIDE DEF Uncounted
    <3> QED BY <1>1, <2>1, <3>1, <3>2 DEF Balanced
  <2> QED BY <2>2, <2>3
<1>7. ASSUME NEW k \in Node, Quiet(k)
      PROVE  recvCnt'[k] = recvCnt[k] /\ place'[k] = place[k]
  <2>1. k # n
    BY <1>3, <1>7 DEF Quiet, Moves
  <2> QED BY <1>1, <1>2, <1>3, <2>1, AckFacts DEF Moves
<1>8. \A k \in Node : Resetting(k)'
  BY <1>1, <1>7, CalmSame, CalmKeeps
<1>9. recvCnt' \in [Node -> Int]
  BY <1>1, <1>2
<1> QED BY <1>1, <1>2, <1>4, <1>6, <1>8, <1>9, AckFacts, TodoSame, AckStep

LEMMA ScatterKeeps ==
  ASSUME AckInv, NEW n \in Node, Scatter(n)
  PROVE  AckInv'
<1>1. CASE ScatterWait(n) \/ ScatterLeave(n) \/ ScatterReset(n)
  BY <1>1, ScatterWaitKeeps, ScatterLeaveKeeps, ScatterResetKeeps
<1>2. CASE BeginBarrier(n)
  <2>1. Uninvolved /\ UNCHANGED <<place, todo, scatter>>
    BY <1>2 DEF BeginBarrier, Uninvolved, queues, scatterer, counters
  <2>2. Calm
    BY <1>2, <2>1, EnterCalm DEF BeginBarrier
  <2> QED BY <2>1, <2>2, UninvolvedKeeps
<1>3. CASE BeginScatter(n)
  <2>1. Uninvolved /\ UNCHANGED <<place, todo, scatter>>
    BY <1>3 DEF BeginScatter, Uninvolved, queues, counters
  <2>2. Calm
    BY <1>3, <2>1, LeaveCalm DEF BeginScatter
  <2> QED BY <2>1, <2>2, UninvolvedKeeps
<1>4. ASSUME NEW i \in ChunkId, ScatterPop(n, i) \/ VerticesPushOut(n, i) \/ Count(n, i)
      PROVE  AckInv'
  BY <1>4, ScatterPopKeeps, PushKeeps, CountKeeps
<1>5. ASSUME NEW i \in ChunkId, ScatterStash(n, i)
      PROVE  AckInv'
  <2>1. Uninvolved /\ UNCHANGED <<where, scatter, todo>>
    BY <1>5 DEF ScatterStash, Uninvolved, counters, run, scatterer
  <2>2. InQueue(n, i, "send") /\ Send(n, i, "stash", chunk[n][i])
    BY <1>5 DEF ScatterStash
  <2>3. "stash" \in Place \ {"count"}
    BY DEF Place
  <2> QED BY <2>1, <2>2, <2>3, SendKeeps
<1> QED BY <1>1, <1>2, <1>3, <1>4, <1>5 DEF Scatter

LEMMA RecvValuesKeeps ==
  ASSUME AckInv, NEW n \in Node, NEW m \in Node \ {n}, RecvValues(n, m)
  PROVE  AckInv'
<1>1. /\ Wired(net, Node) /\ recvCnt \in [Node -> Int]
      /\ \A k \in Node : /\ Balanced(k)
                         /\ Cardinality(Uncounted(k)) \in Nat
                         /\ Cardinality(SentBy(net, k, "data")) \in Nat
                         /\ Cardinality(SentTo(net, k, "ack")) \in Nat
  BY AckFacts
<1>2. /\ UNCHANGED <<conf, where, scatter, place, todo, recvCnt>>
      /\ net[m][n] # <<>> /\ Head(net[m][n]).kind = "data"
  BY DEF RecvValues, queues, run, scatterer, counters
<1>3. PICK x : x = [kind |-> "ack"]
  OBVIOUS
<1>4. x.kind = "ack"
  BY <1>3
<1>5. PICK mid : mid = [net EXCEPT ![m][n] = Tail(@)]
  OBVIOUS
<1>6. Reading(Node, net, mid, m, n)
  BY <1>1, <1>2, <1>5, ReadsExcept
<1>7. Wired(mid, Node)
      /\ \A k : Counts(Node, net, mid, m, n, k, -One(Head(net[m][n]).kind = k))
  BY <1>1, <1>6, ReadCounts
<1>8. Sending(Node, mid, net', n, m, x)
  <2>1. net' = [net EXCEPT ![m][n] = Tail(@), ![n][m] = Append(@, x)]
    BY <1>3 DEF RecvValues
  <2>2. /\ DOMAIN net = Node /\ (\A u \in Node : DOMAIN net[u] = Node)
        /\ DOMAIN mid = Node /\ (\A u \in Node : DOMAIN mid[u] = Node)
    BY <1>1, <1>7 DEF Wired
  <2>3. Square(net', Node) /\ net'[n][m] = Append(net[n][m], x) /\ mid[n][m] = net[n][m]
    BY <1>5, <2>1, <2>2 DEF Square
  <2>4. net'[m][n] = Tail(net[m][n]) /\ mid[m][n] = Tail(net[m][n])
    BY <1>5, <2>1, <2>2
  <2>5. \A u \in Node, v \in Node :
          <<u, v>> # <<n, m>> /\ <<u, v>> # <<m, n>> => net'[u][v] = net[u][v] /\ mid[u][v] = net[u][v]
    BY <1>5, <2>1, <2>2
  <2>6. OneChannel(mid, net', n, m)
    BY <2>2, <2>4, <2>5 DEF OneChannel
  <2> QED BY <2>3, <2>6 DEF Sending
<1>9. Wired(net', Node) /\ \A k : Counts(Node, mid, net', n, m, k, One(x.kind = k))
  BY <1>7, <1>8, SendCounts
<1>10. /\ Counts(Node, net, mid, m, n, "data", -1) /\ Counts(Node, net, mid, m, n, "ack", 0)
       /\ Counts(Node, mid, net', n, m, "data", 0) /\ Counts(Node, mid, net', n, m, "ack", 1)
  <2>1. -One(Head(net[m][n]).kind = "data") = -1 /\ -One(Head(net[m][n]).kind = "ack") = 0
    <3>1. One(Head(net[m][n]).kind = "data") = 1 /\ One(Head(net[m][n]).kind = "ack") = 0
      BY <1>2 DEF One
    <3> QED BY <3>1
  <2>2. One(x.kind = "data") = 0 /\ One(x.kind = "ack") = 1
    BY <1>4 DEF One
  <2>3. Counts(Node, net, mid, m, n, "data", -One(Head(net[m][n]).kind = "data"))
        /\ Counts(Node, net, mid, m, n, "ack", -One(Head(net[m][n]).kind = "ack"))
    BY <1>7
  <2>4. Counts(Node, mid, net', n, m, "data", One(x.kind = "data"))
        /\ Counts(Node, mid, net', n, m, "ack", One(x.kind = "ack"))
    BY <1>9
  <2> QED BY <2>1, <2>2, <2>3, <2>4
<1>11. ASSUME NEW u \in Node
       PROVE  Cardinality(SentBy(net', u, "data"))
                = Cardinality(SentBy(net, u, "data")) - (IF u = m THEN 1 ELSE 0)
  <2>1. Cardinality(SentBy(mid, u, "data")) \in Nat /\ Cardinality(SentBy(net, u, "data")) \in Nat
    BY <1>1, <1>7, CountsNat
  <2>2. Cardinality(SentBy(net', u, "data")) = Cardinality(SentBy(mid, u, "data"))
    BY <1>10, <2>1 DEF Counts
  <2>3. u = m => Cardinality(SentBy(mid, u, "data")) = Cardinality(SentBy(net, u, "data")) - 1
    BY <1>10, <2>1 DEF Counts
  <2>4. u # m => Cardinality(SentBy(mid, u, "data")) = Cardinality(SentBy(net, u, "data"))
    BY <1>10, <2>1 DEF Counts
  <2> QED BY <2>1, <2>2, <2>3, <2>4
<1>12. ASSUME NEW u \in Node
       PROVE  Cardinality(SentTo(net', u, "ack"))
                = Cardinality(SentTo(net, u, "ack")) + (IF u = m THEN 1 ELSE 0)
  <2>1. Cardinality(SentTo(mid, u, "ack")) \in Nat /\ Cardinality(SentTo(net, u, "ack")) \in Nat
    BY <1>1, <1>7, CountsNat
  <2>2. Cardinality(SentTo(mid, u, "ack")) = Cardinality(SentTo(net, u, "ack"))
    BY <1>10, <2>1 DEF Counts
  <2>3. u = m => Cardinality(SentTo(net', u, "ack")) = Cardinality(SentTo(mid, u, "ack")) + 1
    BY <1>10, <2>1 DEF Counts
  <2>4. u # m => Cardinality(SentTo(net', u, "ack")) = Cardinality(SentTo(mid, u, "ack"))
    BY <1>10, <2>1 DEF Counts
  <2> QED BY <2>1, <2>2, <2>3, <2>4
<1>13. ASSUME NEW u \in Node
       PROVE  Balanced(u)'
  <2>1. Uncounted(u)' = Uncounted(u)
    BY <1>2 DEF Uncounted, ChunkId
  <2>2. /\ recvCnt'[u] = recvCnt[u] /\ recvCnt[u] \in Int /\ Balanced(u)
        /\ Cardinality(Uncounted(u)) \in Nat
        /\ Cardinality(SentBy(net, u, "data")) \in Nat /\ Cardinality(SentTo(net, u, "ack")) \in Nat
    BY <1>1, <1>2
  <2> HIDE DEF Uncounted
  <2> QED BY <1>11, <1>12, <2>1, <2>2 DEF Balanced
<1>14. \A k \in Node : Resetting(k)'
  BY <1>2, CalmSame, CalmKeeps
<1> QED BY <1>1, <1>2, <1>9, <1>13, <1>14, AckFacts, TodoSame, AckStep

LEMMA RecvAckKeeps ==
  ASSUME AckInv, NEW n \in Node, NEW m \in Node \ {n}, RecvAck(n, m)
  PROVE  AckInv'
<1>1. /\ Wired(net, Node) /\ recvCnt \in [Node -> Int]
      /\ \A k \in Node : /\ Balanced(k)
                         /\ Cardinality(Uncounted(k)) \in Nat
                         /\ Cardinality(SentBy(net, k, "data")) \in Nat
                         /\ Cardinality(SentTo(net, k, "ack")) \in Nat
  BY AckFacts
<1>2. /\ UNCHANGED <<conf, where, scatter, place, todo>>
      /\ net[m][n] # <<>> /\ Head(net[m][n]).kind = "ack"
      /\ net' = [net EXCEPT ![m][n] = Tail(@)] /\ recvCnt' = [recvCnt EXCEPT ![n] = @ - 1]
  BY DEF RecvAck, queues, run, scatterer
<1>3. Reading(Node, net, net', m, n)
  BY <1>1, <1>2, ReadsExcept
<1>4. Wired(net', Node)
      /\ \A k : Counts(Node, net, net', m, n, k, -One(Head(net[m][n]).kind = k))
  BY <1>1, <1>3, ReadCounts
<1>5. Counts(Node, net, net', m, n, "data", 0) /\ Counts(Node, net, net', m, n, "ack", -1)
  <2>1. -One(Head(net[m][n]).kind = "data") = 0 /\ -One(Head(net[m][n]).kind = "ack") = -1
    <3>1. One(Head(net[m][n]).kind = "data") = 0 /\ One(Head(net[m][n]).kind = "ack") = 1
      BY <1>2 DEF One
    <3> QED BY <3>1
  <2>2. Counts(Node, net, net', m, n, "data", -One(Head(net[m][n]).kind = "data"))
        /\ Counts(Node, net, net', m, n, "ack", -One(Head(net[m][n]).kind = "ack"))
    BY <1>4
  <2> QED BY <2>1, <2>2
<1>6. recvCnt' \in [Node -> Int]
  BY <1>1, <1>2
<1>7. Cardinality(SentTo(net', n, "ack")) = Cardinality(SentTo(net, n, "ack")) - 1
      /\ Cardinality(SentTo(net', n, "ack")) \in Nat
  <2>1. Cardinality(SentTo(net', n, "ack")) \in Nat
    BY <1>4, CountsNat
  <2>2. Cardinality(SentTo(net', n, "ack")) = Cardinality(SentTo(net, n, "ack")) + (-1)
    BY <1>5 DEF Counts
  <2> QED BY <1>1, <2>1, <2>2
<1>8. ASSUME NEW u \in Node
      PROVE  Balanced(u)'
  <2>1. Uncounted(u)' = Uncounted(u)
    BY <1>2 DEF Uncounted, ChunkId
  <2>2. /\ recvCnt[u] \in Int /\ Balanced(u) /\ Cardinality(Uncounted(u)) \in Nat
        /\ Cardinality(SentBy(net, u, "data")) \in Nat /\ Cardinality(SentTo(net, u, "ack")) \in Nat
    BY <1>1
  <2>3. Cardinality(SentBy(net', u, "data")) = Cardinality(SentBy(net, u, "data"))
    BY <1>5, <2>2 DEF Counts
  <2>4. u # n => Cardinality(SentTo(net', u, "ack")) = Cardinality(SentTo(net, u, "ack"))
    BY <1>5, <2>2 DEF Counts
  <2>5. recvCnt'[u] = recvCnt[u] - (IF u = n THEN 1 ELSE 0)
    BY <1>1, <1>2
  <2> HIDE DEF Uncounted
  <2>6. CASE u = n
    BY <1>7, <2>1, <2>2, <2>3, <2>5, <2>6 DEF Balanced
  <2>7. CASE u # n
    BY <2>1, <2>2, <2>3, <2>4, <2>5, <2>7 DEF Balanced
  <2> QED BY <2>6, <2>7
\* A server whose counters are complete has no ack to come.
<1>9. ASSUME NEW k \in Node, Quiet(k)
      PROVE  recvCnt'[k] = recvCnt[k] /\ place'[k] = place[k]
  <2>1. CASE k = n
    <3>1. Uncounted(n) = {}
      BY <1>9, <2>1 DEF Quiet, Uncounted
    <3>2. Cardinality(Uncounted(n)) = 0
      BY <3>1, FS_EmptySet
    <3>3. recvCnt[n] = 0
      BY <1>9, <2>1 DEF Quiet
    <3>4. Balanced(n) /\ Cardinality(SentBy(net, n, "data")) \in Nat
          /\ Cardinality(SentTo(net, n, "ack")) \in Nat
      BY <1>1
    <3> HIDE DEF Uncounted
    <3>5. Cardinality(SentTo(net, n, "ack")) = 0
      BY <3>2, <3>3, <3>4 DEF Balanced
    <3> QED BY <1>7, <3>5
  <2>2. CASE k # n
    BY <1>1, <1>2, <2>2
  <2> QED BY <2>1, <2>2
<1>10. \A k \in Node : Resetting(k)'
  BY <1>2, <1>9, CalmSame, CalmKeeps
<1> QED BY <1>1, <1>2, <1>4, <1>6, <1>8, <1>10, AckFacts, TodoSame, AckStep

LEMMA ReceiveKeeps ==
  ASSUME AckInv, NEW n \in Node, Receive(n)
  PROVE  AckInv'
<1>1. CASE \E m \in Node \ {n} : RecvValues(n, m) \/ RecvAck(n, m)
  BY <1>1, RecvValuesKeeps, RecvAckKeeps
<1>2. CASE StoreValues(n)
  <2>1. Uninvolved /\ UNCHANGED <<place, todo, where, scatter>>
    BY <1>2 DEF StoreValues, Uninvolved, queues, run, scatterer
  <2> QED BY <2>1, CalmSame, UninvolvedKeeps
<1>3. CASE Check(n)
  <2>1. Uninvolved /\ UNCHANGED <<place, todo, where>>
    BY <1>3 DEF Check, Uninvolved, queues, run, counters
  <2>2. PICK x : scatter' = [scatter EXCEPT ![n] = x] /\ (x = scatter[n] \/ (x = "woken" /\ scatter[n] = "wait"))
    <3>1. PICK x : x = IF scatter[n] = "wait" /\ Complete(n) THEN "woken" ELSE scatter[n]
      OBVIOUS
    <3>2. scatter' = [scatter EXCEPT ![n] = x]
      BY <1>3, <3>1 DEF Check
    <3> QED BY <3>1, <3>2
  <2>3. DOMAIN scatter = Node /\ DOMAIN where = Node /\ Resetting(n)
    BY AckFacts
  <2>4. scatter'[n] = x /\ \A k \in Node \ {n} : scatter'[k] = scatter[k]
    BY <2>2, <2>3
  <2>5. where[n] = "scatter" => scatter[n] = "barrier"
    BY <2>3 DEF Resetting
  <2>6. DOMAIN scatter' = Node
    BY <2>2, <2>3
  <2>7. Calm
    BY <2>1, <2>2, <2>3, <2>4, <2>5, <2>6 DEF Calm
  <2> QED BY <2>1, <2>7, UninvolvedKeeps
<1> QED BY <1>1, <1>2, <1>3 DEF Receive

LEMMA AckNext == AckInv /\ [Next]_vars => AckInv'
<1> SUFFICES ASSUME AckInv, [Next]_vars PROVE AckInv'
  OBVIOUS
<1>1. CASE UNCHANGED kept
  <2>1. Uninvolved /\ UNCHANGED <<place, todo, where, scatter>>
    BY <1>1 DEF kept, Uninvolved, queues, run, scatterer, counters
  <2> QED BY <2>1, CalmSame, UninvolvedKeeps
<1>2. ASSUME NEW n \in Node, Main(n) \/ Schedule(n) \/ Scatter(n) \/ Receive(n)
      PROVE  AckInv'
  BY <1>2, MainKeeps, ScheduleKeeps, ScatterKeeps, ReceiveKeeps
<1>3. ASSUME NEW n \in Node, NEW i \in ChunkId, Work(n, i)
      PROVE  AckInv'
  BY <1>3, WorkKeeps
<1> QED BY <1>1, <1>2, <1>3, Steps

\* recvCnt is the number of a server's messages and of its acks that are on their way,
\* but for the messages that were sent and not counted yet (verticesPushOut,
\* ghostReceiverGCN and ghostReceiverGAT); scatterWorkFunc forgets none when it sets
\* recvCnt back.
THEOREM AcksCounted == Spec => []AcksExact
<1>1. AckInv /\ [Next]_vars => AckInv'
  BY AckNext
<1>2. AckInv => AcksExact
  <2> SUFFICES ASSUME AckInv, NEW n \in Node
               PROVE  recvCnt[n] = Cardinality(SentBy(net, n, "data"))
                        + Cardinality(SentTo(net, n, "ack"))
                        - Cardinality({i \in ChunkId : place[n][i] = "count"})
    BY DEF AcksExact
  <2>1. /\ recvCnt[n] \in Int /\ Balanced(n) /\ Cardinality(Uncounted(n)) \in Nat
        /\ Cardinality(SentBy(net, n, "data")) \in Nat /\ Cardinality(SentTo(net, n, "ack")) \in Nat
    BY AckFacts
  <2>2. recvCnt[n] = Cardinality(SentBy(net, n, "data")) + Cardinality(SentTo(net, n, "ack"))
                       - Cardinality(Uncounted(n))
    <3> HIDE DEF Uncounted
    <3> QED BY <2>1 DEF Balanced
  <2> QED BY <2>2 DEF Uncounted
<1> QED BY <1>1, <1>2, AckInit, PTL DEF Spec

-----------------------------------------------------------------------------
(***************************************************************************)
(* Barriers.  Between two scatter phases the chunks of a server spread over*)
(* the queues, but all are in the same gap: where a server is in its epoch *)
(* is the number s of scatter phases behind it, and its epoch, the gap and *)
(* the thread that waits determine how many barriers it has entered, what  *)
(* its next one is and which layer it has reached.                         *)
(***************************************************************************)
\* The scatter phases of an epoch, the last of them forward, and the direction
\* and the layer of a chunk in or after phase s; 0 is the begin of the epoch.
Scatters == IF conf.gnn = "GCN" THEN 2 * conf.numLayers - 2 ELSE 2 * conf.numLayers
Turn == IF conf.gnn = "GCN" THEN conf.numLayers - 1 ELSE conf.numLayers
DirOf(s) == IF s <= Turn THEN "FORWARD" ELSE "BACKWARD"
LayerOf(s) == IF s <= Turn THEN s ELSE Scatters + 1 - s
AbsOf(s) == IF s <= Turn THEN s ELSE 2 * conf.numLayers - 2 - Scatters + s

\* What the barriers of s scatter phases and of an epoch are.
Bars(s) == IF conf.build = "Lambda" THEN s ELSE 2 * s
BarsOfEpoch == Bars(Scatters) + 1
Base(e, s) == 2 + (e - 1) * BarsOfEpoch + Bars(s)

Scattered == {"send", "count", "stash"}
Popped(n) == \E i \in ChunkId : place[n][i] \in Scattered

Between(c, s) == c.dir = DirOf(s) /\ c.layer = LayerOf(s)

\* A chunk that is in the gap after scatter phase s, or in the next one.
ChunkAt(n, i, s) ==
  LET c == chunk[n][i]
      p == place[n][i]
      e == currEpoch[n] IN
  \/ /\ p = "sch" /\ c.dir = "FORWARD" /\ c.layer = 0
     /\ (s = 0 /\ c.epoch = e) \/ (s = Scatters /\ c.epoch = e + 1)
  \/ /\ p \in {"AE", "GA", "AV"} /\ c.epoch = e /\ Between(c, s)
     /\ p = "AE" \/ (p = "GA" /\ conf.gnn = "GAT") => s > 0
     /\ p = "AV" /\ conf.gnn = "GAT" => s # Turn
  \/ /\ p \in Scattered \cup {"SC"} /\ c.epoch = e
     /\ s < Scatters /\ Between(c, s + 1)

\* All chunks are at the scheduler, to begin the next epoch.
AllNext(n) ==
  \A i \in ChunkId : place[n][i] = "sch" /\ chunk[n][i].epoch = currEpoch[n] + 1

\* The barriers of the gap that are entered already.
Extra(n) ==
  IF where[n] = "epoch" \/ ~schBlock[n] THEN 1
  ELSE IF where[n] = "scatter" \/ scatter[n] = "reset" THEN Bars(1)
  ELSE IF where[n] = "begin" \/ ~scBlock[n] THEN 1 ELSE 0

LayerAt(n, s) ==
  IF Popped(n) THEN AbsOf(s + 1) ELSE IF currEpoch[n] = 0 THEN 0 ELSE AbsOf(s)

\* The barriers of a running server, and what its chunks do at each.
Blocking(n) ==
  /\ where[n] \in {"", "epoch", "begin", "scatter"}
  /\ where[n] = "epoch" \/ ~schBlock[n] => AllNext(n) /\ currEpoch[n] < conf.numEpochs
  /\ ~schBlock[n] => where[n] = ""
  /\ where[n] = "begin" => scBlock[n] /\ \A i \in ChunkId : place[n][i] = "SC"
  /\ where[n] = "begin" \/ ~scBlock[n] => conf.build # "Lambda"
  /\ ~scBlock[n] => \A i \in ChunkId : place[n][i] \in Scattered \cup {"SC"}
  /\ scBlock[n] /\ conf.build # "Lambda" => ~Popped(n)
  /\ where[n] = "scatter" <=> scatter[n] = "barrier"
  /\ scatter[n] # "run" => \A i \in ChunkId : place[n][i] = "stash"

Running(n, s) ==
  /\ \A i \in ChunkId : ChunkAt(n, i, s)
  /\ currEpoch[n] = 0 => s = Scatters /\ \A i \in ChunkId : place[n][i] = "sch"
  /\ layer[n] = LayerAt(n, s)
  /\ Blocking(n)
  /\ entered[n] = Base(currEpoch[n], s) + Extra(n)

\* Before and after the run.
Resting(n) ==
  /\ \A i \in ChunkId : ChunkAt(n, i, Scatters)
  /\ AllNext(n) /\ scBlock[n] /\ scatter[n] = "run"
  /\ layer[n] = LayerAt(n, Scatters)

\* After the last epoch, or after any when DONE has come.
Finished(n) ==
  /\ schBlock[n] /\ currEpoch[n] = conf.numEpochs
  /\ where[n] = "end" => entered[n] = Base(conf.numEpochs, Scatters) + 1
  /\ where[n] = "" /\ stage[n] = "halt" => entered[n] = Base(conf.numEpochs, Scatters)
StoppedEarly(n) == currEpoch[n] < conf.numEpochs /\ MayStop(n)

Aligned(n) ==
  CASE stage[n] = "new" -> /\ Resting(n) /\ schBlock[n] /\ currEpoch[n] = 0
                           /\ \/ where[n] = "" /\ entered[n] = 0
                              \/ where[n] = "start" /\ entered[n] = 1
    [] stage[n] = "running" -> \E s \in 0..Scatters : Running(n, s)
    [] OTHER -> /\ Resting(n) /\ where[n] \in {"", "end"}
                /\ Finished(n) \/ StoppedEarly(n)

AlignTypes ==
  /\ conf \in Confs
  /\ chunk \in [Node -> [ChunkId -> Chunk]] /\ place \in [Node -> [ChunkId -> Place]]
  /\ stage \in [Node -> {"new", "running", "halt", "done"}]
  /\ where \in [Node -> Site] /\ entered \in [Node -> Nat]
  /\ currEpoch \in [Node -> 0..conf.numEpochs] /\ schBlock \in [Node -> BOOLEAN]
  /\ scatter \in [Node -> {"run", "wait", "woken", "barrier", "reset"}]
  /\ scBlock \in [Node -> BOOLEAN]
  /\ layer \in [Node -> Int] /\ currDir \in [Node -> PropType]

AlignInv == AlignTypes /\ \A n \in Node : Aligned(n)

\* What depends on the configuration only.
LEMMA ScatterFacts ==
  ASSUME conf \in Confs
  PROVE  /\ conf.build \in Build /\ conf.gnn \in Gnn
         /\ conf.numLayers \in Nat /\ conf.numLayers > 0 /\ conf.numEpochs \in Nat
         /\ conf.gnn = "GCN" => conf.numLayers > 1
         /\ Scatters \in Nat /\ Scatters > 1 /\ Turn \in Nat /\ 0 <= Turn /\ Turn < Scatters
         /\ conf.gnn = "GAT" => Turn > 0
         /\ Bars(0) = 0 /\ Bars(1) = (IF conf.build = "Lambda" THEN 1 ELSE 2)
         /\ \A s \in 0..Scatters : /\ Bars(s) \in Nat /\ Bars(s + 1) = Bars(s) + Bars(1)
                                   /\ AbsOf(s) \in Int /\ LayerOf(s) \in Nat
<1>1. /\ conf.build \in Build /\ conf.gnn \in Gnn
      /\ conf.numLayers \in Nat /\ conf.numLayers > 0 /\ conf.numEpochs \in Nat
      /\ conf.gnn = "GCN" => conf.numLayers > 1
  BY ExchangeOK
<1>2. /\ Scatters \in Nat /\ Scatters > 1 /\ Turn \in Nat /\ 0 <= Turn /\ Turn < Scatters
      /\ conf.gnn = "GAT" => Turn > 0
  BY <1>1 DEF Scatters, Turn, Gnn
<1>3. Bars(0) = 0 /\ Bars(1) = (IF conf.build = "Lambda" THEN 1 ELSE 2)
  BY DEF Bars
<1>4. ASSUME NEW s \in 0..Scatters
      PROVE  /\ Bars(s) \in Nat /\ Bars(s + 1) = Bars(s) + Bars(1)
             /\ AbsOf(s) \in Int /\ LayerOf(s) \in Nat
  BY <1>1, <1>2 DEF Bars, AbsOf, LayerOf
<1> QED BY <1>1, <1>2, <1>3, <1>4

LEMMA BaseFacts ==
  ASSUME conf \in Confs
  PROVE  /\ Base(0, Scatters) = 1
         /\ \A e \in Nat : /\ Base(e + 1, 0) = Base(e, Scatters) + 1
                           /\ \A s \in 0..Scatters : /\ Base(e, s) \in Int
                                                     /\ Base(e, s + 1) = Base(e, s) + Bars(1)
<1>1. /\ Scatters \in Nat /\ Bars(0) = 0 /\ Bars(Scatters) \in Nat /\ Bars(1) \in Nat
      /\ \A s \in 0..Scatters : Bars(s) \in Nat /\ Bars(s + 1) = Bars(s) + Bars(1)
  BY ScatterFacts
<1> DEFINE B == BarsOfEpoch
<1>2. B \in Nat /\ B = Bars(Scatters) + 1
  BY <1>1 DEF BarsOfEpoch
<1> HIDE DEF B
<1>3. \A e \in Int : \A s : Base(e, s) = 2 + (e - 1) * B + Bars(s)
  BY DEF Base, B
<1>4. Base(0, Scatters) = 1
  <2>1. (0 - 1) * B = -B
    BY <1>2
  <2>2. Base(0, Scatters) = 2 + (0 - 1) * B + Bars(Scatters)
    BY <1>3
  <2> QED BY <1>1, <1>2, <2>1, <2>2
<1>5. ASSUME NEW e \in Nat
      PROVE  /\ Base(e + 1, 0) = Base(e, Scatters) + 1
             /\ \A s \in 0..Scatters : Base(e, s) \in Int /\ Base(e, s + 1) = Base(e, s) + Bars(1)
  <2>1. ((e + 1) - 1) * B = (e - 1) * B + B /\ (e - 1) * B \in Int
    BY <1>2
  <2>2. /\ Base(e + 1, 0) = 2 + ((e + 1) - 1) * B + Bars(0)
        /\ \A s : Base(e, s) = 2 + (e - 1) * B + Bars(s)
    BY <1>3
  <2> QED BY <1>1, <1>2, <2>1, <2>2
<1> QED BY <1>4, <1>5

\* What a server's alignment depends on.
Undisturbed(m) ==
  /\ chunk'[m] = chunk[m] /\ place'[m] = place[m] /\ stage'[m] = stage[m]
  /\ where'[m] = where[m] /\ entered'[m] = entered[m] /\ currEpoch'[m] = currEpoch[m]
  /\ schBlock'[m] = schBlock[m] /\ scatter'[m] = scatter[m] /\ scBlock'[m] = scBlock[m]
  /\ layer'[m] = layer[m]

LEMMA ConfSame ==
  ASSUME conf' = conf
  PROVE  /\ Node' = Node /\ ChunkId' = ChunkId /\ Scatters' = Scatters /\ Turn' = Turn
         /\ BarsOfEpoch' = BarsOfEpoch
         /\ \A s : Bars(s)' = Bars(s) /\ DirOf(s)' = DirOf(s) /\ LayerOf(s)' = LayerOf(s)
                   /\ AbsOf(s)' = AbsOf(s)
         /\ \A e, s : Base(e, s)' = Base(e, s)
BY DEF Node, ChunkId, Scatters, Turn, BarsOfEpoch, Bars, DirOf, LayerOf, AbsOf, Base

LEMMA BetweenSame ==
  ASSUME conf' = conf, NEW c, NEW s
  PROVE  Between(c, s)' <=> Between(c, s)
BY ConfSame DEF Between

LEMMA ChunkAtSame ==
  ASSUME conf' = conf, NEW m \in Node, NEW i \in ChunkId, NEW s,
         chunk'[m][i] = chunk[m][i], place'[m][i] = place[m][i], currEpoch'[m] = currEpoch[m],
         ChunkAt(m, i, s)
  PROVE  ChunkAt(m, i, s)'
BY ConfSame, BetweenSame DEF ChunkAt

LEMMA AlignSame ==
  ASSUME conf' = conf, NEW m \in Node, Undisturbed(m), Aligned(m)
  PROVE  Aligned(m)'
<1>1. /\ ChunkId' = ChunkId /\ Scatters' = Scatters
      /\ \A s : Bars(s)' = Bars(s) /\ AbsOf(s)' = AbsOf(s)
      /\ \A e, s : Base(e, s)' = Base(e, s)
  BY ConfSame
<1>2. \A s : (\A i \in ChunkId : ChunkAt(m, i, s)) => \A i \in ChunkId : ChunkAt(m, i, s)'
  BY ChunkAtSame DEF Undisturbed
<1>3. (Popped(m)' <=> Popped(m)) /\ (AllNext(m)' <=> AllNext(m)) /\ Extra(m)' = Extra(m)
  BY <1>1 DEF Popped, AllNext, Extra, Undisturbed
<1>4. \A s : LayerAt(m, s)' = LayerAt(m, s)
  BY <1>1, <1>3 DEF LayerAt, Undisturbed
<1>5. /\ Resting(m) => Resting(m)'
      /\ Finished(m) => Finished(m)'
      /\ StoppedEarly(m) => StoppedEarly(m)'
  BY <1>1, <1>2, <1>3, <1>4 DEF Resting, Finished, StoppedEarly, MayStop, Undisturbed
<1>6. ASSUME NEW s, Running(m, s) PROVE Running(m, s)'
  <2>1. Blocking(m)'
    BY <1>1, <1>3, <1>6 DEF Running, Blocking, Undisturbed
  <2> QED BY <1>1, <1>2, <1>3, <1>4, <1>6, <2>1 DEF Running, Undisturbed
<1>7. CASE stage[m] = "new"
  BY <1>5, <1>7 DEF Aligned, Undisturbed
<1>8. CASE stage[m] = "running"
  BY <1>1, <1>6, <1>8 DEF Aligned, Undisturbed
<1>9. CASE stage[m] \notin {"new", "running"}
  BY <1>1, <1>5, <1>9 DEF Aligned, Undisturbed
<1> QED BY <1>7, <1>8, <1>9

LEMMA AlignStep ==
  ASSUME AlignInv, conf' = conf, AlignTypes', NEW n \in Node, Aligned(n)',
         \A m \in Node \ {n} : Undisturbed(m)
  PROVE  AlignInv'
<1>1. Node' = Node
  BY DEF Node
<1>2. \A m \in Node \ {n} : Aligned(m)'
  BY AlignSame DEF AlignInv
<1> QED BY <1>1, <1>2 DEF AlignInv

\* Nothing that matters here goes on.
LEMMA AlignStutter ==
  ASSUME AlignInv,
         UNCHANGED <<conf, chunk, place, stage, where, entered, currEpoch, schBlock, scatter, scBlock, layer, currDir>>
  PROVE  AlignInv'
<1>1. Node' = Node /\ ChunkId' = ChunkId
  BY DEF Node, ChunkId
<1>2. AlignTypes'
  BY <1>1 DEF AlignInv, AlignTypes, Place, Site
<1>3. \A m \in Node : Undisturbed(m)
  BY DEF Undisturbed
<1>4. \A m \in Node : Aligned(m)'
  BY <1>3, AlignSame DEF AlignInv
<1> QED BY <1>1, <1>2, <1>4 DEF AlignInv

\* The chunks of a server whose chunks are all at the scheduler.
LEMMA AllAtScheduler ==
  ASSUME conf \in Confs, NEW n \in Node, currEpoch[n] \in Nat, NEW s \in 0..Scatters,
         \A i \in ChunkId : place[n][i] = "sch" /\ ChunkAt(n, i, s)
  PROVE  /\ s = Scatters => AllNext(n)
         /\ \A i \in ChunkId : /\ chunk[n][i].dir = "FORWARD" /\ chunk[n][i].layer = 0
                               /\ chunk[n][i].epoch = currEpoch[n] + 1 => s = Scatters
                               /\ chunk[n][i].epoch = (IF s = 0 THEN currEpoch[n] ELSE currEpoch[n] + 1)
                               /\ s \in {0, Scatters}
<1>1. Scatters # 0
  BY ScatterFacts
<1>2. ASSUME NEW i \in ChunkId
      PROVE  /\ chunk[n][i].dir = "FORWARD" /\ chunk[n][i].layer = 0
             /\ (s = 0 /\ chunk[n][i].epoch = currEpoch[n]) \/ (s = Scatters /\ chunk[n][i].epoch = currEpoch[n] + 1)
  BY DEF ChunkAt, Scattered
<1> QED BY <1>1, <1>2 DEF AllNext

LEMMA MainAligns ==
  ASSUME AlignInv, NEW n \in Node, Main(n)
  PROVE  AlignInv'
<1>1. /\ UNCHANGED <<conf, chunk, place, currEpoch, schBlock, scatter, scBlock, layer, currDir>>
      /\ \A m \in Node \ {n} : Undisturbed(m)
  BY DEF Main, StartBarrier, LoadChunks, EndBarrier, Done, queues, scheduler, scatterer,
         Enter, Leave, Undisturbed, AlignInv, AlignTypes
<1>2. Node' = Node /\ ChunkId' = ChunkId /\ Scatters' = Scatters /\ conf' = conf
      /\ \A e, s : Base(e, s)' = Base(e, s)
  BY <1>1, ConfSame
<1>3. /\ stage \in [Node -> {"new", "running", "halt", "done"}]
      /\ where \in [Node -> Site] /\ entered \in [Node -> Nat] /\ Aligned(n) /\ conf \in Confs
  BY DEF AlignInv, AlignTypes
<1>4. Resting(n) => Resting(n)' /\ Resting(n)
  <2>1. (Popped(n)' <=> Popped(n)) /\ (AllNext(n)' <=> AllNext(n))
    BY <1>1, <1>2 DEF Popped, AllNext
  <2>2. LayerAt(n, Scatters)' = LayerAt(n, Scatters)
    BY <1>1, <2>1, ConfSame DEF LayerAt
  <2>3. \A i \in ChunkId : ChunkAt(n, i, Scatters) => ChunkAt(n, i, Scatters)'
    <3>1. PICK s : s = Scatters
      OBVIOUS
    <3>2. \A i \in ChunkId : ChunkAt(n, i, s) => ChunkAt(n, i, s)'
      BY <1>1, ChunkAtSame
    <3>3. Scatters' = s
      BY <1>2, <3>1
    <3>4. \A i \in ChunkId : ChunkAt(n, i, s)' => ChunkAt(n, i, Scatters)'
      BY <3>3
    <3> QED BY <3>1, <3>2, <3>4
  <2> QED BY <1>1, <1>2, <2>1, <2>2, <2>3 DEF Resting
<1>11. StoppedEarly(n) => StoppedEarly(n)'
  BY <1>1 DEF StoppedEarly, MayStop
<1>5. /\ stage' \in [Node -> {"new", "running", "halt", "done"}]
      /\ where' \in [Node -> Site] /\ entered' \in [Node -> Nat]
  <2>1. {"", "start", "end"} \subseteq Site
    BY DEF Site
  <2>2. CASE StartBarrier(n) \/ EndBarrier(n)
    <3>1. PICK s \in {"start", "end"} : Enter(n, s) /\ stage' = stage
      BY <2>2 DEF StartBarrier, EndBarrier
    <3>2. where' \in [Node -> Site] /\ stage' = stage
      BY <1>3, <2>1, <3>1 DEF Enter
    <3>3. entered' \in [Node -> Nat]
      <4>1. entered' = [entered EXCEPT ![n] = @ + 1] /\ entered \in [Node -> Nat]
        BY <1>3, <3>1 DEF Enter
      <4> QED BY <4>1
    <3> QED BY <1>3, <3>2, <3>3
  <2>3. CASE LoadChunks(n) \/ Done(n)
    <3>1. PICK s \in {"running", "done"} : /\ where' = [where EXCEPT ![n] = ""] /\ entered' = entered
                                          /\ stage' = [stage EXCEPT ![n] = s]
      BY <2>3 DEF LoadChunks, Done, Leave
    <3> QED BY <1>3, <2>1, <3>1
  <2> QED BY <2>2, <2>3 DEF Main
<1>6. AlignTypes'
  BY <1>1, <1>2, <1>5 DEF AlignInv, AlignTypes, Place, Site
<1>7. CASE StartBarrier(n)
  <2>1. /\ stage[n] = "new" /\ stage'[n] = "new" /\ where[n] = "" /\ where'[n] = "start"
        /\ entered'[n] = entered[n] + 1
    BY <1>3, <1>7 DEF StartBarrier, Enter
  <2>2. Resting(n) /\ schBlock[n] /\ currEpoch[n] = 0 /\ entered[n] = 0
    BY <1>3, <2>1 DEF Aligned
  <2>3. entered'[n] = 1
    <3>1. entered'[n] = entered[n] + 1 /\ entered[n] = 0
      BY <2>1, <2>2
    <3> QED BY <3>1
  <2>4. Aligned(n)'
    BY <1>1, <1>4, <2>1, <2>2, <2>3 DEF Aligned
  <2> QED BY <1>1, <1>2, <1>6, <2>4, AlignStep
<1>8. CASE LoadChunks(n)
  <2>1. /\ where[n] = "start" /\ where'[n] = "" /\ stage'[n] = "running"
        /\ entered'[n] = entered[n]
    BY <1>3, <1>8 DEF LoadChunks, Leave
  <2>2. stage[n] = "new"
    BY <1>3, <2>1 DEF Aligned, Running, Blocking
  <2>3. Resting(n) /\ schBlock[n] /\ currEpoch[n] = 0 /\ entered[n] = 1
    BY <1>3, <2>1, <2>2 DEF Aligned
  <2>4. PICK s : s = Scatters
    OBVIOUS
  <2>5. Scatters' = s /\ s \in 0..Scatters /\ s \in 0..Scatters' /\ Base(0, s) = 1
    BY <1>2, <1>3, <2>4, ScatterFacts, BaseFacts
  <2>6. \A i \in ChunkId : ChunkAt(n, i, s)' /\ place'[n][i] = "sch"
    BY <1>1, <1>2, <1>4, <2>3, <2>5 DEF Resting, AllNext
  <2>7. Resting(n)' /\ schBlock'[n]
    BY <1>1, <1>4, <2>3
  <2>8. ~Popped(n)'
    BY <1>2, <2>6 DEF Popped, Scattered
  <2>9. Blocking(n)'
    BY <1>1, <1>2, <2>1, <2>7, <2>8 DEF Blocking, Resting
  <2>10. Extra(n)' = 0
    BY <2>1, <2>7 DEF Extra, Resting
  <2>11. entered'[n] = Base(currEpoch[n], s)' + Extra(n)'
    <3>1. Base(currEpoch[n], s)' = 1
      BY <1>1, <1>2, <2>3, <2>5
    <3>2. entered'[n] = 1
      BY <2>1, <2>3
    <3> QED BY <2>10, <3>1, <3>2
  <2>12. Running(n, s)'
    BY <1>1, <1>2, <2>3, <2>5, <2>6, <2>7, <2>9, <2>11 DEF Running, Resting
  <2>13. Aligned(n)'
    BY <2>1, <2>5, <2>12 DEF Aligned
  <2> QED BY <1>1, <1>2, <1>6, <2>13, AlignStep
<1>9. CASE EndBarrier(n)
  <2>1. /\ stage[n] = "halt" /\ stage'[n] = "halt" /\ where[n] = "" /\ where'[n] = "end"
        /\ entered'[n] = entered[n] + 1
    BY <1>3, <1>9 DEF EndBarrier, Enter
  <2>2. Resting(n)
    BY <1>3, <2>1 DEF Aligned
  <2>3. ASSUME Finished(n) PROVE Aligned(n)'
    <3>1. /\ schBlock[n] /\ currEpoch[n] = conf.numEpochs /\ entered[n] = Base(conf.numEpochs, Scatters)
          /\ Base(conf.numEpochs, Scatters)' = Base(conf.numEpochs, Scatters)
      BY <1>2, <2>1, <2>3 DEF Finished
    <3>2. Finished(n)'
      BY <1>1, <1>2, <2>1, <3>1 DEF Finished
    <3> QED BY <1>4, <2>1, <2>2, <3>2 DEF Aligned
  <2>4. Aligned(n)'
    <3>1. Finished(n) \/ StoppedEarly(n)
      BY <1>3, <2>1 DEF Aligned
    <3>2. CASE StoppedEarly(n)
      BY <1>4, <1>11, <2>1, <2>2, <3>2 DEF Aligned
    <3> QED BY <2>3, <3>1, <3>2
  <2> QED BY <1>1, <1>2, <1>6, <2>4, AlignStep
<1>10. CASE Done(n)
  <2>1. where[n] = "end" /\ where'[n] = "" /\ stage'[n] = "done"
    BY <1>3, <1>10 DEF Done, Leave
  <2>2. stage[n] \notin {"new", "running"}
    BY <1>3, <2>1 DEF Aligned, Running, Blocking
  <2>3. Resting(n) /\ (Finished(n) \/ StoppedEarly(n))
    BY <1>3, <2>2 DEF Aligned
  <2>5. Finished(n) => Finished(n)'
    BY <1>1, <1>2, <2>1 DEF Finished
  <2>4. Aligned(n)'
    BY <1>4, <1>11, <2>1, <2>3, <2>5 DEF Aligned
  <2> QED BY <1>1, <1>2, <1>6, <2>4, AlignStep
<1> QED BY <1>7, <1>8, <1>9, <1>10 DEF Main

-----------------------------------------------------------------------------
(* Where the phases take a chunk.                                          *)

\* A chunk of a vertex phase.
AsVertex(c, d) ==
  d \in Chunk /\ d.epoch = c.epoch /\ d.layer = c.layer /\ d.dir = c.dir /\ d.vertex

LEMMA VertexChunk ==
  ASSUME NEW c \in Chunk
  PROVE  AsVertex(c, [c EXCEPT !.vertex = TRUE])
BY DEF AsVertex, Chunk

\* ApplyVertex, forward: to the next scatter phase.
LEMMA ForwardNext ==
  ASSUME conf \in Confs, NEW c \in Chunk, NEW s \in 0..Scatters, Between(c, s), c.dir = "FORWARD",
         conf.gnn = "GAT" => s # Turn, NEW d, AsVertex(c, d)
  PROVE  /\ Inc(d) \in Chunk /\ Inc(d).epoch = c.epoch
         /\ s < Scatters /\ Between(Inc(d), s + 1)
<1>1. d \in Chunk /\ d.epoch = c.epoch /\ d.layer = c.layer /\ d.dir = "FORWARD"
  BY DEF AsVertex
<1>2. s <= Turn /\ c.layer = s /\ s \in Nat
  BY DEF Between, DirOf, LayerOf
<1>3. /\ conf.gnn \in Gnn /\ Turn < Scatters /\ Turn \in Nat /\ Scatters \in Nat
      /\ conf.numLayers \in Nat /\ conf.numLayers > 0
  BY ScatterFacts
<1>4. s < Scatters
  BY <1>2, <1>3
<1>5. CASE conf.gnn = "GAT"
  <2>1. Inc(d) = [d EXCEPT !.layer = @ + 1]
    BY <1>1, <1>5 DEF Inc, IncLayer, IncLayerGAT
  <2>2. Inc(d) \in Chunk /\ Inc(d).epoch = c.epoch /\ Inc(d).layer = s + 1 /\ Inc(d).dir = "FORWARD"
    <3>1. PICK l : l = s + 1 /\ l \in Nat /\ l = d.layer + 1
      BY <1>1, <1>2
    <3>2. Inc(d) = [d EXCEPT !.layer = l]
      BY <2>1, <3>1
    <3> QED BY <1>1, <3>1, <3>2 DEF Chunk
  <2>3. s + 1 <= Turn
    BY <1>2, <1>3, <1>5
  <2>4. DirOf(s + 1) = "FORWARD" /\ LayerOf(s + 1) = s + 1
    BY <2>3 DEF DirOf, LayerOf
  <2> QED BY <1>4, <2>2, <2>4 DEF Between
<1>6. CASE conf.gnn = "GCN" /\ s = Turn
  <2>1. Turn = conf.numLayers - 1 /\ Scatters = 2 * conf.numLayers - 2
    BY <1>6 DEF Turn, Scatters
  <2>2. d.layer + 1 = conf.numLayers
    BY <1>1, <1>2, <1>3, <1>6, <2>1
  <2>3. Inc(d) = [d EXCEPT !.dir = "BACKWARD"]
    BY <1>1, <1>6, <2>2 DEF Inc, IncLayer, IncLayerGCN
  <2>4. Inc(d) \in Chunk /\ Inc(d).epoch = c.epoch /\ Inc(d).layer = s /\ Inc(d).dir = "BACKWARD"
    BY <1>1, <1>2, <2>3 DEF Chunk, PropType
  <2>5. ~(s + 1 <= Turn) /\ Scatters + 1 - (s + 1) = s
    BY <1>2, <1>3, <1>6, <2>1
  <2>6. DirOf(s + 1) = "BACKWARD" /\ LayerOf(s + 1) = s
    BY <2>5 DEF DirOf, LayerOf
  <2> QED BY <1>4, <2>4, <2>6 DEF Between
<1>7. CASE conf.gnn = "GCN" /\ s # Turn
  <2>1. Turn = conf.numLayers - 1
    BY <1>7 DEF Turn
  <2>2. d.layer + 1 # conf.numLayers
    BY <1>1, <1>2, <1>3, <1>7, <2>1
  <2>3. Inc(d) = [d EXCEPT !.layer = @ + 1]
    BY <1>1, <1>7, <2>2 DEF Inc, IncLayer, IncLayerGCN
  <2>4. Inc(d) \in Chunk /\ Inc(d).epoch = c.epoch /\ Inc(d).layer = s + 1 /\ Inc(d).dir = "FORWARD"
    <3>1. PICK l : l = s + 1 /\ l \in Nat /\ l = d.layer + 1
      BY <1>1, <1>2
    <3>2. Inc(d) = [d EXCEPT !.layer = l]
      BY <2>3, <3>1
    <3> QED BY <1>1, <3>1, <3>2 DEF Chunk
  <2>5. s + 1 <= Turn
    BY <1>2, <1>3, <1>7
  <2>6. DirOf(s + 1) = "FORWARD" /\ LayerOf(s + 1) = s + 1
    BY <2>5 DEF DirOf, LayerOf
  <2> QED BY <1>4, <2>4, <2>6 DEF Between
<1> QED BY <1>1, <1>3, <1>5, <1>6, <1>7 DEF Gnn

\* The chunk of a backward vertex phase after scatter phase s, its layer decremented.
BackAt(s, d) == d.dir = "BACKWARD" /\ d.layer = Scatters - s /\ d.vertex = TRUE

\* ApplyVertex, backward: to the next scatter phase or, after the last one, to
\* the next epoch.
LEMMA BackwardNext ==
  ASSUME conf \in Confs, NEW c \in Chunk, NEW s \in 0..Scatters, Between(c, s), c.dir # "FORWARD",
         NEW b, AsVertex(c, b), NEW d, d = Inc(b)
  PROVE  /\ d \in Chunk /\ d.epoch = c.epoch /\ d.dir = "BACKWARD"
         /\ IsLastLayer(d) <=> s = Scatters
         /\ s # Scatters => Between(d, s + 1)
         /\ s = Scatters => /\ Inc(d) \in Chunk /\ Inc(d).epoch = c.epoch + 1
                            /\ Inc(d).dir = "FORWARD" /\ Inc(d).layer = 0
         /\ c.layer > 0
         /\ BackAt(s, d)
<1>1. /\ b \in Chunk /\ b.epoch = c.epoch /\ b.layer = c.layer /\ b.dir = "BACKWARD" /\ b.vertex
      /\ c.dir = "BACKWARD"
  BY DEF Chunk, PropType, AsVertex
<1>2. /\ conf.gnn \in Gnn /\ Turn < Scatters /\ Turn \in Nat /\ Scatters \in Nat
  BY ScatterFacts
<1>3. ~(s <= Turn) /\ c.layer = Scatters + 1 - s /\ c.layer > 0
  BY <1>1, <1>2 DEF Between, DirOf, LayerOf
<1>4. d = [b EXCEPT !.layer = @ - 1]
  <2>1. b.layer # 0
    BY <1>1, <1>3
  <2>2. d = Inc(b)
    OBVIOUS
  <2>3. conf.gnn = "GCN" \/ conf.gnn = "GAT"
    BY <1>2 DEF Gnn
  <2>4. CASE conf.gnn = "GCN"
    BY <1>1, <2>1, <2>2, <2>4 DEF Inc, IncLayer, IncLayerGCN
  <2>5. CASE conf.gnn = "GAT"
    BY <1>1, <2>1, <2>2, <2>5 DEF Inc, IncLayer, IncLayerGAT
  <2> QED BY <2>3, <2>4, <2>5
<1>5. d \in Chunk /\ d.epoch = c.epoch /\ d.dir = "BACKWARD" /\ d.layer = c.layer - 1 /\ d.vertex
  <2>1. b.layer - 1 \in Nat /\ b.layer \in Nat
    BY <1>1, <1>3 DEF Chunk
  <2>2. PICK l : l = b.layer - 1 /\ l \in Nat /\ l = c.layer - 1
    BY <1>1, <2>1
  <2>3. d = [b EXCEPT !.layer = l]
    BY <1>4, <2>2
  <2>4. d \in Chunk /\ d.epoch = b.epoch /\ d.dir = b.dir /\ d.layer = l /\ d.vertex = b.vertex
    BY <1>1, <2>2, <2>3 DEF Chunk
  <2> QED BY <1>1, <2>2, <2>4
<1>6. d.layer = Scatters - s
  BY <1>2, <1>3, <1>5
<1>7. IsLastLayer(d) <=> s = Scatters
  <2>1. d.layer = 0 <=> s = Scatters
    BY <1>2, <1>6
  <2> QED BY <1>5, <2>1 DEF IsLastLayer
<1>8. ASSUME s # Scatters PROVE Between(d, s + 1)
  <2>1. ~(s + 1 <= Turn) /\ Scatters + 1 - (s + 1) = Scatters - s
    BY <1>2, <1>3
  <2>2. DirOf(s + 1) = "BACKWARD" /\ LayerOf(s + 1) = Scatters - s
    BY <2>1 DEF DirOf, LayerOf
  <2> QED BY <1>5, <1>6, <2>2 DEF Between
<1>9. ASSUME s = Scatters
      PROVE  /\ Inc(d) \in Chunk /\ Inc(d).epoch = c.epoch + 1
             /\ Inc(d).dir = "FORWARD" /\ Inc(d).layer = 0
  <2>1. d.layer = 0
    BY <1>2, <1>6, <1>9
  <2>2. Inc(d) = NextEpoch(d) \/ Inc(d) = [NextEpoch(d) EXCEPT !.vertex = TRUE]
    BY <1>5, <2>1 DEF Inc, IncLayer, IncLayerGCN, IncLayerGAT
  <2>3. PICK e : e = d.epoch + 1 /\ e \in Nat /\ e = c.epoch + 1
    <3>1. d.epoch \in Nat /\ d.epoch = c.epoch
      BY <1>5 DEF Chunk
    <3> QED BY <3>1
  <2>4. /\ NextEpoch(d) \in Chunk /\ NextEpoch(d).epoch = c.epoch + 1
        /\ NextEpoch(d).dir = "FORWARD" /\ NextEpoch(d).layer = 0
    <3>1. NextEpoch(d) = [d EXCEPT !.dir = "FORWARD", !.epoch = e]
      BY <2>3 DEF NextEpoch
    <3>2. "FORWARD" \in PropType
      BY DEF PropType
    <3>3. /\ NextEpoch(d) \in Chunk /\ NextEpoch(d).epoch = e
          /\ NextEpoch(d).dir = "FORWARD" /\ NextEpoch(d).layer = d.layer
      BY <1>5, <2>3, <3>1, <3>2 DEF Chunk
    <3> QED BY <2>1, <2>3, <3>3
  <2>5. PICK f : f = NextEpoch(d)
    OBVIOUS
  <2>6. f \in Chunk => /\ [f EXCEPT !.vertex = TRUE] \in Chunk
                       /\ [f EXCEPT !.vertex = TRUE].epoch = f.epoch
                       /\ [f EXCEPT !.vertex = TRUE].dir = f.dir
                       /\ [f EXCEPT !.vertex = TRUE].layer = f.layer
    BY DEF Chunk
  <2> QED BY <2>2, <2>4, <2>5, <2>6
<1>10. BackAt(s, d)
  BY <1>5, <1>6 DEF Chunk, BackAt
<1> QED BY <1>3, <1>5, <1>6, <1>7, <1>8, <1>9, <1>10

\* Gather, at the turn of a GAT network.
LEMMA TurnNext ==
  ASSUME conf \in Confs, NEW c \in Chunk, NEW s \in 0..Scatters, Between(c, s),
         conf.gnn = "GAT"
  PROVE  /\ IsTurn(conf.gnn, conf.numLayers, c) <=> s = Turn
         /\ s = Turn => /\ s < Scatters /\ [c EXCEPT !.dir = "BACKWARD"] \in Chunk
                        /\ [c EXCEPT !.dir = "BACKWARD"].epoch = c.epoch
                        /\ Between([c EXCEPT !.dir = "BACKWARD"], s + 1)
<1>1. /\ Turn = conf.numLayers /\ Scatters = 2 * conf.numLayers
      /\ conf.numLayers \in Nat /\ conf.numLayers > 0
  BY ScatterFacts DEF Turn, Scatters
<1>2. s <= Turn <=> c.dir = "FORWARD"
  BY DEF Between, DirOf
<1>3. s <= Turn => c.layer = s
  BY DEF Between, LayerOf
<1>4. IsTurn(conf.gnn, conf.numLayers, c) <=> s = Turn
  <2>1. IsTurn(conf.gnn, conf.numLayers, c) <=> c.dir = "FORWARD" /\ c.layer = Turn
    BY <1>1 DEF IsTurn
  <2> QED BY <1>1, <1>2, <1>3, <2>1
<1>5. ASSUME s = Turn
      PROVE  /\ s < Scatters /\ [c EXCEPT !.dir = "BACKWARD"] \in Chunk
             /\ [c EXCEPT !.dir = "BACKWARD"].epoch = c.epoch
             /\ Between([c EXCEPT !.dir = "BACKWARD"], s + 1)
  <2>1. PICK d : d = [c EXCEPT !.dir = "BACKWARD"]
    OBVIOUS
  <2>2. d \in Chunk /\ d.epoch = c.epoch /\ d.dir = "BACKWARD" /\ d.layer = c.layer
    BY <2>1 DEF Chunk, PropType
  <2>3. ~(s + 1 <= Turn) /\ Scatters + 1 - (s + 1) = s /\ c.layer = s /\ s < Scatters
    BY <1>1, <1>3, <1>5
  <2>4. DirOf(s + 1) = "BACKWARD" /\ LayerOf(s + 1) = s
    BY <2>3 DEF DirOf, LayerOf
  <2> QED BY <2>1, <2>2, <2>3, <2>4 DEF Between
<1> QED BY <1>4, <1>5

-----------------------------------------------------------------------------
(* A chunk moves, and barriers and counters of the epoch stay.             *)

Steady == UNCHANGED <<conf, stage, where, entered, currEpoch, schBlock, scatter, scBlock>>

LEMMA AlignFacts ==
  ASSUME AlignInv
  PROVE  /\ conf \in Confs
         /\ chunk \in [Node -> [ChunkId -> Chunk]] /\ place \in [Node -> [ChunkId -> Place]]
         /\ layer \in [Node -> Int]
         /\ \A n \in Node : /\ Aligned(n) /\ currEpoch[n] \in Nat /\ currEpoch[n] <= conf.numEpochs
                            /\ stage[n] = "running" => \E s \in 0..Scatters : Running(n, s)
<1>1. conf \in Confs /\ conf.numEpochs \in Nat
  BY ScatterFacts DEF AlignInv, AlignTypes
<1>2. /\ chunk \in [Node -> [ChunkId -> Chunk]] /\ place \in [Node -> [ChunkId -> Place]]
      /\ layer \in [Node -> Int] /\ currEpoch \in [Node -> 0..conf.numEpochs]
      /\ \A n \in Node : Aligned(n)
  BY DEF AlignInv, AlignTypes
<1>3. \A n \in Node : currEpoch[n] \in Nat /\ currEpoch[n] <= conf.numEpochs
  BY <1>1, <1>2
<1>4. \A n \in Node : stage[n] = "running" => \E s \in 0..Scatters : Running(n, s)
  BY <1>2 DEF Aligned
<1> QED BY <1>1, <1>2, <1>3, <1>4

LEMMA MoveAligns ==
  ASSUME AlignInv, Steady, NEW n \in Node, stage[n] = "running",
         NEW s \in 0..Scatters, Running(n, s),
         NEW i \in ChunkId, NEW q \in Place, NEW c \in Chunk, Send(n, i, q, c),
         ChunkAt(n, i, s)', currEpoch[n] # 0, Blocking(n)',
         layer' \in [Node -> Int], \A m \in Node \ {n} : layer'[m] = layer[m],
         layer'[n] = LayerAt(n, s)', currDir' \in [Node -> PropType]
  PROVE  AlignInv'
<1>1. /\ place' = [place EXCEPT ![n][i] = q] /\ chunk' = [chunk EXCEPT ![n][i] = c]
      /\ place \in [Node -> [ChunkId -> Place]] /\ chunk \in [Node -> [ChunkId -> Chunk]]
  BY AlignFacts DEF Send
<1>2. /\ place' \in [Node -> [ChunkId -> Place]] /\ chunk' \in [Node -> [ChunkId -> Chunk]]
      /\ \A m \in Node \ {n} : place'[m] = place[m] /\ chunk'[m] = chunk[m]
      /\ \A j \in ChunkId \ {i} : place'[n][j] = place[n][j] /\ chunk'[n][j] = chunk[n][j]
  <2>1. place' \in [Node -> [ChunkId -> Place]]
    BY <1>1
  <2>2. chunk' \in [Node -> [ChunkId -> Chunk]]
    BY <1>1
  <2> QED BY <1>1, <2>1, <2>2
<1>3. conf' = conf /\ Node' = Node /\ ChunkId' = ChunkId /\ Scatters' = Scatters
  BY ConfSame DEF Steady
<1>4. AlignTypes'
  BY <1>2, <1>3 DEF AlignInv, AlignTypes, Place, Site, Steady
<1>5. \A m \in Node \ {n} : Undisturbed(m)
  BY <1>2 DEF Undisturbed, Steady
<1>6. \A j \in ChunkId : ChunkAt(n, j, s)'
  <2>1. ASSUME NEW j \in ChunkId \ {i} PROVE ChunkAt(n, j, s)'
    BY <1>2, <1>3, ChunkAtSame DEF Running, Steady
  <2> QED BY <2>1
<1>7. entered'[n] = Base(currEpoch[n], s)' + Extra(n)'
  <2>1. entered[n] = Base(currEpoch[n], s) + Extra(n)
    BY DEF Running
  <2>2. Extra(n)' = Extra(n) /\ Base(currEpoch[n], s)' = Base(currEpoch[n], s) /\ entered'[n] = entered[n]
    BY <1>3, ConfSame DEF Extra, Steady
  <2> QED BY <2>1, <2>2
<1>8. Running(n, s)'
  <2>1. currEpoch'[n] # 0
    BY DEF Steady
  <2> QED BY <1>3, <1>6, <1>7, <2>1 DEF Running
<1>9. Aligned(n)'
  <2>1. stage'[n] = "running"
    BY DEF Steady
  <2> QED BY <1>3, <1>8, <2>1 DEF Aligned
<1> QED BY <1>3, <1>4, <1>5, <1>9, AlignStep

InGap(n, i) ==
  \/ place[n][i] \in {"AE", "GA", "AV"}
  \/ place[n][i] = "sch" /\ where[n] = "" /\ chunk[n][i].epoch <= currEpoch[n]

\* The state of a server with a chunk between two scatter phases.
LEMMA GapFacts ==
  ASSUME AlignInv, NEW n \in Node, NEW s \in 0..Scatters, Running(n, s), NEW i \in ChunkId,
         InGap(n, i)
  PROVE  /\ where[n] = "" /\ schBlock[n] /\ scBlock[n] /\ scatter[n] = "run" /\ currEpoch[n] # 0
         /\ layer[n] = LayerAt(n, s) /\ chunk[n][i] \in Chunk
         /\ place[n][i] = "sch" => s = 0 /\ chunk[n][i].dir = "FORWARD" /\ chunk[n][i].layer = 0
                                   /\ chunk[n][i].epoch = currEpoch[n]
<1>0. currEpoch[n] \in Nat /\ Scatters # 0 /\ chunk[n][i].epoch \in Nat
  <2>1. conf \in Confs /\ currEpoch[n] \in Nat /\ chunk[n][i] \in Chunk
    BY AlignFacts
  <2>2. Scatters > 1 /\ Scatters \in Nat
    BY <2>1, ScatterFacts
  <2>3. Scatters # 0
    BY <2>2
  <2> QED BY <2>1, <2>3 DEF Chunk
<1>1. ~AllNext(n)
  <2>1. CASE place[n][i] # "sch"
    BY <2>1 DEF AllNext
  <2>2. CASE chunk[n][i].epoch <= currEpoch[n]
    <3>1. chunk[n][i].epoch # currEpoch[n] + 1
      BY <1>0, <2>2
    <3> QED BY <3>1 DEF AllNext
  <2> QED BY <2>1, <2>2 DEF InGap
<1>2. place[n][i] \notin Scattered \cup {"SC"}
  BY DEF Scattered, InGap
<1>3. schBlock[n] /\ where[n] # "epoch" /\ scBlock[n] /\ scatter[n] = "run"
      /\ layer[n] = LayerAt(n, s)
  BY <1>1, <1>2 DEF Running, Blocking, Scattered, AlignInv, AlignTypes
<1>4. where[n] = ""
  BY <1>2, <1>3 DEF Running, Blocking, InGap
<1>5. ChunkAt(n, i, s) /\ chunk[n][i] \in Chunk
  BY AlignFacts DEF Running
<1>6. ASSUME place[n][i] = "sch"
      PROVE  s = 0 /\ chunk[n][i].dir = "FORWARD" /\ chunk[n][i].layer = 0
             /\ chunk[n][i].epoch = currEpoch[n]
  <2>1. chunk[n][i].epoch <= currEpoch[n]
    BY <1>6 DEF InGap
  <2>2. chunk[n][i].epoch # currEpoch[n] + 1
    BY <1>0, <2>1
  <2> QED BY <1>5, <1>6, <2>2 DEF ChunkAt, Scattered
<1>7. currEpoch[n] # 0
  <2>1. ASSUME currEpoch[n] = 0, place[n][i] = "sch" PROVE FALSE
    <3>1. s = Scatters /\ Scatters # 0
      BY <1>0, <2>1 DEF Running
    <3> QED BY <1>6, <2>1, <3>1
  <2> QED BY <2>1 DEF Running, InGap
<1> QED BY <1>3, <1>4, <1>5, <1>6, <1>7

\* From queue to queue between two scatter phases, to the next, or to the scheduler.
LEMMA GapAligns ==
  ASSUME AlignInv, Steady, UNCHANGED <<layer, currDir>>, NEW n \in Node, stage[n] = "running",
         NEW s \in 0..Scatters, Running(n, s), NEW i \in ChunkId,
         InGap(n, i),
         NEW q \in {"GA", "AV", "SC", "sch"}, NEW c \in Chunk, Send(n, i, q, c),
         ChunkAt(n, i, s)'
  PROVE  AlignInv'
<1>1. /\ where[n] = "" /\ schBlock[n] /\ scBlock[n] /\ scatter[n] = "run" /\ currEpoch[n] # 0
      /\ layer[n] = LayerAt(n, s)
  BY GapFacts
<1>2. place' = [place EXCEPT ![n][i] = q] /\ place \in [Node -> [ChunkId -> Place]]
      /\ layer \in [Node -> Int]
  BY AlignFacts DEF Send
<1>3. place[n][i] \notin Scattered /\ place'[n][i] \notin Scattered
      /\ \A j \in ChunkId \ {i} : place'[n][j] = place[n][j]
  BY <1>2 DEF Scattered, InGap
<1>4. Popped(n)' <=> Popped(n)
  <2>1. ChunkId' = ChunkId
    BY ConfSame DEF Steady
  <2> QED BY <1>3, <2>1 DEF Popped
<1>5. Blocking(n)'
  <2>1. /\ where'[n] = "" /\ schBlock'[n] /\ scBlock'[n] /\ scatter'[n] = "run" /\ conf' = conf
    BY <1>1 DEF Steady
  <2>2. scBlock[n] /\ conf.build # "Lambda" => ~Popped(n)
    BY DEF Running, Blocking
  <2> QED BY <1>1, <1>4, <2>1, <2>2 DEF Blocking
<1>6. layer'[n] = LayerAt(n, s)'
  BY <1>1, <1>4, ConfSame DEF LayerAt, Steady
<1>7. currDir' \in [Node -> PropType] /\ layer' \in [Node -> Int] /\ q \in Place
      /\ \A m \in Node \ {n} : layer'[m] = layer[m]
  BY <1>2 DEF AlignInv, AlignTypes, Place
<1> QED BY <1>1, <1>5, <1>6, <1>7, MoveAligns

LEMMA WorkAligns ==
  ASSUME AlignInv, NEW n \in Node, NEW i \in ChunkId, Work(n, i)
  PROVE  AlignInv'
<1>1. Steady /\ UNCHANGED <<layer, currDir>> /\ stage[n] = "running" /\ InGap(n, i)
  BY DEF Work, Gather, ApplyVertex, ApplyEdge, Steady, run, scheduler, scatterer, InQueue, InGap
<1>2. PICK s \in 0..Scatters : Running(n, s)
  BY <1>1, AlignFacts
<1>3. conf \in Confs /\ chunk[n][i] \in Chunk /\ ChunkAt(n, i, s)
  BY <1>2, AlignFacts DEF Running
<1>4. PICK c : c = chunk[n][i]
  OBVIOUS
<1>5. ASSUME place[n][i] \in {"AE", "GA", "AV"}
      PROVE  /\ c.epoch = currEpoch[n] /\ Between(c, s)
             /\ place[n][i] = "AE" \/ (place[n][i] = "GA" /\ conf.gnn = "GAT") => s > 0
             /\ place[n][i] = "AV" /\ conf.gnn = "GAT" => s # Turn
  BY <1>3, <1>4, <1>5 DEF ChunkAt, Scattered
<1>6. conf' = conf /\ currEpoch' = currEpoch /\ Scatters' = Scatters /\ Turn' = Turn
      /\ \A d, t : Between(d, t)' <=> Between(d, t)
  BY <1>1, ConfSame, BetweenSame DEF Steady
<1>7. ASSUME NEW q \in {"GA", "AV", "SC", "sch"}, NEW d \in Chunk, Send(n, i, q, d)
      PROVE  /\ place'[n][i] = q /\ chunk'[n][i] = d
             /\ ChunkAt(n, i, s)' => AlignInv'
  <2>1. place'[n][i] = q /\ chunk'[n][i] = d
    BY <1>7, AlignFacts DEF Send
  <2> QED BY <1>1, <1>2, <1>7, <2>1, GapAligns
<1>8. CASE Gather(n, i)
  <2>1. place[n][i] = "GA"
    BY <1>8 DEF Gather, InQueue
  <2>2. CASE IsTurn(conf.gnn, conf.numLayers, c)
    <3>1. PICK d : d = [c EXCEPT !.dir = "BACKWARD"]
      OBVIOUS
    <3>2. Send(n, i, "SC", d) /\ conf.gnn = "GAT"
      BY <1>4, <1>8, <2>2, <3>1 DEF Gather, IsTurn
    <3>3. s < Scatters /\ d \in Chunk /\ d.epoch = currEpoch[n] /\ Between(d, s + 1)
      BY <1>3, <1>4, <1>5, <2>1, <2>2, <3>1, <3>2, TurnNext
    <3>4. place'[n][i] = "SC" /\ chunk'[n][i] = d
      BY <1>7, <3>2, <3>3
    <3>5. ChunkAt(n, i, s)'
      BY <1>6, <3>3, <3>4 DEF ChunkAt
    <3> QED BY <1>7, <3>2, <3>3, <3>5
  <2>3. CASE ~IsTurn(conf.gnn, conf.numLayers, c)
    <3>1. Send(n, i, "AV", c) /\ c \in Chunk
      BY <1>3, <1>4, <1>8, <2>3 DEF Gather
    <3>2. conf.gnn = "GAT" => s # Turn
      BY <1>3, <1>4, <1>5, <2>1, <2>3, TurnNext
    <3>3. place'[n][i] = "AV" /\ chunk'[n][i] = c
      BY <1>7, <3>1
    <3>4. ChunkAt(n, i, s)'
      BY <1>5, <1>6, <2>1, <3>2, <3>3 DEF ChunkAt
    <3> QED BY <1>7, <3>1, <3>4
  <2> QED BY <2>2, <2>3
<1>9. CASE ApplyVertex(n, i)
  <2>1. place[n][i] = "AV"
    BY <1>9 DEF ApplyVertex, InQueue
  <2>2. PICK b : b = [c EXCEPT !.vertex = TRUE]
    OBVIOUS
  <2>3. AsVertex(c, b)
    BY <1>3, <1>4, <2>2, VertexChunk
  <2>4. CASE c.dir = "FORWARD"
    <3>1. Applied(chunk[n][i]) = b
      BY <1>4, <2>2, <2>4 DEF Applied
    <3>2. b.dir = "FORWARD" /\ ~IsLastLayer(b)
      BY <2>3, <2>4 DEF AsVertex, IsLastLayer
    <3>3. Send(n, i, "SC", Inc(b))
      BY <1>9, <3>1, <3>2 DEF ApplyVertex
    <3>4. /\ Inc(b) \in Chunk /\ Inc(b).epoch = c.epoch /\ s < Scatters /\ Between(Inc(b), s + 1)
      BY <1>3, <1>4, <1>5, <2>1, <2>3, <2>4, ForwardNext
    <3>5. place'[n][i] = "SC" /\ chunk'[n][i] = Inc(b)
      BY <1>7, <3>3, <3>4
    <3>6. ChunkAt(n, i, s)'
      BY <1>5, <1>6, <2>1, <3>4, <3>5 DEF ChunkAt
    <3> QED BY <1>7, <3>3, <3>4, <3>6
  <2>5. CASE c.dir # "FORWARD"
    <3>1. PICK d : d = Inc(b)
      OBVIOUS
    <3>2. Applied(chunk[n][i]) = d
      BY <1>4, <2>2, <2>5, <3>1 DEF Applied
    <3>3. /\ d \in Chunk /\ d.epoch = c.epoch /\ d.dir = "BACKWARD"
          /\ IsLastLayer(d) <=> s = Scatters
          /\ s # Scatters => Between(d, s + 1)
          /\ s = Scatters => /\ Inc(d) \in Chunk /\ Inc(d).epoch = c.epoch + 1
                             /\ Inc(d).dir = "FORWARD" /\ Inc(d).layer = 0
      <4>1. Between(c, s) /\ c \in Chunk /\ conf \in Confs
        BY <1>3, <1>4, <1>5, <2>1
      <4> QED BY <2>3, <2>5, <3>1, <4>1, BackwardNext
    <3>4. CASE s = Scatters
      <4>1. Send(n, i, "sch", Inc(d)) /\ Inc(d) \in Chunk
        BY <1>9, <3>2, <3>3, <3>4 DEF ApplyVertex
      <4>2. place'[n][i] = "sch" /\ chunk'[n][i] = Inc(d)
        BY <1>7, <4>1
      <4>3. Inc(d).epoch = currEpoch[n] + 1 /\ Inc(d).dir = "FORWARD" /\ Inc(d).layer = 0
        BY <1>5, <2>1, <3>3, <3>4
      <4>4. ChunkAt(n, i, s)'
        BY <1>6, <3>4, <4>2, <4>3 DEF ChunkAt
      <4> QED BY <1>7, <4>1, <4>4
    <3>5. CASE s # Scatters
      <4>1. Send(n, i, "SC", d)
        BY <1>9, <3>2, <3>3, <3>5 DEF ApplyVertex
      <4>2. place'[n][i] = "SC" /\ chunk'[n][i] = d
        BY <1>7, <3>3, <4>1
      <4>3. s < Scatters
        <5>1. Scatters \in Nat
          BY <1>3, ScatterFacts
        <5> QED BY <3>5, <5>1
      <4>4. ChunkAt(n, i, s)'
        BY <1>5, <1>6, <2>1, <3>3, <3>5, <4>2, <4>3 DEF ChunkAt
      <4> QED BY <1>7, <3>3, <4>1, <4>4
    <3> QED BY <3>4, <3>5
  <2> QED BY <2>4, <2>5
<1>10. CASE ApplyEdge(n, i)
  <2>1. place[n][i] = "AE"
    BY <1>10 DEF ApplyEdge, InQueue
  <2>2. PICK d : d = [c EXCEPT !.vertex = FALSE]
    OBVIOUS
  <2>3. Send(n, i, "GA", d)
    BY <1>4, <1>10, <2>2 DEF ApplyEdge
  <2>4. d \in Chunk /\ d.epoch = c.epoch /\ d.layer = c.layer /\ d.dir = c.dir
    BY <1>3, <1>4, <2>2 DEF Chunk
  <2>5. Between(d, s)
    BY <1>5, <2>1, <2>4 DEF Between
  <2>6. place'[n][i] = "GA" /\ chunk'[n][i] = d
    BY <1>7, <2>3, <2>4
  <2>7. ChunkAt(n, i, s)'
    BY <1>5, <1>6, <2>1, <2>4, <2>5, <2>6 DEF ChunkAt
  <2> QED BY <1>7, <2>3, <2>4, <2>7
<1> QED BY <1>8, <1>9, <1>10 DEF Work

\* A step of the scheduler, which only looks at a server whose chunks are all
\* with it, or that has begun the epoch.
LEMMA AtScheduler ==
  ASSUME AlignInv, NEW n \in Node, AllIn(n, "sch"), where[n] = "",
         NEW s \in 0..Scatters, Running(n, s)
  PROVE  /\ scBlock[n] /\ scatter[n] = "run" /\ ~Popped(n)
         /\ \A i \in ChunkId : place[n][i] = "sch" /\ ChunkAt(n, i, s)
         /\ schBlock[n] => Extra(n) = 0
         /\ ~schBlock[n] => Extra(n) = 1
<1>1. /\ \A i \in ChunkId : place[n][i] = "sch" /\ ChunkAt(n, i, s)
      /\ 0 \in ChunkId
  <2>1. 0 \in ChunkId
    BY AlignFacts, ConfFacts
  <2> QED BY <2>1 DEF AllIn, InQueue, Running
<1>2. scBlock[n] /\ scatter[n] = "run" /\ ~Popped(n)
  BY <1>1 DEF Running, Blocking, Popped, Scattered, AlignInv, AlignTypes
<1>3. (schBlock[n] => Extra(n) = 0) /\ (~schBlock[n] => Extra(n) = 1)
  BY <1>2 DEF Extra
<1> QED BY <1>1, <1>2, <1>3

LEMMA AddZero == \A b \in Int : b + 0 = b
OBVIOUS

ForNext(n, i) == chunk[n][i].epoch = currEpoch[n] + 1

\* What the end of an epoch looks like, to the scheduler and at rest.
LEMMA RestingFacts ==
  ASSUME AlignInv, NEW n \in Node, AllIn(n, "sch"), where[n] = "",
         NEW s \in 0..Scatters, Running(n, s),
         NEW i \in ChunkId, ForNext(n, i)
  PROVE  /\ s = Scatters /\ AllNext(n) /\ Resting(n)
         /\ schBlock[n] => entered[n] = Base(currEpoch[n], Scatters)
<1>1. /\ scBlock[n] /\ scatter[n] = "run" /\ ~Popped(n)
      /\ \A j \in ChunkId : place[n][j] = "sch" /\ ChunkAt(n, j, s)
      /\ schBlock[n] => Extra(n) = 0
  BY AtScheduler
<1>2. s = Scatters /\ AllNext(n)
  <2>1. conf \in Confs /\ currEpoch[n] \in Nat
    BY AlignFacts
  <2> QED BY <1>1, <2>1, AllAtScheduler DEF ForNext
<1>3. Resting(n)
  <2>1. layer[n] = LayerAt(n, Scatters)
    BY <1>2 DEF Running
  <2> QED BY <1>1, <1>2, <2>1 DEF Resting
<1>4. ASSUME schBlock[n]
      PROVE  entered[n] = Base(currEpoch[n], Scatters)
  <2>1. entered[n] = Base(currEpoch[n], Scatters) + Extra(n)
    BY <1>2 DEF Running
  <2>2. conf \in Confs /\ currEpoch[n] \in Nat /\ Scatters \in 0..Scatters
    BY <1>2, AlignFacts
  <2>3. Base(currEpoch[n], Scatters) \in Int
    BY <2>2, BaseFacts
  <2>4. Extra(n) = 0
    BY <1>1, <1>4
  <2> QED BY <2>1, <2>3, <2>4, AddZero, Zenon
<1> QED BY <1>2, <1>3, <1>4

\* Chunks and scatter thread stay as they are.
LEMMA RestingSame ==
  ASSUME conf' = conf, NEW n \in Node, UNCHANGED <<chunk, place, currEpoch, scBlock, scatter, layer>>
  PROVE  /\ (\A i \in ChunkId : ChunkAt(n, i, Scatters)) => \A i \in ChunkId : ChunkAt(n, i, Scatters)'
         /\ (Popped(n)' <=> Popped(n)) /\ (AllNext(n)' <=> AllNext(n))
         /\ LayerAt(n, Scatters)' = LayerAt(n, Scatters)
<1>1. ChunkId' = ChunkId /\ Scatters' = Scatters
  BY ConfSame
<1>2. (Popped(n)' <=> Popped(n)) /\ (AllNext(n)' <=> AllNext(n))
  BY <1>1 DEF Popped, AllNext
<1>3. LayerAt(n, Scatters)' = LayerAt(n, Scatters)
  BY <1>1, <1>2, ConfSame DEF LayerAt
<1>4. ASSUME \A i \in ChunkId : ChunkAt(n, i, Scatters)
      PROVE  \A i \in ChunkId : ChunkAt(n, i, Scatters)'
  <2>1. PICK s : s = Scatters
    OBVIOUS
  <2>2. \A i \in ChunkId : ChunkAt(n, i, s)'
    BY <1>4, <2>1, ChunkAtSame
  <2>3. Scatters' = s
    BY <1>1, <2>1
  <2>4. \A i \in ChunkId : ChunkAt(n, i, s)' => ChunkAt(n, i, Scatters)'
    BY <2>3
  <2> QED BY <2>2, <2>4
<1> QED BY <1>2, <1>3, <1>4

LEMMA SchedHaltAligns ==
  ASSUME AlignInv, NEW n \in Node, SchedHalt(n)
  PROVE  AlignInv'
<1>1. /\ UNCHANGED <<conf, chunk, place, where, entered, currEpoch, schBlock, scatter, scBlock, layer, currDir>>
      /\ stage' = [stage EXCEPT ![n] = "halt"] /\ AllIn(n, "sch")
      /\ \E i \in ChunkId :
           /\ Schedulable(n, i) /\ chunk[n][i].epoch > currEpoch[n]
           /\ chunk[n][i].epoch > conf.numEpochs \/ ConvergeState(n) = "DONE"
  BY DEF SchedHalt, queues, scheduler, scatterer
<1>2. PICK i \in ChunkId :
        /\ Schedulable(n, i) /\ chunk[n][i].epoch > currEpoch[n]
        /\ chunk[n][i].epoch > conf.numEpochs \/ ConvergeState(n) = "DONE"
  BY <1>1
<1>3. stage[n] = "running" /\ where[n] = ""
  BY <1>2 DEF Schedulable, InQueue
<1>4. PICK s \in 0..Scatters : Running(n, s)
  BY <1>3, AlignFacts
<1>5. /\ conf \in Confs /\ conf' = conf /\ currEpoch[n] \in Nat /\ currEpoch[n] <= conf.numEpochs
      /\ stage \in [Node -> {"new", "running", "halt", "done"}] /\ conf.numEpochs \in Nat
      /\ chunk[n][i] \in Chunk
  BY <1>1, AlignFacts, ScatterFacts DEF AlignInv, AlignTypes
<1>6. chunk[n][i].epoch = currEpoch[n] + 1
  <2>1. \A j \in ChunkId : place[n][j] = "sch" /\ ChunkAt(n, j, s)
    BY <1>1, <1>3, <1>4, AtScheduler
  <2>2. chunk[n][i].epoch = (IF s = 0 THEN currEpoch[n] ELSE currEpoch[n] + 1)
    BY <1>5, <2>1, AllAtScheduler
  <2>3. chunk[n][i].epoch > currEpoch[n]
    BY <1>2
  <2> QED BY <1>5, <2>2, <2>3
<1>7. Resting(n) /\ (schBlock[n] => entered[n] = Base(currEpoch[n], Scatters))
  BY <1>1, <1>3, <1>4, <1>6, RestingFacts DEF ForNext
<1>8. Resting(n)'
  <2>1. ChunkId' = ChunkId
    BY <1>5, ConfSame
  <2> QED BY <1>1, <1>5, <1>7, <2>1, RestingSame DEF Resting
<1>9. ASSUME currEpoch[n] = conf.numEpochs PROVE Finished(n)'
  <2>1. schBlock[n]
    <3>1. ~schBlock[n] => currEpoch[n] < conf.numEpochs
      BY <1>4 DEF Running, Blocking
    <3> QED BY <1>5, <1>9, <3>1
  <2>2. Base(conf.numEpochs, Scatters)' = Base(conf.numEpochs, Scatters)
    BY <1>5, ConfSame
  <2>3. entered'[n] = Base(conf.numEpochs, Scatters)' /\ where'[n] = ""
    BY <1>1, <1>3, <1>7, <1>9, <2>1, <2>2
  <2>4. currEpoch'[n] = conf'.numEpochs /\ schBlock'[n]
    BY <1>1, <1>9, <2>1
  <2> QED BY <2>3, <2>4 DEF Finished
<1>10. ASSUME currEpoch[n] # conf.numEpochs PROVE StoppedEarly(n)'
  <2>1. currEpoch[n] < conf.numEpochs
    BY <1>5, <1>10
  <2>2. ConvergeState(n) = "DONE"
    BY <1>2, <1>5, <1>6, <2>1
  <2>3. MayStop(n)
    BY <2>2 DEF ConvergeState, MayStop
  <2> QED BY <1>1, <2>1, <2>3 DEF StoppedEarly, MayStop
<1>11. stage'[n] = "halt" /\ stage' \in [Node -> {"new", "running", "halt", "done"}]
       /\ \A m \in Node \ {n} : stage'[m] = stage[m]
  BY <1>1, <1>5
<1>12. Aligned(n)'
  <2>1. where'[n] = ""
    BY <1>1, <1>3
  <2>2. (Finished(n) \/ StoppedEarly(n))'
    BY <1>9, <1>10
  <2> QED BY <1>8, <1>11, <2>1, <2>2 DEF Aligned
<1>13. AlignTypes'
  <2>1. Node' = Node /\ ChunkId' = ChunkId
    BY <1>5, ConfSame
  <2> QED BY <1>1, <1>11, <2>1 DEF AlignInv, AlignTypes, Place, Site
<1>14. \A m \in Node \ {n} : Undisturbed(m)
  BY <1>1, <1>11 DEF Undisturbed
<1> QED BY <1>5, <1>12, <1>13, <1>14, AlignStep

LEMMA SchedBarrierAligns ==
  ASSUME AlignInv, NEW n \in Node, SchedBarrier(n)
  PROVE  AlignInv'
<1>1. /\ UNCHANGED <<conf, chunk, place, stage, currEpoch, schBlock, scatter, scBlock, layer, currDir>>
      /\ Enter(n, "epoch") /\ AllIn(n, "sch") /\ schBlock[n]
      /\ \E i \in ChunkId : Schedulable(n, i) /\ chunk[n][i].epoch \in currEpoch[n] + 1..conf.numEpochs
  BY DEF SchedBarrier, queues, scheduler, scatterer
<1>2. PICK i \in ChunkId : Schedulable(n, i) /\ chunk[n][i].epoch \in currEpoch[n] + 1..conf.numEpochs
  BY <1>1
<1>3. stage[n] = "running" /\ where[n] = ""
  BY <1>2 DEF Schedulable, InQueue
<1>4. PICK s \in 0..Scatters : Running(n, s)
  BY <1>3, AlignFacts
<1>5. /\ conf \in Confs /\ conf' = conf /\ currEpoch[n] \in Nat /\ conf.numEpochs \in Nat
      /\ where \in [Node -> Site] /\ entered \in [Node -> Nat]
  BY <1>1, AlignFacts, ScatterFacts DEF AlignInv, AlignTypes
<1>6. /\ \A j \in ChunkId : place[n][j] = "sch" /\ ChunkAt(n, j, s)
      /\ scBlock[n] /\ scatter[n] = "run" /\ ~Popped(n) /\ Extra(n) = 0
  BY <1>1, <1>3, <1>4, AtScheduler
<1>7. chunk[n][i].epoch = currEpoch[n] + 1 /\ currEpoch[n] < conf.numEpochs
  <2>1. chunk[n][i].epoch = (IF s = 0 THEN currEpoch[n] ELSE currEpoch[n] + 1)
    BY <1>5, <1>6, AllAtScheduler
  <2>2. chunk[n][i].epoch \in currEpoch[n] + 1..conf.numEpochs
    BY <1>2
  <2> QED BY <1>5, <2>1, <2>2
<1>8. s = Scatters /\ AllNext(n)
  BY <1>1, <1>3, <1>4, <1>7, RestingFacts DEF ForNext
<1>9. /\ where' = [where EXCEPT ![n] = "epoch"] /\ entered' = [entered EXCEPT ![n] = @ + 1]
  BY <1>1 DEF Enter
<1>10. /\ where'[n] = "epoch" /\ where' \in [Node -> Site]
       /\ \A m \in Node \ {n} : where'[m] = where[m]
  BY <1>5, <1>9 DEF Site
<1>11. /\ entered'[n] = entered[n] + 1 /\ entered' \in [Node -> Nat]
       /\ \A m \in Node \ {n} : entered'[m] = entered[m]
  BY <1>5, <1>9
<1>12. Running(n, s)'
  <2>1. /\ ChunkId' = ChunkId /\ Scatters' = Scatters
        /\ Base(currEpoch[n], s)' = Base(currEpoch[n], s)
    BY <1>1, <1>5, ConfSame
  <2>2. /\ \A j \in ChunkId : ChunkAt(n, j, s)'
        /\ ~Popped(n)' /\ AllNext(n)' /\ LayerAt(n, Scatters)' = LayerAt(n, Scatters)
    <3>1. \A j \in ChunkId : ChunkAt(n, j, s)'
      BY <1>1, <1>5, <1>6, ChunkAtSame
    <3> QED BY <1>1, <1>5, <1>6, <1>8, <3>1, RestingSame
  <2>3. Blocking(n)'
    BY <1>1, <1>5, <1>6, <1>7, <1>10, <2>1, <2>2 DEF Blocking
  <2>4. layer'[n] = LayerAt(n, s)'
    <3>1. layer[n] = LayerAt(n, Scatters)
      BY <1>4, <1>8 DEF Running
    <3>2. LayerAt(n, s)' = LayerAt(n, Scatters)'
      BY <1>8, <2>1 DEF LayerAt
    <3> QED BY <1>1, <2>2, <3>1, <3>2
  <2>5. entered'[n] = Base(currEpoch[n], s)' + Extra(n)'
    <3>1. Extra(n)' = 1
      BY <1>1, <1>6, <1>10 DEF Extra
    <3>2. entered[n] = Base(currEpoch[n], s) + Extra(n) /\ Base(currEpoch[n], s) \in Int
      BY <1>4, <1>5, BaseFacts DEF Running
    <3> QED BY <1>6, <1>11, <2>1, <3>1, <3>2
  <2> QED BY <1>1, <1>6, <1>8, <2>1, <2>2, <2>3, <2>4, <2>5 DEF Running
<1>13. Aligned(n)'
  <2>1. stage'[n] = "running" /\ s \in (0..Scatters)'
    BY <1>1, <1>3, <1>5, ConfSame
  <2> QED BY <1>12, <2>1 DEF Aligned
<1>14. AlignTypes'
  <2>1. Node' = Node /\ ChunkId' = ChunkId
    BY <1>5, ConfSame
  <2> QED BY <1>1, <1>10, <1>11, <2>1 DEF AlignInv, AlignTypes, Place, Site
<1>15. \A m \in Node \ {n} : Undisturbed(m)
  BY <1>1, <1>10, <1>11 DEF Undisturbed
<1> QED BY <1>5, <1>13, <1>14, <1>15, AlignStep

-----------------------------------------------------------------------------
(* A thread enters or leaves a barrier or waits, and the chunks stay.      *)

\* The barriers that a step enters.
Counted(n) == entered'[n] = entered[n] + (Extra(n)' - Extra(n))

LEMMA ExtraInt ==
  ASSUME conf \in Confs, NEW n \in Node
  PROVE  Extra(n) \in Int
BY ScatterFacts DEF Extra

LEMMA ExtraPrime ==
  ASSUME conf' = conf, conf \in Confs, NEW n \in Node
  PROVE  Extra(n)' \in Int
BY ScatterFacts, ConfSame DEF Extra

LEMMA ThreadAligns ==
  ASSUME AlignInv, NEW n \in Node,
         UNCHANGED <<conf, chunk, place, stage, currEpoch, layer, currDir>>,
         where' \in [Node -> Site], entered' \in [Node -> Nat], schBlock' \in [Node -> BOOLEAN],
         scatter' \in [Node -> {"run", "wait", "woken", "barrier", "reset"}],
         scBlock' \in [Node -> BOOLEAN],
         \A m \in Node \ {n} : Undisturbed(m),
         stage[n] = "running", NEW s \in 0..Scatters, Running(n, s), Blocking(n)', Counted(n)
  PROVE  AlignInv'
<1>1. /\ Node' = Node /\ ChunkId' = ChunkId /\ Scatters' = Scatters
      /\ Base(currEpoch[n], s)' = Base(currEpoch[n], s) /\ AbsOf(s)' = AbsOf(s) /\ AbsOf(s + 1)' = AbsOf(s + 1)
  BY ConfSame
<1>2. AlignTypes'
  BY <1>1 DEF AlignInv, AlignTypes, Place
<1>3. \A i \in ChunkId : ChunkAt(n, i, s)'
  BY ChunkAtSame DEF Running
<1>4. LayerAt(n, s)' = LayerAt(n, s)
  BY <1>1 DEF LayerAt, Popped
<1>5. entered'[n] = Base(currEpoch[n], s)' + Extra(n)'
  <2>1. conf \in Confs /\ currEpoch[n] \in Nat
    BY AlignFacts
  <2>2. Base(currEpoch[n], s) \in Int /\ Extra(n) \in Int
    BY <2>1, BaseFacts, ExtraInt
  <2>3. entered[n] = Base(currEpoch[n], s) + Extra(n)
    BY DEF Running
  <2>4. entered'[n] = entered[n] + (Extra(n)' - Extra(n)) /\ Extra(n)' \in Int
    <3>1. Extra(n)' \in Int
      BY <2>1, ExtraPrime
    <3> QED BY <3>1 DEF Counted
  <2> QED BY <1>1, <2>2, <2>3, <2>4
<1>6. Running(n, s)'
  <2>1. currEpoch[n] = 0 => s = Scatters /\ \A i \in ChunkId : place[n][i] = "sch"
    BY DEF Running
  <2>2. layer[n] = LayerAt(n, s)
    BY DEF Running
  <2> QED BY <1>1, <1>3, <1>4, <1>5, <2>1, <2>2 DEF Running
<1>7. Aligned(n)'
  <2>1. stage'[n] = "running" /\ s \in (0..Scatters)'
    BY <1>1
  <2> QED BY <1>6, <2>1 DEF Aligned
<1> QED BY <1>2, <1>7, AlignStep

\* The thread of a running server that is in a barrier.
LEMMA SiteFacts ==
  ASSUME AlignInv, NEW n \in Node, where[n] \in {"epoch", "begin", "scatter"}
  PROVE  stage[n] = "running" /\ \E s \in 0..Scatters : Running(n, s)
BY DEF AlignInv, Aligned

LEMMA SchedUnblockAligns ==
  ASSUME AlignInv, NEW n \in Node, SchedUnblock(n)
  PROVE  AlignInv'
<1>1. /\ UNCHANGED <<conf, chunk, place, stage, entered, currEpoch, layer, currDir, scatter, scBlock>>
      /\ where[n] = "epoch" /\ where' = [where EXCEPT ![n] = ""]
      /\ schBlock' = [schBlock EXCEPT ![n] = FALSE]
  BY DEF SchedUnblock, Leave, queues, scatterer
<1>2. stage[n] = "running" /\ \E s \in 0..Scatters : Running(n, s)
  BY <1>1, SiteFacts
<1>3. PICK s \in 0..Scatters : Running(n, s)
  BY <1>2
<1>4. /\ where \in [Node -> Site] /\ entered \in [Node -> Nat] /\ schBlock \in [Node -> BOOLEAN]
      /\ scatter \in [Node -> {"run", "wait", "woken", "barrier", "reset"}]
      /\ scBlock \in [Node -> BOOLEAN] /\ conf \in Confs
  BY DEF AlignInv, AlignTypes
<1>5. /\ where'[n] = "" /\ where' \in [Node -> Site] /\ ~schBlock'[n] /\ schBlock' \in [Node -> BOOLEAN]
      /\ \A m \in Node \ {n} : where'[m] = where[m] /\ schBlock'[m] = schBlock[m]
  BY <1>1, <1>4 DEF Site
<1>6. \A m \in Node \ {n} : Undisturbed(m)
  BY <1>1, <1>5 DEF Undisturbed
<1>7. Extra(n) = 1 /\ Extra(n)' = 1
  BY <1>1, <1>5 DEF Extra
<1>8. Blocking(n)'
  <2>1. Blocking(n) /\ ChunkId' = ChunkId
    BY <1>1, <1>3, ConfSame DEF Running
  <2>2. AllNext(n) /\ currEpoch[n] < conf.numEpochs
    BY <1>1, <2>1 DEF Blocking
  <2>3. AllNext(n)' /\ (Popped(n)' <=> Popped(n)) /\ currEpoch'[n] < conf'.numEpochs
    BY <1>1, <2>1, <2>2 DEF AllNext, Popped
  <2> QED BY <1>1, <1>5, <2>1, <2>3 DEF Blocking
<1>9. Counted(n)
  <2>1. entered'[n] = entered[n] /\ entered[n] \in Nat
    BY <1>1, <1>4
  <2> QED BY <1>7, <2>1 DEF Counted
<1> QED BY <1>1, <1>2, <1>3, <1>4, <1>5, <1>6, <1>8, <1>9, ThreadAligns

\* A server whose chunks are in or before the scatter phase.
LEMMA PhaseFacts ==
  ASSUME AlignInv, NEW n \in Node, NEW s \in 0..Scatters, Running(n, s), NEW i \in ChunkId,
         place[n][i] \in {"SC", "send", "count", "stash"}
  PROVE  /\ schBlock[n] /\ where[n] # "epoch" /\ currEpoch[n] # 0
         /\ place[n][i] # "stash" => scatter[n] = "run" /\ where[n] # "scatter"
         /\ place[n][i] # "SC" => where[n] # "begin" /\ Popped(n) /\ layer[n] = AbsOf(s + 1)
         /\ s < Scatters /\ chunk[n][i].epoch = currEpoch[n] /\ Between(chunk[n][i], s + 1)
<1>1. ~AllNext(n)
  BY DEF AllNext
<1>2. schBlock[n] /\ where[n] # "epoch"
  BY <1>1 DEF Running, Blocking, AlignInv, AlignTypes
<1>3. currEpoch[n] # 0
  BY DEF Running
<1>4. place[n][i] # "stash" => scatter[n] = "run" /\ where[n] # "scatter"
  BY DEF Running, Blocking
<1>5. place[n][i] # "SC" => where[n] # "begin" /\ Popped(n) /\ layer[n] = AbsOf(s + 1)
  BY DEF Running, Blocking, Popped, Scattered, LayerAt
<1>6. s < Scatters /\ chunk[n][i].epoch = currEpoch[n] /\ Between(chunk[n][i], s + 1)
  <2>1. ChunkAt(n, i, s)
    BY DEF Running
  <2> QED BY <2>1 DEF ChunkAt
<1> QED BY <1>2, <1>3, <1>4, <1>5, <1>6

LEMMA BeginBarrierAligns ==
  ASSUME AlignInv, NEW n \in Node, BeginBarrier(n)
  PROVE  AlignInv'
<1>1. /\ UNCHANGED <<conf, chunk, place, stage, currEpoch, layer, currDir, schBlock, scatter, scBlock>>
      /\ where[n] = "" /\ Enter(n, "begin") /\ AllIn(n, "SC") /\ conf.build # "Lambda" /\ scBlock[n]
  BY DEF BeginBarrier, NeedsBarrier, queues, scatterer, scheduler
<1>2. /\ where \in [Node -> Site] /\ entered \in [Node -> Nat] /\ schBlock \in [Node -> BOOLEAN]
      /\ scatter \in [Node -> {"run", "wait", "woken", "barrier", "reset"}]
      /\ scBlock \in [Node -> BOOLEAN] /\ conf \in Confs
  BY DEF AlignInv, AlignTypes
<1>3. 0 \in ChunkId /\ stage[n] = "running" /\ \A i \in ChunkId : place[n][i] = "SC"
  BY <1>1, <1>2, ConfFacts DEF AllIn, InQueue
<1>4. PICK s \in 0..Scatters : Running(n, s)
  BY <1>3, AlignFacts
<1>5. /\ where' = [where EXCEPT ![n] = "begin"] /\ entered' = [entered EXCEPT ![n] = @ + 1]
  BY <1>1 DEF Enter
<1>6. /\ where'[n] = "begin" /\ where' \in [Node -> Site]
      /\ \A m \in Node \ {n} : where'[m] = where[m]
  BY <1>2, <1>5 DEF Site
<1>7. /\ entered'[n] = entered[n] + 1 /\ entered' \in [Node -> Nat]
      /\ \A m \in Node \ {n} : entered'[m] = entered[m]
  BY <1>2, <1>5
<1>8. \A m \in Node \ {n} : Undisturbed(m)
  BY <1>1, <1>6, <1>7 DEF Undisturbed
<1>9. schBlock[n] /\ scatter[n] = "run"
  BY <1>3, <1>4, PhaseFacts
<1>10. Extra(n) = 0 /\ Extra(n)' = 1
  BY <1>1, <1>6, <1>9 DEF Extra
<1>11. Blocking(n)'
  <2>1. Blocking(n) /\ ChunkId' = ChunkId
    BY <1>1, <1>4, ConfSame DEF Running
  <2>2. Popped(n)' <=> Popped(n)
    BY <1>1, <2>1 DEF Popped
  <2> QED BY <1>1, <1>3, <1>6, <1>9, <2>1, <2>2 DEF Blocking
<1>12. Counted(n)
  BY <1>7, <1>10 DEF Counted
<1> QED BY <1>1, <1>2, <1>3, <1>4, <1>6, <1>7, <1>8, <1>11, <1>12, ThreadAligns

LEMMA BeginScatterAligns ==
  ASSUME AlignInv, NEW n \in Node, BeginScatter(n)
  PROVE  AlignInv'
<1>1. /\ UNCHANGED <<conf, chunk, place, stage, entered, currEpoch, layer, currDir, schBlock, scatter>>
      /\ where[n] = "begin" /\ where' = [where EXCEPT ![n] = ""]
      /\ scBlock' = [scBlock EXCEPT ![n] = FALSE]
  BY DEF BeginScatter, Leave, queues, scheduler
<1>2. stage[n] = "running" /\ \E s \in 0..Scatters : Running(n, s)
  BY <1>1, SiteFacts
<1>3. PICK s \in 0..Scatters : Running(n, s)
  BY <1>2
<1>4. /\ where \in [Node -> Site] /\ entered \in [Node -> Nat] /\ schBlock \in [Node -> BOOLEAN]
      /\ scatter \in [Node -> {"run", "wait", "woken", "barrier", "reset"}]
      /\ scBlock \in [Node -> BOOLEAN] /\ conf \in Confs
  BY DEF AlignInv, AlignTypes
<1>5. /\ where'[n] = "" /\ where' \in [Node -> Site] /\ ~scBlock'[n] /\ scBlock' \in [Node -> BOOLEAN]
      /\ \A m \in Node \ {n} : where'[m] = where[m] /\ scBlock'[m] = scBlock[m]
  BY <1>1, <1>4 DEF Site
<1>6. \A m \in Node \ {n} : Undisturbed(m)
  BY <1>1, <1>5 DEF Undisturbed
<1>7. /\ scBlock[n] /\ schBlock[n] /\ scatter[n] = "run" /\ conf.build # "Lambda"
      /\ \A i \in ChunkId : place[n][i] = "SC"
  <2>1. /\ scBlock[n] /\ conf.build # "Lambda" /\ \A i \in ChunkId : place[n][i] = "SC"
    BY <1>1, <1>3 DEF Running, Blocking
  <2>2. 0 \in ChunkId
    BY <1>4, ConfFacts
  <2> QED BY <1>3, <2>1, <2>2, PhaseFacts
<1>8. Extra(n) = 1 /\ Extra(n)' = 1
  BY <1>1, <1>5, <1>7 DEF Extra
<1>9. Blocking(n)'
  <2>1. ChunkId' = ChunkId
    BY <1>1, ConfSame
  <2> QED BY <1>1, <1>5, <1>7, <2>1 DEF Blocking
<1>10. Counted(n)
  <2>1. entered'[n] = entered[n] /\ entered[n] \in Nat
    BY <1>1, <1>4
  <2> QED BY <1>8, <2>1 DEF Counted
<1> QED BY <1>1, <1>2, <1>3, <1>4, <1>5, <1>6, <1>9, <1>10, ThreadAligns

LEMMA ScatterLeaveAligns ==
  ASSUME AlignInv, NEW n \in Node, ScatterLeave(n)
  PROVE  AlignInv'
<1>1. /\ UNCHANGED <<conf, chunk, place, stage, entered, currEpoch, layer, currDir, schBlock, scBlock>>
      /\ where[n] = "scatter" /\ where' = [where EXCEPT ![n] = ""]
      /\ scatter' = [scatter EXCEPT ![n] = "reset"]
  BY DEF ScatterLeave, Leave, queues, scheduler
<1>2. stage[n] = "running" /\ \E s \in 0..Scatters : Running(n, s)
  BY <1>1, SiteFacts
<1>3. PICK s \in 0..Scatters : Running(n, s)
  BY <1>2
<1>4. /\ where \in [Node -> Site] /\ entered \in [Node -> Nat] /\ schBlock \in [Node -> BOOLEAN]
      /\ scatter \in [Node -> {"run", "wait", "woken", "barrier", "reset"}]
      /\ scBlock \in [Node -> BOOLEAN] /\ conf \in Confs
  BY DEF AlignInv, AlignTypes
<1>5. /\ where'[n] = "" /\ where' \in [Node -> Site] /\ scatter'[n] = "reset"
      /\ scatter' \in [Node -> {"run", "wait", "woken", "barrier", "reset"}]
      /\ \A m \in Node \ {n} : where'[m] = where[m] /\ scatter'[m] = scatter[m]
  BY <1>1, <1>4 DEF Site
<1>6. \A m \in Node \ {n} : Undisturbed(m)
  BY <1>1, <1>5 DEF Undisturbed
<1>7. schBlock[n] /\ scatter[n] = "barrier" /\ \A i \in ChunkId : place[n][i] = "stash"
  BY <1>1, <1>3 DEF Running, Blocking
<1>8. Extra(n) = Bars(1) /\ Extra(n)' = Bars(1)
  <2>1. Bars(1)' = Bars(1)
    BY <1>1, ConfSame
  <2> QED BY <1>1, <1>5, <1>7, <2>1 DEF Extra
<1>9. Blocking(n)'
  <2>1. Blocking(n) /\ ChunkId' = ChunkId
    BY <1>1, <1>3, ConfSame DEF Running
  <2>2. Popped(n)' <=> Popped(n)
    BY <1>1, <2>1 DEF Popped
  <2> QED BY <1>1, <1>5, <1>7, <2>1, <2>2 DEF Blocking
<1>10. Counted(n)
  <2>1. entered'[n] = entered[n] /\ entered[n] \in Nat /\ Extra(n) \in Int /\ Extra(n)' = Extra(n)
    BY <1>1, <1>4, <1>8, ExtraInt
  <2> QED BY <2>1 DEF Counted
<1> QED BY <1>1, <1>2, <1>3, <1>4, <1>5, <1>6, <1>9, <1>10, ThreadAligns

LEMMA ScatterWaitAligns ==
  ASSUME AlignInv, NEW n \in Node, ScatterWait(n)
  PROVE  AlignInv'
<1>1. /\ UNCHANGED <<conf, chunk, place, stage, currEpoch, layer, currDir, schBlock, scBlock>>
      /\ where[n] = "" /\ AllIn(n, "stash") /\ scatter[n] \in {"run", "woken"}
      /\ \/ scatter' = [scatter EXCEPT ![n] = "wait"] /\ UNCHANGED <<where, entered>>
         \/ scatter' = [scatter EXCEPT ![n] = "barrier"] /\ Enter(n, "scatter")
  BY DEF ScatterWait, queues, scheduler
<1>2. /\ where \in [Node -> Site] /\ entered \in [Node -> Nat] /\ schBlock \in [Node -> BOOLEAN]
      /\ scatter \in [Node -> {"run", "wait", "woken", "barrier", "reset"}]
      /\ scBlock \in [Node -> BOOLEAN] /\ conf \in Confs
  BY DEF AlignInv, AlignTypes
<1>3. 0 \in ChunkId /\ stage[n] = "running" /\ \A i \in ChunkId : place[n][i] = "stash"
  BY <1>1, <1>2, ConfFacts DEF AllIn, InQueue
<1>4. PICK s \in 0..Scatters : Running(n, s)
  BY <1>3, AlignFacts
<1>5. schBlock[n] /\ Popped(n)
  BY <1>3, <1>4, PhaseFacts
<1>6. Blocking(n) /\ ChunkId' = ChunkId /\ (Popped(n)' <=> Popped(n))
  <2>1. ChunkId' = ChunkId
    BY <1>1, ConfSame
  <2> QED BY <1>1, <1>4, <2>1 DEF Running, Popped
<1>7. CASE scatter' = [scatter EXCEPT ![n] = "wait"] /\ UNCHANGED <<where, entered>>
  <2>1. /\ scatter'[n] = "wait"
        /\ scatter' \in [Node -> {"run", "wait", "woken", "barrier", "reset"}]
        /\ \A m \in Node \ {n} : scatter'[m] = scatter[m]
    BY <1>2, <1>7
  <2>2. \A m \in Node \ {n} : Undisturbed(m)
    BY <1>1, <1>7, <2>1 DEF Undisturbed
  <2>3. Blocking(n)'
    BY <1>1, <1>3, <1>5, <1>6, <1>7, <2>1 DEF Blocking
  <2>4. Extra(n)' = Extra(n)
    BY <1>1, <1>5, <1>7, <2>1 DEF Extra
  <2>5. Counted(n)
    <3>1. Extra(n) \in Int /\ entered[n] \in Int
      BY <1>2, ExtraInt
    <3>2. entered'[n] = entered[n]
      BY <1>7
    <3> QED BY <2>4, <3>1, <3>2 DEF Counted
  <2> QED BY <1>1, <1>2, <1>3, <1>4, <1>7, <2>1, <2>2, <2>3, <2>5, ThreadAligns
<1>8. CASE scatter' = [scatter EXCEPT ![n] = "barrier"] /\ Enter(n, "scatter")
  <2>1. /\ scatter'[n] = "barrier"
        /\ scatter' \in [Node -> {"run", "wait", "woken", "barrier", "reset"}]
        /\ \A m \in Node \ {n} : scatter'[m] = scatter[m]
    BY <1>2, <1>8
  <2>2. /\ where' = [where EXCEPT ![n] = "scatter"] /\ entered' = [entered EXCEPT ![n] = @ + 1]
    BY <1>8 DEF Enter
  <2>3. /\ where'[n] = "scatter" /\ where' \in [Node -> Site]
        /\ \A m \in Node \ {n} : where'[m] = where[m]
    BY <1>2, <2>2 DEF Site
  <2>4. /\ entered'[n] = entered[n] + 1 /\ entered' \in [Node -> Nat]
        /\ \A m \in Node \ {n} : entered'[m] = entered[m]
    BY <1>2, <2>2
  <2>5. \A m \in Node \ {n} : Undisturbed(m)
    BY <1>1, <2>1, <2>3, <2>4 DEF Undisturbed
  <2>6. Blocking(n)'
    BY <1>1, <1>3, <1>5, <1>6, <2>1, <2>3 DEF Blocking
  <2>7. Extra(n)' = Extra(n) + 1
    <3>1. Extra(n)' = Bars(1)
      <4>1. Bars(1)' = Bars(1)
        BY <1>1, ConfSame
      <4> QED BY <1>1, <1>5, <2>1, <2>3, <4>1 DEF Extra
    <3>2. scatter[n] # "reset"
      BY <1>1
    <3>3. CASE conf.build = "Lambda"
      <4>1. scBlock[n]
        BY <1>6, <3>3 DEF Blocking
      <4>2. Extra(n) = 0
        BY <1>1, <1>5, <3>2, <4>1 DEF Extra
      <4>3. Bars(1) = 1
        BY <1>2, <3>3, ScatterFacts
      <4> QED BY <3>1, <4>2, <4>3
    <3>4. CASE conf.build # "Lambda"
      <4>1. ~scBlock[n]
        BY <1>5, <1>6, <3>4 DEF Blocking
      <4>2. Extra(n) = 1
        BY <1>1, <1>5, <3>2, <4>1 DEF Extra
      <4>3. Bars(1) = 2
        BY <1>2, <3>4, ScatterFacts
      <4> QED BY <3>1, <4>2, <4>3
    <3> QED BY <3>3, <3>4
  <2>8. Counted(n)
    <3>1. Extra(n) \in Int
      BY <1>2, ExtraInt
    <3>2. Extra(n)' - Extra(n) = 1
      BY <2>7, <3>1
    <3> QED BY <2>4, <3>2 DEF Counted
  <2> QED BY <1>1, <1>2, <1>3, <1>4, <2>1, <2>3, <2>4, <2>5, <2>6, <2>8, ThreadAligns
<1> QED BY <1>1, <1>7, <1>8

-----------------------------------------------------------------------------
(* A chunk of the scatter phase.                                           *)

\* Either the chunk is sent already, or the scatter thread may take it.
Poppable(n, i) ==
  \/ place[n][i] \in {"send", "count"}
  \/ place[n][i] = "SC" /\ where[n] = "" /\ ~NeedsBarrier(n)

LEMMA PopAligns ==
  ASSUME AlignInv, Steady, NEW n \in Node, stage[n] = "running",
         NEW s \in 0..Scatters, Running(n, s), NEW i \in ChunkId, Poppable(n, i),
         NEW q \in Scattered, Send(n, i, q, chunk[n][i]),
         layer' \in [Node -> Int], \A m \in Node \ {n} : layer'[m] = layer[m],
         layer'[n] = AbsOf(s + 1), currDir' \in [Node -> PropType]
  PROVE  AlignInv'
<1>1. /\ schBlock[n] /\ where[n] \notin {"epoch", "begin", "scatter"} /\ currEpoch[n] # 0
      /\ scatter[n] = "run"
      /\ s < Scatters /\ chunk[n][i].epoch = currEpoch[n] /\ Between(chunk[n][i], s + 1)
  BY PhaseFacts DEF Poppable
<1>2. where[n] = "" /\ Blocking(n)
  BY <1>1 DEF Running, Blocking
<1>3. conf.build # "Lambda" => ~scBlock[n]
  BY <1>2 DEF Poppable, NeedsBarrier, Blocking, Popped, Scattered
<1>4. /\ conf' = conf /\ ChunkId' = ChunkId /\ Scatters' = Scatters /\ currEpoch' = currEpoch
      /\ AbsOf(s + 1)' = AbsOf(s + 1) /\ \A d, t : Between(d, t)' <=> Between(d, t)
  BY ConfSame, BetweenSame DEF Steady
<1>5. PICK c : c = chunk[n][i]
  OBVIOUS
<1>6. place' = [place EXCEPT ![n][i] = q] /\ chunk' = [chunk EXCEPT ![n][i] = c]
      /\ c \in Chunk /\ q \in Place
      /\ place \in [Node -> [ChunkId -> Place]] /\ chunk \in [Node -> [ChunkId -> Chunk]]
  BY <1>5, AlignFacts DEF Send, Scattered, Place
<1>7. place'[n][i] = q /\ chunk'[n][i] = c /\ \A j \in ChunkId \ {i} : place'[n][j] = place[n][j]
  BY <1>6
<1>8. ChunkAt(n, i, s)'
  BY <1>1, <1>4, <1>5, <1>7 DEF ChunkAt
<1>9. Popped(n)'
  BY <1>4, <1>7 DEF Popped
<1>10. Blocking(n)'
  <2>1. /\ where'[n] = "" /\ schBlock'[n] /\ scatter'[n] = "run" /\ conf' = conf
        /\ scBlock'[n] = scBlock[n]
    BY <1>1, <1>2 DEF Steady
  <2>2. ~scBlock[n] => /\ conf.build # "Lambda"
                       /\ \A j \in ChunkId : place[n][j] \in Scattered \cup {"SC"}
    BY <1>2 DEF Blocking
  <2>3. ~scBlock[n] => \A j \in ChunkId : place'[n][j] \in Scattered \cup {"SC"}
    BY <1>7, <2>2
  <2> QED BY <1>3, <1>4, <2>1, <2>2, <2>3 DEF Blocking
<1>11. layer'[n] = LayerAt(n, s)'
  BY <1>4, <1>9 DEF LayerAt
<1>12. Send(n, i, q, c)
  BY <1>5
<1> QED BY <1>1, <1>6, <1>8, <1>10, <1>11, <1>12, MoveAligns

\* The layer a popped chunk gives the scatter thread.
LEMMA PopLayer ==
  ASSUME conf \in Confs, NEW c \in Chunk, NEW s \in 0..Scatters, s < Scatters, Between(c, s + 1)
  PROVE  GetAbsLayer(conf.numLayers, c) = AbsOf(s + 1) /\ AbsOf(s + 1) \in Int
<1>1. Scatters \in Nat /\ conf.numLayers \in Nat /\ s + 1 \in 0..Scatters
  BY ScatterFacts
<1>2. AbsOf(s + 1) \in Int
  BY <1>1, ScatterFacts
<1>3. CASE s + 1 <= Turn
  <2>1. c.dir = "FORWARD" /\ c.layer = s + 1 /\ AbsOf(s + 1) = s + 1
    BY <1>3 DEF Between, DirOf, LayerOf, AbsOf
  <2>2. GetAbsLayer(conf.numLayers, c) = s + 1
    BY <2>1 DEF GetAbsLayer
  <2> QED BY <1>2, <2>1, <2>2
<1>4. CASE ~(s + 1 <= Turn)
  <2>1. /\ c.dir # "FORWARD" /\ c.layer = Scatters + 1 - (s + 1)
        /\ AbsOf(s + 1) = 2 * conf.numLayers - 2 - Scatters + (s + 1)
    BY <1>4 DEF Between, DirOf, LayerOf, AbsOf
  <2>2. GetAbsLayer(conf.numLayers, c) = 2 * conf.numLayers - 1 - c.layer
    BY <2>1 DEF GetAbsLayer
  <2>3. c.layer = Scatters + 1 - (s + 1) /\ AbsOf(s + 1) = 2 * conf.numLayers - 2 - Scatters + (s + 1)
    BY <2>1
  <2>4. 2 * conf.numLayers - 1 - (Scatters + 1 - (s + 1)) = 2 * conf.numLayers - 2 - Scatters + (s + 1)
    BY <1>1
  <2>5. GetAbsLayer(conf.numLayers, c) = AbsOf(s + 1)
    BY <2>2, <2>3, <2>4
  <2> QED BY <1>2, <2>5
<1> QED BY <1>3, <1>4

LEMMA ScatterPopAligns ==
  ASSUME AlignInv, NEW n \in Node, NEW i \in ChunkId, ScatterPop(n, i)
  PROVE  AlignInv'
<1>1. PICK l : l = GetAbsLayer(conf.numLayers, chunk[n][i])
  OBVIOUS
<1>2. /\ Steady /\ stage[n] = "running" /\ Poppable(n, i) /\ place[n][i] = "SC"
      /\ layer' = [layer EXCEPT ![n] = l]
      /\ currDir' = [currDir EXCEPT ![n] = IF l # layer[n] THEN chunk[n][i].dir ELSE @]
      /\ Send(n, i, "send", chunk[n][i])
  BY <1>1 DEF ScatterPop, Steady, run, scheduler, InQueue, Poppable
<1>3. PICK s \in 0..Scatters : Running(n, s)
  BY <1>2, AlignFacts
<1>4. s < Scatters /\ Between(chunk[n][i], s + 1)
  BY <1>2, <1>3, PhaseFacts
<1>5. conf \in Confs /\ chunk[n][i] \in Chunk /\ layer \in [Node -> Int]
      /\ currDir \in [Node -> PropType]
  BY AlignFacts DEF AlignInv, AlignTypes
<1>6. l = AbsOf(s + 1) /\ l \in Int
  BY <1>1, <1>3, <1>4, <1>5, PopLayer
<1>7. layer' \in [Node -> Int] /\ layer'[n] = AbsOf(s + 1) /\ \A m \in Node \ {n} : layer'[m] = layer[m]
  BY <1>2, <1>5, <1>6
<1>8. currDir' \in [Node -> PropType]
  <2>1. chunk[n][i].dir \in PropType
    BY <1>5 DEF Chunk
  <2> QED BY <1>2, <1>5, <2>1
<1>9. "send" \in Scattered
  BY DEF Scattered
<1> QED BY <1>2, <1>3, <1>7, <1>8, <1>9, PopAligns

LEMMA SendAligns ==
  ASSUME AlignInv, NEW n \in Node, NEW i \in ChunkId,
         VerticesPushOut(n, i) \/ Count(n, i) \/ ScatterStash(n, i)
  PROVE  AlignInv'
<1>1. /\ Steady /\ UNCHANGED <<layer, currDir>> /\ stage[n] = "running"
      /\ place[n][i] \in {"send", "count"}
      /\ \E q \in Scattered : Send(n, i, q, chunk[n][i])
  BY DEF VerticesPushOut, Count, ScatterStash, Steady, run, scheduler, scatterer, InQueue, Scattered
<1>2. PICK q \in Scattered : Send(n, i, q, chunk[n][i])
  BY <1>1
<1>3. PICK s \in 0..Scatters : Running(n, s)
  BY <1>1, AlignFacts
<1>4. layer[n] = AbsOf(s + 1)
  BY <1>1, <1>3, PhaseFacts
<1>5. layer' \in [Node -> Int] /\ currDir' \in [Node -> PropType]
  BY <1>1 DEF AlignInv, AlignTypes
<1>6. Poppable(n, i)
  BY <1>1 DEF Poppable
<1> QED BY <1>1, <1>2, <1>3, <1>4, <1>5, <1>6, PopAligns

\* The stash is emptied: the server is in the next gap.
LEMMA ScatterResetAligns ==
  ASSUME AlignInv, NEW n \in Node, ScatterReset(n)
  PROVE  AlignInv'
<1>1. /\ UNCHANGED <<conf, chunk, stage, where, entered, currEpoch, schBlock, layer, currDir>>
      /\ scatter[n] = "reset" /\ scatter' = [scatter EXCEPT ![n] = "run"]
      /\ scBlock' = [scBlock EXCEPT ![n] = TRUE]
      /\ place' = [place EXCEPT ![n] = [i \in ChunkId |-> "AE"]]
  BY DEF ScatterReset, run, scheduler
<1>2. stage[n] = "running"
  BY <1>1 DEF AlignInv, Aligned, Resting
<1>3. PICK s \in 0..Scatters : Running(n, s)
  BY <1>2, AlignFacts
<1>4. /\ place \in [Node -> [ChunkId -> Place]] /\ conf \in Confs /\ conf' = conf
      /\ scatter \in [Node -> {"run", "wait", "woken", "barrier", "reset"}]
      /\ scBlock \in [Node -> BOOLEAN] /\ 0 \in ChunkId /\ entered \in [Node -> Nat]
      /\ currEpoch[n] \in Nat
  BY <1>1, ConfFacts, AlignFacts DEF AlignInv, AlignTypes
<1>5. \A i \in ChunkId : place[n][i] = "stash"
  BY <1>1, <1>3 DEF Running, Blocking
<1>6. /\ schBlock[n] /\ where[n] = "" /\ currEpoch[n] # 0 /\ layer[n] = AbsOf(s + 1) /\ s < Scatters
      /\ \A i \in ChunkId : chunk[n][i].epoch = currEpoch[n] /\ Between(chunk[n][i], s + 1)
  <2>1. ASSUME NEW i \in ChunkId
        PROVE  /\ schBlock[n] /\ where[n] \notin {"epoch", "begin"} /\ currEpoch[n] # 0
               /\ layer[n] = AbsOf(s + 1) /\ s < Scatters
               /\ chunk[n][i].epoch = currEpoch[n] /\ Between(chunk[n][i], s + 1)
    BY <1>3, <1>5, PhaseFacts
  <2>2. where[n] \in {"", "epoch", "begin", "scatter"} /\ where[n] # "scatter"
    BY <1>1, <1>3 DEF Running, Blocking
  <2> QED BY <1>4, <2>1, <2>2
<1>7. PICK t : t = s + 1
  OBVIOUS
<1>8. t \in 0..Scatters /\ t > 0
  <2>1. Scatters \in Nat
    BY <1>4, ScatterFacts
  <2>2. s < Scatters
    BY <1>6
  <2> QED BY <1>7, <2>1, <2>2
<1>9. /\ \A i \in ChunkId : place'[n][i] = "AE"
      /\ place' \in [Node -> [ChunkId -> Place]] /\ \A m \in Node \ {n} : place'[m] = place[m]
  BY <1>1, <1>4 DEF Place
<1>10. /\ scatter'[n] = "run" /\ scatter' \in [Node -> {"run", "wait", "woken", "barrier", "reset"}]
       /\ scBlock'[n] /\ scBlock' \in [Node -> BOOLEAN]
       /\ \A m \in Node \ {n} : scatter'[m] = scatter[m] /\ scBlock'[m] = scBlock[m]
  BY <1>1, <1>4
<1>11. /\ Node' = Node /\ ChunkId' = ChunkId /\ Scatters' = Scatters /\ AbsOf(t)' = AbsOf(t)
       /\ Base(currEpoch[n], t)' = Base(currEpoch[n], t)
       /\ \A d, u : Between(d, u)' <=> Between(d, u)
  BY <1>1, ConfSame, BetweenSame
<1>12. \A i \in ChunkId : ChunkAt(n, i, t)'
  BY <1>1, <1>6, <1>7, <1>8, <1>9, <1>11 DEF ChunkAt
<1>13. ~Popped(n)'
  BY <1>9, <1>11 DEF Popped, Scattered
<1>14. layer'[n] = LayerAt(n, t)'
  BY <1>1, <1>6, <1>7, <1>11, <1>13 DEF LayerAt
<1>15. Blocking(n)'
  BY <1>1, <1>6, <1>10, <1>13 DEF Blocking
<1>16. Extra(n)' = 0 /\ Extra(n) = Bars(1)
  BY <1>1, <1>6, <1>10 DEF Extra
<1>17. entered'[n] = Base(currEpoch[n], t)' + Extra(n)'
  <2>1. entered[n] = Base(currEpoch[n], s) + Extra(n)
    BY <1>3 DEF Running
  <2>2. Base(currEpoch[n], t) = Base(currEpoch[n], s) + Bars(1)
    BY <1>3, <1>4, <1>7, BaseFacts
  <2>3. Base(currEpoch[n], t) \in Int
    BY <1>4, <1>8, BaseFacts
  <2>4. entered'[n] = entered[n]
    BY <1>1
  <2> QED BY <1>11, <1>16, <2>1, <2>2, <2>3, <2>4
<1>18. Aligned(n)'
  <2>1. Running(n, t)'
    BY <1>1, <1>6, <1>11, <1>12, <1>14, <1>15, <1>17 DEF Running
  <2>2. stage'[n] = "running" /\ t \in (0..Scatters)'
    BY <1>1, <1>2, <1>8, <1>11
  <2> QED BY <2>1, <2>2 DEF Aligned
<1>19. AlignTypes'
  BY <1>1, <1>9, <1>10, <1>11 DEF AlignInv, AlignTypes, Place, Site
<1>20. \A m \in Node \ {n} : Undisturbed(m)
  BY <1>1, <1>9, <1>10 DEF Undisturbed
<1> QED BY <1>4, <1>18, <1>19, <1>20, AlignStep

LEMMA ScatterAligns ==
  ASSUME AlignInv, NEW n \in Node, Scatter(n)
  PROVE  AlignInv'
BY ScatterWaitAligns, ScatterLeaveAligns, ScatterResetAligns, BeginBarrierAligns, BeginScatterAligns,
   ScatterPopAligns, SendAligns DEF Scatter

-----------------------------------------------------------------------------
(* A chunk begins an epoch.                                                *)

\* What is behind and before a chunk at the begin of an epoch.
LEMMA BeginFacts ==
  ASSUME conf \in Confs
  PROVE  /\ 0 \in 0..Scatters /\ DirOf(0) = "FORWARD" /\ LayerOf(0) = 0 /\ AbsOf(0) = 0
         /\ conf.gnn = "GAT" => 0 # Turn
         /\ FirstQueue \in {"GA", "AV"} /\ (FirstQueue = "GA" => conf.gnn # "GAT")
<1>1. Scatters \in Nat /\ 0 <= Turn /\ Turn \in Nat /\ (conf.gnn = "GAT" => Turn > 0)
  BY ScatterFacts
<1>2. 0 \in 0..Scatters /\ (conf.gnn = "GAT" => 0 # Turn)
  BY <1>1
<1>3. DirOf(0) = "FORWARD" /\ LayerOf(0) = 0 /\ AbsOf(0) = 0
  BY <1>1 DEF DirOf, LayerOf, AbsOf
<1>4. FirstQueue \in {"GA", "AV"} /\ (FirstQueue = "GA" => conf.gnn # "GAT")
  BY DEF FirstQueue
<1> QED BY <1>2, <1>3, <1>4

LEMMA SchedPassAligns ==
  ASSUME AlignInv, NEW n \in Node, NEW i \in ChunkId, SchedPass(n, i)
  PROVE  AlignInv'
<1>1. /\ Steady /\ UNCHANGED <<layer, currDir>> /\ stage[n] = "running"
      /\ place[n][i] = "sch" /\ InGap(n, i) /\ Send(n, i, FirstQueue, chunk[n][i])
  BY DEF SchedPass, Schedulable, Steady, run, scheduler, scatterer, InQueue, InGap
<1>2. PICK s \in 0..Scatters : Running(n, s)
  BY <1>1, AlignFacts
<1>3. /\ s = 0 /\ chunk[n][i].dir = "FORWARD" /\ chunk[n][i].layer = 0
      /\ chunk[n][i].epoch = currEpoch[n] /\ chunk[n][i] \in Chunk
  BY <1>1, <1>2, GapFacts
<1>4. conf \in Confs
  BY AlignFacts
<1>5. PICK q : q = FirstQueue
  OBVIOUS
<1>6. q \in {"GA", "AV"} /\ (q = "GA" => conf.gnn # "GAT") /\ (conf.gnn = "GAT" => s # Turn)
      /\ DirOf(s) = "FORWARD" /\ LayerOf(s) = 0
  BY <1>3, <1>4, <1>5, BeginFacts
<1>7. place'[n][i] = q /\ chunk'[n][i] = chunk[n][i]
  BY <1>1, <1>5, AlignFacts DEF Send
<1>8. ChunkAt(n, i, s)'
  <2>1. /\ conf' = conf /\ currEpoch' = currEpoch /\ Turn' = Turn
        /\ DirOf(s)' = DirOf(s) /\ LayerOf(s)' = LayerOf(s)
    BY <1>1, ConfSame DEF Steady
  <2>2. Between(chunk[n][i], s)'
    BY <1>3, <1>6, <1>7, <2>1 DEF Between
  <2> QED BY <1>3, <1>6, <1>7, <2>1, <2>2 DEF ChunkAt
<1>9. Send(n, i, q, chunk[n][i]) /\ q \in {"GA", "AV", "SC", "sch"}
  BY <1>1, <1>5, <1>6
<1> QED BY <1>1, <1>2, <1>3, <1>8, <1>9, GapAligns

\* The first chunk of the epoch: it is behind no scatter phase of the new epoch.
LEMMA SchedStartAligns ==
  ASSUME AlignInv, NEW n \in Node, NEW i \in ChunkId, SchedStart(n, i)
  PROVE  AlignInv'
<1>1. /\ UNCHANGED <<conf, stage, where, entered, scatter, scBlock, currDir>>
      /\ schBlock' = [schBlock EXCEPT ![n] = TRUE] /\ ~schBlock[n]
      /\ currEpoch' = [currEpoch EXCEPT ![n] = @ + 1] /\ layer' = [layer EXCEPT ![n] = 0]
      /\ Send(n, i, FirstQueue, chunk[n][i]) /\ stage[n] = "running" /\ where[n] = ""
  BY DEF SchedStart, Schedulable, InQueue, run
<1>2. PICK s \in 0..Scatters : Running(n, s)
  BY <1>1, AlignFacts
<1>3. /\ conf \in Confs /\ conf' = conf /\ currEpoch[n] \in Nat /\ conf.numEpochs \in Nat
      /\ chunk \in [Node -> [ChunkId -> Chunk]] /\ place \in [Node -> [ChunkId -> Place]]
      /\ schBlock \in [Node -> BOOLEAN] /\ layer \in [Node -> Int]
      /\ currEpoch \in [Node -> 0..conf.numEpochs] /\ entered \in [Node -> Nat]
  BY <1>1, AlignFacts, ScatterFacts DEF AlignInv, AlignTypes
<1>4. AllNext(n) /\ currEpoch[n] < conf.numEpochs
  BY <1>1, <1>2 DEF Running, Blocking
<1>5. /\ s = Scatters
      /\ \A j \in ChunkId : /\ place[n][j] = "sch" /\ chunk[n][j].dir = "FORWARD"
                            /\ chunk[n][j].layer = 0 /\ chunk[n][j].epoch = currEpoch[n] + 1
  <2>1. \A j \in ChunkId : /\ place[n][j] = "sch" /\ ChunkAt(n, j, s)
                           /\ chunk[n][j].epoch = currEpoch[n] + 1
    BY <1>2, <1>4 DEF AllNext, Running
  <2> QED BY <1>3, <2>1, AllAtScheduler
<1>6. PICK q : q = FirstQueue
  OBVIOUS
<1>7. PICK c : c = chunk[n][i]
  OBVIOUS
<1>8. q \in {"GA", "AV"} /\ q \in Place /\ c \in Chunk
  BY <1>3, <1>6, <1>7, BeginFacts DEF Place
<1>9. place' = [place EXCEPT ![n][i] = q] /\ chunk' = [chunk EXCEPT ![n][i] = c]
  BY <1>1, <1>6, <1>7 DEF Send
<1>10. /\ place' \in [Node -> [ChunkId -> Place]] /\ place'[n][i] = q
       /\ \A m \in Node \ {n} : place'[m] = place[m]
       /\ \A j \in ChunkId \ {i} : place'[n][j] = place[n][j]
  BY <1>3, <1>8, <1>9
<1>11. /\ chunk' \in [Node -> [ChunkId -> Chunk]]
       /\ \A m \in Node \ {n} : chunk'[m] = chunk[m]
       /\ \A j \in ChunkId : chunk'[n][j] = chunk[n][j]
  <2>1. chunk' \in [Node -> [ChunkId -> Chunk]]
    BY <1>3, <1>8, <1>9
  <2>2. \A m \in Node \ {n} : chunk'[m] = chunk[m]
    BY <1>3, <1>9
  <2>3. \A j \in ChunkId : chunk'[n][j] = chunk[n][j]
    BY <1>3, <1>7, <1>9
  <2> QED BY <2>1, <2>2, <2>3
<1>12. PICK e : e = currEpoch[n] + 1
  OBVIOUS
<1>13. /\ currEpoch'[n] = e /\ e \in 0..conf.numEpochs /\ e # 0 /\ currEpoch' \in [Node -> 0..conf.numEpochs]
       /\ \A m \in Node \ {n} : currEpoch'[m] = currEpoch[m]
  <2>1. e \in 0..conf.numEpochs /\ e # 0
    <3>1. currEpoch[n] < conf.numEpochs
      BY <1>4
    <3> QED BY <1>3, <1>12, <3>1
  <2>2. currEpoch' = [currEpoch EXCEPT ![n] = e]
    BY <1>1, <1>12
  <2> QED BY <1>3, <2>1, <2>2
<1>14. /\ layer'[n] = 0 /\ layer' \in [Node -> Int] /\ \A m \in Node \ {n} : layer'[m] = layer[m]
  <2>1. layer' = [layer EXCEPT ![n] = 0] /\ layer \in [Node -> Int]
    BY <1>1, <1>3
  <2> QED BY <2>1
<1>15. /\ schBlock'[n] /\ schBlock' \in [Node -> BOOLEAN]
       /\ \A m \in Node \ {n} : schBlock'[m] = schBlock[m]
  BY <1>1, <1>3
<1>16. /\ Node' = Node /\ ChunkId' = ChunkId /\ Scatters' = Scatters /\ Turn' = Turn
       /\ DirOf(0)' = DirOf(0) /\ LayerOf(0)' = LayerOf(0) /\ AbsOf(0)' = AbsOf(0)
       /\ Base(e, 0)' = Base(e, 0)
  BY <1>1, ConfSame
<1>17. /\ 0 \in 0..Scatters /\ DirOf(0) = "FORWARD" /\ LayerOf(0) = 0 /\ AbsOf(0) = 0
       /\ conf.gnn = "GAT" => 0 # Turn
       /\ q = "GA" => conf.gnn # "GAT"
  BY <1>3, <1>6, BeginFacts
<1>18. \A j \in ChunkId : ChunkAt(n, j, 0)'
  <2>1. ASSUME NEW j \in ChunkId
        PROVE  /\ chunk'[n][j].dir = "FORWARD" /\ chunk'[n][j].layer = 0
               /\ chunk'[n][j].epoch = currEpoch'[n]
    BY <1>5, <1>11, <1>12, <1>13
  <2>2. ASSUME NEW j \in ChunkId \ {i}
        PROVE  ChunkAt(n, j, 0)'
    BY <1>5, <1>10, <2>1, <2>2 DEF ChunkAt
  <2>3. ChunkAt(n, i, 0)'
    <3>1. Between(chunk[n][i], 0)'
      BY <1>16, <1>17, <2>1 DEF Between
    <3> QED BY <1>1, <1>8, <1>10, <1>16, <1>17, <2>1, <3>1 DEF ChunkAt
  <2> QED BY <2>2, <2>3
<1>19. \A j \in ChunkId : place'[n][j] \notin Scattered
  BY <1>5, <1>8, <1>10 DEF Scattered
<1>20. ~Popped(n)'
  BY <1>16, <1>19 DEF Popped, Scattered
<1>21. scatter[n] = "run" /\ scBlock[n]
  <2>1. 0 \in ChunkId
    BY <1>3, ConfFacts
  <2>2. Blocking(n) /\ place[n][0] = "sch"
    BY <1>2, <1>5, <2>1 DEF Running
  <2> QED BY <2>1, <2>2 DEF Blocking, Scattered, AlignInv, AlignTypes
<1>22. Blocking(n)'
  <2>1. /\ where'[n] = "" /\ schBlock'[n] /\ scatter'[n] = "run" /\ scBlock'[n]
    BY <1>1, <1>15, <1>21
  <2> QED BY <1>20, <2>1 DEF Blocking
<1>23. layer'[n] = LayerAt(n, 0)'
  BY <1>13, <1>14, <1>16, <1>17, <1>20 DEF LayerAt
<1>24. entered'[n] = Base(currEpoch[n], 0)' + Extra(n)'
  <2>1. entered[n] = Base(currEpoch[n], Scatters) + Extra(n)
    BY <1>2, <1>5 DEF Running
  <2>2. Extra(n) = 1
    BY <1>1 DEF Extra
  <2>3. Extra(n)' = 0
    BY <1>1, <1>15, <1>21 DEF Extra
  <2>4. Base(e, 0) = Base(currEpoch[n], Scatters) + 1 /\ Base(e, 0) \in Int
    <3>1. e \in Nat
      BY <1>3, <1>12
    <3> QED BY <1>3, <1>12, <1>17, <3>1, BaseFacts
  <2>5. Base(currEpoch[n], 0)' = Base(e, 0)
    BY <1>13, <1>16
  <2>6. entered'[n] = entered[n]
    BY <1>1
  <2>7. entered'[n] = Base(e, 0)
    BY <2>1, <2>2, <2>4, <2>6
  <2> QED BY <2>3, <2>4, <2>5, <2>7
<1>25. Aligned(n)'
  <2>1. Running(n, 0)'
    BY <1>13, <1>16, <1>18, <1>22, <1>23, <1>24 DEF Running
  <2>2. stage'[n] = "running" /\ 0 \in (0..Scatters)'
    BY <1>1, <1>16, <1>17
  <2> QED BY <2>1, <2>2 DEF Aligned
<1>26. AlignTypes'
  BY <1>1, <1>10, <1>11, <1>13, <1>14, <1>15, <1>16 DEF AlignInv, AlignTypes, Place, Site
<1>27. \A m \in Node \ {n} : Undisturbed(m)
  BY <1>1, <1>10, <1>11, <1>13, <1>14, <1>15 DEF Undisturbed
<1> QED BY <1>3, <1>25, <1>26, <1>27, AlignStep

LEMMA ScheduleAligns ==
  ASSUME AlignInv, NEW n \in Node, Schedule(n)
  PROVE  AlignInv'
BY SchedHaltAligns, SchedBarrierAligns, SchedUnblockAligns, SchedStartAligns, SchedPassAligns
DEF Schedule

\* A receiver wakes the scatter thread that waits; the rest is not of this.
LEMMA ReceiveAligns ==
  ASSUME AlignInv, NEW n \in Node, Receive(n)
  PROVE  AlignInv'
<1>1. CASE UNCHANGED <<conf, chunk, place, stage, where, entered, currEpoch, schBlock, scatter, scBlock, layer, currDir>>
  BY <1>1, AlignStutter
<1>2. CASE Check(n) /\ scatter[n] = "wait" /\ Complete(n)
  <2>1. /\ UNCHANGED <<conf, chunk, place, stage, where, entered, currEpoch, schBlock, scBlock, layer, currDir>>
        /\ scatter' = [scatter EXCEPT ![n] = "woken"] /\ scatter[n] = "wait"
    BY <1>2 DEF Check, queues, run, scheduler
  <2>2. /\ where \in [Node -> Site] /\ entered \in [Node -> Nat] /\ schBlock \in [Node -> BOOLEAN]
        /\ scatter \in [Node -> {"run", "wait", "woken", "barrier", "reset"}]
        /\ scBlock \in [Node -> BOOLEAN] /\ conf \in Confs
    BY DEF AlignInv, AlignTypes
  <2>3. stage[n] = "running"
    BY <2>1 DEF AlignInv, Aligned, Resting
  <2>4. PICK s \in 0..Scatters : Running(n, s)
    BY <2>3, AlignFacts
  <2>5. /\ scatter'[n] = "woken" /\ scatter' \in [Node -> {"run", "wait", "woken", "barrier", "reset"}]
        /\ \A m \in Node \ {n} : scatter'[m] = scatter[m]
    BY <2>1, <2>2
  <2>6. \A m \in Node \ {n} : Undisturbed(m)
    BY <2>1, <2>5 DEF Undisturbed
  <2>7. Blocking(n) /\ ChunkId' = ChunkId /\ (Popped(n)' <=> Popped(n)) /\ (AllNext(n)' <=> AllNext(n))
    <3>1. ChunkId' = ChunkId
      BY <2>1, ConfSame
    <3> QED BY <2>1, <2>4, <3>1 DEF Running, Popped, AllNext
  <2>8. Blocking(n)'
    BY <2>1, <2>5, <2>7 DEF Blocking
  <2>9. Counted(n)
    <3>1. Bars(1)' = Bars(1) /\ Extra(n) \in Int
      BY <2>1, <2>2, ConfSame, ExtraInt
    <3>2. Extra(n)' = Extra(n)
      BY <2>1, <2>5, <3>1 DEF Extra
    <3>3. entered'[n] = entered[n] /\ entered[n] \in Int
      BY <2>1, <2>2
    <3> QED BY <3>1, <3>2, <3>3 DEF Counted
  <2> QED BY <2>1, <2>2, <2>3, <2>4, <2>5, <2>6, <2>8, <2>9, ThreadAligns
<1>3. ASSUME Check(n), ~(scatter[n] = "wait" /\ Complete(n))
      PROVE  UNCHANGED <<conf, chunk, place, stage, where, entered, currEpoch, schBlock, scatter, scBlock, layer, currDir>>
  <2>1. scatter' = [scatter EXCEPT ![n] = @]
    BY <1>3 DEF Check
  <2>2. scatter' = scatter
    BY <2>1 DEF AlignInv, AlignTypes
  <2> QED BY <1>3, <2>2 DEF Check, queues, run, scheduler
<1>4. Check(n) \/ UNCHANGED <<conf, chunk, place, stage, where, entered, currEpoch, schBlock, scatter, scBlock, layer, currDir>>
  BY DEF Receive, RecvValues, RecvAck, StoreValues, queues, run, scheduler, scatterer
<1> QED BY <1>1, <1>2, <1>3, <1>4

LEMMA AlignNext == AlignInv /\ [Next]_vars => AlignInv'
<1> SUFFICES ASSUME AlignInv, [Next]_vars PROVE AlignInv'
  OBVIOUS
<1>1. CASE UNCHANGED kept
  BY <1>1, AlignStutter DEF kept, queues, run, scheduler, scatterer
<1> QED BY <1>1, MainAligns, ScheduleAligns, ScatterAligns, ReceiveAligns, WorkAligns, Steps

LEMMA AlignInit == Init => AlignInv
<1> SUFFICES ASSUME Init PROVE AlignInv
  OBVIOUS
<1>1. conf \in Confs
  BY DEF Init
<1>2. Scatters \in Nat /\ Scatters # 0 /\ conf.numEpochs \in Nat /\ 0 \in ChunkId
  <2>1. Scatters \in Nat /\ Scatters > 1
    BY <1>1, ScatterFacts
  <2> QED BY <1>1, <2>1, ScatterFacts, ConfFacts
<1>3. PICK first : first = [i \in ChunkId |->
        [localId |-> i, layer |-> 0, dir |-> "FORWARD", epoch |-> 1, vertex |-> TRUE]]
  OBVIOUS
<1>4. PICK atSch : atSch = [i \in ChunkId |-> "sch"]
  OBVIOUS
<1>5. chunk = [n \in Node |-> first] /\ place = [n \in Node |-> atSch]
  BY <1>3, <1>4 DEF Init
<1>6. /\ first \in [ChunkId -> Chunk]
      /\ \A i \in ChunkId : first[i].dir = "FORWARD" /\ first[i].layer = 0 /\ first[i].epoch = 1
  <2>1. \A i \in ChunkId : i \in Nat
    BY <1>1, ConfFacts DEF ChunkId
  <2> QED BY <1>3, <2>1 DEF Chunk, PropType
<1>7. /\ atSch \in [ChunkId -> Place] /\ \A i \in ChunkId : atSch[i] = "sch"
  BY <1>4 DEF Place
<1>8. AlignTypes
  <2>1. chunk \in [Node -> [ChunkId -> Chunk]]
    BY <1>5, <1>6
  <2>2. place \in [Node -> [ChunkId -> Place]]
    BY <1>5, <1>7
  <2>3. 0 \in 0..conf.numEpochs
    BY <1>2
  <2>4. "FORWARD" \in PropType /\ "" \in Site
    BY DEF PropType, Site
  <2>5. /\ currEpoch \in [Node -> 0..conf.numEpochs] /\ entered \in [Node -> Nat]
        /\ layer \in [Node -> Int]
    <3>1. /\ currEpoch = [n \in Node |-> 0] /\ entered = [n \in Node |-> 0]
          /\ layer = [n \in Node |-> 0]
      BY DEF Init
    <3> QED BY <2>3, <3>1
  <2>6. /\ stage \in [Node -> {"new", "running", "halt", "done"}] /\ where \in [Node -> Site]
        /\ scatter \in [Node -> {"run", "wait", "woken", "barrier", "reset"}]
        /\ currDir \in [Node -> PropType]
    BY <2>4 DEF Init
  <2>7. schBlock \in [Node -> BOOLEAN] /\ scBlock \in [Node -> BOOLEAN]
    BY DEF Init
  <2> QED BY <1>1, <2>1, <2>2, <2>5, <2>6, <2>7 DEF AlignTypes
<1>9. ASSUME NEW n \in Node PROVE Aligned(n)
  <2>1. /\ currEpoch[n] = 0 /\ schBlock[n] /\ scBlock[n] /\ scatter[n] = "run" /\ layer[n] = 0
        /\ stage[n] = "new" /\ where[n] = "" /\ entered[n] = 0
    BY DEF Init
  <2>2. \A i \in ChunkId : /\ place[n][i] = "sch" /\ chunk[n][i].dir = "FORWARD"
                           /\ chunk[n][i].layer = 0 /\ chunk[n][i].epoch = 1
    BY <1>5, <1>6, <1>7
  <2>3. 0 + 1 = 1
    OBVIOUS
  <2>4. AllNext(n)
    BY <2>1, <2>2, <2>3 DEF AllNext
  <2>5. \A i \in ChunkId : ChunkAt(n, i, Scatters)
    BY <2>1, <2>2, <2>3 DEF ChunkAt
  <2>6. layer[n] = LayerAt(n, Scatters)
    BY <2>1, <2>2 DEF LayerAt, Popped, Scattered
  <2> QED BY <2>1, <2>4, <2>5, <2>6 DEF Aligned, Resting
<1> QED BY <1>8, <1>9 DEF AlignInv

-----------------------------------------------------------------------------
(* SameBarrier.                                                            *)

\* The barrier a server is in, as number p of its round q: the first barrier of
\* a round is that of the scheduler, or the last of the run.
LayerBefore(q) == IF q = 0 THEN 0 ELSE AbsOf(Scatters)

InPhase(n, p, s) ==
  \/ where[n] = "begin" /\ conf.build # "Lambda" /\ p = 2 * s + 1 /\ layer[n] = AbsOf(s)
  \/ where[n] = "scatter" /\ p = Bars(s + 1) /\ layer[n] = AbsOf(s + 1)

Slot(n, q, p) ==
  /\ entered[n] = 2 + q * BarsOfEpoch + p
  /\ p = 0 => /\ where[n] = (IF q = conf.numEpochs THEN "end" ELSE "epoch")
              /\ currEpoch[n] = q /\ layer[n] = LayerBefore(q)
  /\ p # 0 => /\ currEpoch[n] = q + 1
              /\ \E s \in 0..Scatters - 1 : InPhase(n, p, s)

LEMMA BarsFacts ==
  ASSUME conf \in Confs
  PROVE  /\ BarsOfEpoch \in Nat /\ BarsOfEpoch > 0 /\ Scatters \in Nat
         /\ \A s \in 0..Scatters - 1 : Bars(s + 1) \in 1..BarsOfEpoch - 1
         /\ conf.build # "Lambda" => \A s \in 0..Scatters - 1 : 2 * s + 1 \in 1..BarsOfEpoch - 1
<1>1. Scatters \in Nat
  BY ScatterFacts
<1>2. CASE conf.build = "Lambda"
  <2>1. \A s : Bars(s) = s
    BY <1>2 DEF Bars
  <2>2. BarsOfEpoch = Scatters + 1
    BY <2>1 DEF BarsOfEpoch
  <2> QED BY <1>1, <1>2, <2>1, <2>2
<1>3. CASE conf.build # "Lambda"
  <2>1. \A s : Bars(s) = 2 * s
    BY <1>3 DEF Bars
  <2>2. BarsOfEpoch = 2 * Scatters + 1
    BY <2>1 DEF BarsOfEpoch
  <2> QED BY <1>1, <2>1, <2>2
<1> QED BY <1>2, <1>3

\* Rounds and numbers of a round are apart.
LEMMA Digits ==
  ASSUME NEW B \in Nat, NEW q \in Nat, NEW r \in Nat, NEW p \in 0..B - 1, NEW t \in 0..B - 1,
         q * B + p = r * B + t
  PROVE  q = r /\ p = t
<1>1. ASSUME NEW a \in Nat, NEW b \in Nat, a < b PROVE a * B + B <= b * B
  <2>1. PICK d \in Nat : b = a + 1 + d
    <3>1. b - a - 1 \in Nat /\ b = a + 1 + (b - a - 1)
      BY <1>1
    <3> QED BY <3>1
  <2>2. b * B = a * B + B + d * B
    BY <2>1
  <2>3. d * B \in Nat /\ a * B \in Nat
    OBVIOUS
  <2> QED BY <2>2, <2>3
<1>2. q * B \in Nat /\ r * B \in Nat
  OBVIOUS
<1>3. ~(q < r)
  BY <1>1, <1>2
<1>4. ~(r < q)
  BY <1>1, <1>2
<1>5. q = r
  BY <1>3, <1>4
<1> QED BY <1>2, <1>5

\* A server that waits in barrier w.
At(n, w) == where[n] = w

\* What the barriers at the end of an epoch, or of the run, have in common.
LEMMA RoundFacts ==
  ASSUME AlignInv, NEW n \in Node
  PROVE  /\ conf \in Confs /\ currEpoch[n] \in Nat /\ conf.numEpochs \in Nat
         /\ BarsOfEpoch \in Nat /\ 0 \in 0..BarsOfEpoch - 1
         /\ Scatters \in 0..Scatters /\ Scatters \in Nat
         /\ AllNext(n) /\ layer[n] = LayerAt(n, Scatters) => layer[n] = LayerBefore(currEpoch[n])
         /\ entered[n] = Base(currEpoch[n], Scatters) + 1
              => entered[n] = 2 + currEpoch[n] * BarsOfEpoch + 0
<1>1. conf \in Confs /\ currEpoch[n] \in Nat /\ conf.numEpochs \in Nat
  <2>1. conf \in Confs /\ currEpoch[n] \in Nat
    BY AlignFacts
  <2> QED BY <2>1, ScatterFacts
<1>2. BarsOfEpoch \in Nat /\ 0 \in 0..BarsOfEpoch - 1 /\ Scatters \in 0..Scatters /\ Scatters \in Nat
  <2>1. BarsOfEpoch \in Nat /\ BarsOfEpoch > 0 /\ Scatters \in Nat
    BY <1>1, BarsFacts
  <2> QED BY <2>1
<1>3. ASSUME AllNext(n), layer[n] = LayerAt(n, Scatters)
      PROVE  layer[n] = LayerBefore(currEpoch[n])
  <2>1. ~Popped(n)
    BY <1>3 DEF AllNext, Popped, Scattered
  <2> QED BY <1>3, <2>1 DEF LayerAt, LayerBefore
<1>4. ASSUME entered[n] = Base(currEpoch[n], Scatters) + 1
      PROVE  entered[n] = 2 + currEpoch[n] * BarsOfEpoch + 0
  <2>1. PICK e : e = currEpoch[n] /\ e \in Nat
    BY <1>1
  <2>2. Base(e + 1, 0) = Base(e, Scatters) + 1 /\ Bars(0) = 0
    BY <1>1, <2>1, BaseFacts, ScatterFacts
  <2>3. \A d \in Int : Base(d, 0) = 2 + (d - 1) * BarsOfEpoch + Bars(0)
    BY DEF Base
  <2>4. e + 1 - 1 = e /\ e * BarsOfEpoch \in Nat
    BY <1>2, <2>1
  <2> QED BY <1>4, <2>1, <2>2, <2>3, <2>4
<1> QED BY <1>1, <1>2, <1>3, <1>4

LEMMA EndSlot ==
  ASSUME AlignInv, NEW n \in Node, At(n, "end"), ~LeavesEarly(n)
  PROVE  \E q \in Nat : \E p \in 0..BarsOfEpoch - 1 : Slot(n, q, p)
<1>1. stage[n] # "running" /\ stage[n] # "new"
  BY DEF At, AlignInv, Aligned, Running, Blocking
<1>2. /\ Resting(n) /\ currEpoch[n] = conf.numEpochs
      /\ entered[n] = Base(currEpoch[n], Scatters) + 1
  <2>1. Resting(n) /\ (Finished(n) \/ StoppedEarly(n))
    BY <1>1 DEF AlignInv, Aligned
  <2>2. ~StoppedEarly(n)
    BY DEF At, LeavesEarly, StoppedEarly
  <2> QED BY <2>1, <2>2 DEF At, Finished
<1>3. layer[n] = LayerBefore(currEpoch[n]) /\ entered[n] = 2 + currEpoch[n] * BarsOfEpoch + 0
  BY <1>2, RoundFacts DEF Resting
<1>4. Slot(n, currEpoch[n], 0)
  BY <1>2, <1>3 DEF At, Slot
<1> QED BY <1>4, RoundFacts

LEMMA EpochSlot ==
  ASSUME AlignInv, NEW n \in Node, At(n, "epoch")
  PROVE  \E q \in Nat : \E p \in 0..BarsOfEpoch - 1 : Slot(n, q, p)
<1>1. \E s \in 0..Scatters : Running(n, s)
  BY SiteFacts DEF At
<1>2. PICK s \in 0..Scatters : Running(n, s)
  BY <1>1
<1>3. Blocking(n) /\ entered[n] = Base(currEpoch[n], s) + Extra(n) /\ layer[n] = LayerAt(n, s)
  BY <1>2 DEF Running
<1>4. AllNext(n) /\ currEpoch[n] < conf.numEpochs /\ Extra(n) = 1
  BY <1>3 DEF At, Blocking, Extra
<1>5. conf \in Confs /\ currEpoch[n] \in Nat /\ conf.numEpochs \in Nat
  BY RoundFacts
<1>6. s = Scatters
  <2>1. \A i \in ChunkId : place[n][i] = "sch" /\ ChunkAt(n, i, s) /\ chunk[n][i].epoch = currEpoch[n] + 1
    BY <1>2, <1>4 DEF AllNext, Running
  <2>2. 0 \in ChunkId
    BY <1>5, ConfFacts
  <2> QED BY <1>5, <2>1, <2>2, AllAtScheduler
<1>7. currEpoch[n] # conf.numEpochs
  <2>1. currEpoch[n] < conf.numEpochs
    BY <1>4
  <2> QED BY <1>5, <2>1
<1>8. layer[n] = LayerBefore(currEpoch[n]) /\ entered[n] = 2 + currEpoch[n] * BarsOfEpoch + 0
  BY <1>3, <1>4, <1>6, RoundFacts
<1>9. Slot(n, currEpoch[n], 0)
  BY <1>7, <1>8 DEF At, Slot
<1> QED BY <1>9, RoundFacts

\* A server in a scatter phase of epoch q + 1.
LEMMA PhaseSlot ==
  ASSUME AlignInv, NEW n \in Node, NEW s \in 0..Scatters, s < Scatters, currEpoch[n] # 0,
         NEW p, InPhase(n, p, s), p \in 1..BarsOfEpoch - 1,
         entered[n] = Base(currEpoch[n], 0) + p
  PROVE  \E q \in Nat : \E t \in 0..BarsOfEpoch - 1 : Slot(n, q, t)
<1>1. /\ conf \in Confs /\ currEpoch[n] \in Nat /\ BarsOfEpoch \in Nat /\ Scatters \in Nat
  BY RoundFacts
<1>2. PICK q : q = currEpoch[n] - 1
  OBVIOUS
<1>3. q \in Nat /\ currEpoch[n] = q + 1
  BY <1>1, <1>2
<1>4. s \in 0..Scatters - 1 /\ p \in 0..BarsOfEpoch - 1 /\ p # 0
  BY <1>1
<1>5. entered[n] = 2 + q * BarsOfEpoch + p
  <2>1. Base(currEpoch[n], 0) = 2 + q * BarsOfEpoch + Bars(0)
    BY <1>2 DEF Base
  <2>2. Bars(0) = 0 /\ q * BarsOfEpoch \in Nat
    BY <1>1, <1>3, ScatterFacts
  <2> QED BY <1>1, <2>1, <2>2
<1>6. Slot(n, q, p)
  BY <1>3, <1>4, <1>5 DEF Slot
<1> QED BY <1>3, <1>4, <1>6

LEMMA BaseSplit ==
  ASSUME conf \in Confs, NEW e \in Nat, NEW s \in 0..Scatters
  PROVE  Base(e, s) = Base(e, 0) + Bars(s) /\ Base(e, 0) \in Int
<1>1. Bars(0) = 0 /\ Bars(s) \in Nat /\ BarsOfEpoch \in Nat
  BY ScatterFacts, BarsFacts
<1>2. (e - 1) * BarsOfEpoch \in Int
  BY <1>1
<1> QED BY <1>1, <1>2 DEF Base

LEMMA BeginSlot ==
  ASSUME AlignInv, NEW n \in Node, At(n, "begin")
  PROVE  \E q \in Nat : \E p \in 0..BarsOfEpoch - 1 : Slot(n, q, p)
<1>1. \E s \in 0..Scatters : Running(n, s)
  BY SiteFacts DEF At
<1>2. PICK s \in 0..Scatters : Running(n, s)
  BY <1>1
<1>3. Blocking(n) /\ entered[n] = Base(currEpoch[n], s) + Extra(n) /\ layer[n] = LayerAt(n, s)
  BY <1>2 DEF Running
<1>4. conf \in Confs /\ currEpoch[n] \in Nat /\ Scatters \in Nat
  BY RoundFacts
<1>5. /\ scBlock[n] /\ conf.build # "Lambda" /\ ~Popped(n)
      /\ \A i \in ChunkId : place[n][i] = "SC"
  BY <1>3 DEF At, Blocking
<1>6. schBlock[n] /\ currEpoch[n] # 0 /\ scatter[n] = "run" /\ s < Scatters
  <2>1. 0 \in ChunkId
    BY <1>4, ConfFacts
  <2> QED BY <1>2, <1>5, <2>1, PhaseFacts
<1>7. Extra(n) = 1 /\ layer[n] = AbsOf(s)
  BY <1>3, <1>5, <1>6 DEF At, Extra, LayerAt
<1>8. Bars(s) = 2 * s
  BY <1>5 DEF Bars
<1>9. s < Scatters /\ currEpoch[n] # 0
  BY <1>6
<1>10. PICK p : p = 2 * s + 1
  OBVIOUS
<1>11. InPhase(n, p, s)
  BY <1>5, <1>7, <1>10 DEF At, InPhase
<1>12. p \in 1..BarsOfEpoch - 1
  <2>1. s \in 0..Scatters - 1
    BY <1>4, <1>9
  <2> QED BY <1>4, <1>5, <1>10, <2>1, BarsFacts
<1>13. entered[n] = Base(currEpoch[n], 0) + p
  <2>1. entered[n] = Base(currEpoch[n], s) + 1
    BY <1>3, <1>7
  <2>2. Base(currEpoch[n], s) = Base(currEpoch[n], 0) + 2 * s /\ Base(currEpoch[n], 0) \in Int
    BY <1>4, <1>8, BaseSplit
  <2> QED BY <1>10, <2>1, <2>2
<1> QED BY <1>9, <1>11, <1>12, <1>13, PhaseSlot

LEMMA ScatterSlot ==
  ASSUME AlignInv, NEW n \in Node, At(n, "scatter")
  PROVE  \E q \in Nat : \E p \in 0..BarsOfEpoch - 1 : Slot(n, q, p)
<1>1. \E s \in 0..Scatters : Running(n, s)
  BY SiteFacts DEF At
<1>2. PICK s \in 0..Scatters : Running(n, s)
  BY <1>1
<1>3. Blocking(n) /\ entered[n] = Base(currEpoch[n], s) + Extra(n)
  BY <1>2 DEF Running
<1>4. conf \in Confs /\ currEpoch[n] \in Nat /\ Scatters \in Nat
  BY RoundFacts
<1>5. \A i \in ChunkId : place[n][i] = "stash"
  BY <1>3 DEF At, Blocking
<1>6. schBlock[n] /\ currEpoch[n] # 0 /\ layer[n] = AbsOf(s + 1) /\ s < Scatters
  <2>1. 0 \in ChunkId
    BY <1>4, ConfFacts
  <2> QED BY <1>2, <1>5, <2>1, PhaseFacts
<1>7. Extra(n) = Bars(1)
  BY <1>6 DEF At, Extra
<1>8. s < Scatters /\ currEpoch[n] # 0
  BY <1>6
<1>9. PICK p : p = Bars(s + 1)
  OBVIOUS
<1>10. InPhase(n, p, s)
  BY <1>6, <1>9 DEF At, InPhase
<1>11. p \in 1..BarsOfEpoch - 1 /\ s + 1 \in 0..Scatters
  <2>1. s \in 0..Scatters - 1 /\ s + 1 \in 0..Scatters
    BY <1>4, <1>8
  <2> QED BY <1>4, <1>9, <2>1, BarsFacts
<1>12. entered[n] = Base(currEpoch[n], 0) + p
  <2>1. entered[n] = Base(currEpoch[n], s) + Bars(1)
    BY <1>3, <1>7
  <2>2. Base(currEpoch[n], s + 1) = Base(currEpoch[n], s) + Bars(1)
    BY <1>4, BaseFacts
  <2>3. Base(currEpoch[n], s + 1) = Base(currEpoch[n], 0) + Bars(s + 1)
    BY <1>4, <1>11, BaseSplit
  <2> QED BY <1>9, <2>1, <2>2, <2>3
<1> QED BY <1>8, <1>10, <1>11, <1>12, PhaseSlot

\* A server in a barrier after the first, of a run that nothing has cut short.
InBarrier(n) == where[n] \in Site \ {"", "start"} /\ ~LeavesEarly(n)

LEMMA BarrierSlot ==
  ASSUME AlignInv, NEW n \in Node, InBarrier(n)
  PROVE  \E q \in Nat : \E p \in 0..BarsOfEpoch - 1 : Slot(n, q, p)
<1>1. At(n, "end") \/ At(n, "epoch") \/ At(n, "begin") \/ At(n, "scatter")
  BY DEF InBarrier, At, Site
<1> QED BY <1>1, EndSlot, EpochSlot, BeginSlot, ScatterSlot DEF InBarrier

\* The number of a barrier says which it is.
LEMMA PhaseAgrees ==
  ASSUME conf \in Confs, NEW n \in Node, NEW m \in Node, NEW p \in Nat,
         NEW s \in 0..Scatters - 1, NEW t \in 0..Scatters - 1, InPhase(n, p, s), InPhase(m, p, t)
  PROVE  where[n] = where[m] /\ layer[n] = layer[m]
<1>1. Scatters \in Nat
  BY BarsFacts
<1>2. CASE conf.build = "Lambda"
  <2>1. Bars(s + 1) = s + 1 /\ Bars(t + 1) = t + 1
    BY <1>2 DEF Bars
  <2>2. /\ where[n] = "scatter" /\ p = Bars(s + 1) /\ layer[n] = AbsOf(s + 1)
        /\ where[m] = "scatter" /\ p = Bars(t + 1) /\ layer[m] = AbsOf(t + 1)
    BY <1>2 DEF InPhase
  <2>3. s + 1 = t + 1
    BY <2>1, <2>2
  <2> QED BY <2>2, <2>3
<1>3. CASE conf.build # "Lambda"
  <2>1. Bars(s + 1) = 2 * (s + 1) /\ Bars(t + 1) = 2 * (t + 1)
    BY <1>3 DEF Bars
  <2>2. 2 * s + 1 # 2 * (t + 1) /\ 2 * t + 1 # 2 * (s + 1)
    BY <1>1
  <2>3. CASE where[n] = "begin"
    <3>1. p = 2 * s + 1 /\ layer[n] = AbsOf(s)
      BY <2>3 DEF InPhase
    <3>2. p # Bars(t + 1)
      BY <2>1, <2>2, <3>1
    <3>3. where[m] = "begin" /\ p = 2 * t + 1 /\ layer[m] = AbsOf(t)
      BY <3>2 DEF InPhase
    <3>4. s = t
      <4>1. 2 * s + 1 = 2 * t + 1
        BY <3>1, <3>3
      <4> QED BY <1>1, <4>1
    <3> QED BY <2>3, <3>1, <3>3, <3>4
  <2>4. CASE where[n] # "begin"
    <3>1. where[n] = "scatter" /\ p = Bars(s + 1) /\ layer[n] = AbsOf(s + 1)
      BY <2>4 DEF InPhase
    <3>2. p # 2 * t + 1
      BY <2>1, <2>2, <3>1
    <3>3. where[m] = "scatter" /\ p = Bars(t + 1) /\ layer[m] = AbsOf(t + 1)
      BY <3>2 DEF InPhase
    <3>4. s = t
      <4>1. 2 * (s + 1) = 2 * (t + 1)
        BY <2>1, <3>1, <3>3
      <4> QED BY <1>1, <4>1
    <3> QED BY <3>1, <3>3, <3>4
  <2> QED BY <2>3, <2>4
<1> QED BY <1>2, <1>3

LEMMA SlotAgrees ==
  ASSUME conf \in Confs, NEW n \in Node, NEW m \in Node, NEW q \in Nat, NEW p \in Nat,
         Slot(n, q, p), Slot(m, q, p)
  PROVE  where[n] = where[m] /\ currEpoch[n] = currEpoch[m] /\ layer[n] = layer[m]
<1>1. CASE p = 0
  BY <1>1 DEF Slot
<1>2. CASE p # 0
  <2>1. PICK s \in 0..Scatters - 1 : InPhase(n, p, s)
    BY <1>2 DEF Slot
  <2>2. PICK t \in 0..Scatters - 1 : InPhase(m, p, t)
    BY <1>2 DEF Slot
  <2>3. where[n] = where[m] /\ layer[n] = layer[m]
    BY <2>1, <2>2, PhaseAgrees
  <2> QED BY <1>2, <2>3 DEF Slot
<1> QED BY <1>1, <1>2

\* The first barrier is that of the start, and only that.
LEMMA FirstBarrier ==
  ASSUME AlignInv, NEW n \in Node, At(n, "start")
  PROVE  entered[n] = 1 /\ currEpoch[n] = 0 /\ layer[n] = 0
<1>1. stage[n] = "new"
  BY DEF At, AlignInv, Aligned, Running, Blocking
<1>2. Resting(n) /\ currEpoch[n] = 0 /\ entered[n] = 1
  BY <1>1 DEF At, AlignInv, Aligned
<1>3. ~Popped(n)
  BY <1>2 DEF Resting, AllNext, Popped, Scattered
<1> QED BY <1>2, <1>3 DEF Resting, LayerAt

LEMMA LaterBarrier ==
  ASSUME NEW n \in Node, conf \in Confs, NEW q \in Nat, NEW p \in Nat, Slot(n, q, p)
  PROVE  entered[n] # 1
<1>1. q * BarsOfEpoch \in Nat
  <2>1. BarsOfEpoch \in Nat
    BY BarsFacts
  <2> QED BY <2>1
<1>2. entered[n] = 2 + q * BarsOfEpoch + p
  BY DEF Slot
<1> QED BY <1>1, <1>2

LEMMA LaterAgree ==
  ASSUME AlignInv, NEW n \in Node, NEW m \in Node, InBarrier(n), InBarrier(m),
         entered[n] = entered[m]
  PROVE  where[n] = where[m] /\ currEpoch[n] = currEpoch[m] /\ layer[n] = layer[m]
<1>1. conf \in Confs /\ BarsOfEpoch \in Nat
  BY RoundFacts
<1>2. PICK q \in Nat : \E p \in 0..BarsOfEpoch - 1 : Slot(n, q, p)
  BY BarrierSlot
<1>3. PICK p \in 0..BarsOfEpoch - 1 : Slot(n, q, p)
  BY <1>2
<1>4. PICK r \in Nat : \E t \in 0..BarsOfEpoch - 1 : Slot(m, r, t)
  BY BarrierSlot
<1>5. PICK t \in 0..BarsOfEpoch - 1 : Slot(m, r, t)
  BY <1>4
<1>6. p \in Nat /\ t \in Nat
  BY <1>1
<1>7. q * BarsOfEpoch + p = r * BarsOfEpoch + t
  <2>1. q * BarsOfEpoch \in Nat /\ r * BarsOfEpoch \in Nat
    BY <1>1
  <2>2. 2 + q * BarsOfEpoch + p = 2 + r * BarsOfEpoch + t
    BY <1>3, <1>5 DEF Slot
  <2> QED BY <1>6, <2>1, <2>2
<1>8. q = r /\ p = t
  BY <1>1, <1>7, Digits
<1> QED BY <1>1, <1>3, <1>5, <1>6, <1>8, SlotAgrees

LEMMA FirstAgrees ==
  ASSUME AlignInv, NEW n \in Node, InBarrier(n)
  PROVE  entered[n] # 1
<1>1. conf \in Confs /\ BarsOfEpoch \in Nat
  BY RoundFacts
<1>2. PICK q \in Nat : \E p \in 0..BarsOfEpoch - 1 : Slot(n, q, p)
  BY BarrierSlot
<1>3. PICK p \in 0..BarsOfEpoch - 1 : Slot(n, q, p)
  BY <1>2
<1>4. p \in Nat
  BY <1>1
<1> QED BY <1>1, <1>3, <1>4, LaterBarrier

LEMMA AlignImplies == AlignInv => SameBarrier
<1> SUFFICES ASSUME AlignInv, NEW n \in Node, NEW m \in Node,
                    where[n] # "", where[m] # "", entered[n] = entered[m],
                    ~LeavesEarly(n), ~LeavesEarly(m)
             PROVE  where[n] = where[m] /\ currEpoch[n] = currEpoch[m] /\ layer[n] = layer[m]
  BY DEF SameBarrier
<1>1. (At(n, "start") \/ InBarrier(n)) /\ (At(m, "start") \/ InBarrier(m))
  BY DEF AlignInv, AlignTypes, At, InBarrier
<1>2. CASE At(n, "start") /\ At(m, "start")
  BY <1>2, FirstBarrier DEF At
<1>3. CASE At(n, "start") /\ InBarrier(m)
  BY <1>3, FirstBarrier, FirstAgrees
<1>4. CASE InBarrier(n) /\ At(m, "start")
  BY <1>4, FirstBarrier, FirstAgrees
<1>5. CASE InBarrier(n) /\ InBarrier(m)
  BY <1>5, LaterAgree
<1> QED BY <1>1, <1>2, <1>3, <1>4, <1>5

\* The k-th barrier of a server is the k-th barrier of every server, of the same
\* epoch and layer, whatever the graph, the chunks and the number of layers, but for
\* the last barrier of a server that a weight server's DONE has stopped (pipeline.cpp:26).
THEOREM BarriersMatch == Spec => []SameBarrier
<1>1. Init => AlignInv
  BY AlignInit
<1>2. AlignInv /\ [Next]_vars => AlignInv'
  BY AlignNext
<1>3. AlignInv => SameBarrier
  BY AlignImplies
<1> QED BY <1>1, <1>2, <1>3, PTL DEF Spec

-----------------------------------------------------------------------------
(***************************************************************************)
(* Types.  Where a chunk is bounds its layer and epoch (AlignInv); what is *)
(* sent and stored are values of a row that exists.                        *)
(***************************************************************************)
Sane(rows) == IsFiniteSet(rows) /\ \A x \in rows : x[2] \in Value

TodoOK ==
  \A n \in Node, i \in ChunkId : \A b \in todo[n][i] :
    IsFiniteSet(b.vtcs) /\ b.vtcs \subseteq Local(conf.graph, n)

NetOK == \A m \in Node, n \in Node : \A k \in Places(net[m][n], "data") : Sane(net[m][n][k].rows)

HandOK ==
  /\ DOMAIN hand = Node /\ checks \in [Node -> Nat] /\ ghostVtcsRecvd \in [Node -> Nat]
  /\ \A n \in Node : /\ IsFiniteSet(hand[n]) /\ Cardinality(hand[n]) + checks[n] <= Receivers
                     /\ \A msg \in hand[n] : Sane(msg.rows)

DataOK ==
  /\ DOMAIN data = Node
  /\ \A n \in Node :
       /\ DOMAIN data[n] = Tensors(conf.gnn, conf.numLayers)
       /\ \A t \in Tensors(conf.gnn, conf.numLayers) :
            /\ DOMAIN data[n][t] = TensorRows(n, t)
            /\ \A r \in TensorRows(n, t) : data[n][t][r] \in Value

DataInv == TodoOK /\ NetOK /\ HandOK /\ DataOK

\* Receiver threads that have not ended, and TERM messages that were read.
TeamOK ==
  /\ receiving \in [Node -> 0..Receivers] /\ told \in [Node -> Nat]
  /\ \A n \in Node : told[n] <= Len(conf.terms[n])

LEMMA TypesSame ==
  ASSUME conf' = conf
  PROVE  /\ Node' = Node /\ ChunkId' = ChunkId /\ Value' = Value
         /\ \A rows : Sane(rows)' <=> Sane(rows)
         /\ \A n, t : TensorRows(n, t)' = TensorRows(n, t)
         /\ \A n, i : Rows(n, i)' = Rows(n, i)
BY DEF Node, ChunkId, Value, Sane, TensorRows, Rows

LEMMA TodoValues == ASSUME TodoOK, conf' = conf, todo' = todo PROVE TodoOK'
BY TypesSame DEF TodoOK

LEMMA NetValues == ASSUME NetOK, conf' = conf, net' = net PROVE NetOK'
BY TypesSame DEF NetOK

LEMMA HandValues ==
  ASSUME HandOK, conf' = conf, hand' = hand, checks' = checks, ghostVtcsRecvd' = ghostVtcsRecvd
  PROVE  HandOK'
BY TypesSame DEF HandOK

LEMMA DataValues == ASSUME DataOK, conf' = conf, data' = data PROVE DataOK'
BY TypesSame DEF DataOK

LEMMA ValuesKept ==
  ASSUME DataInv, UNCHANGED <<conf, todo, net, hand, checks, ghostVtcsRecvd, data>>
  PROVE  DataInv'
BY TodoValues, NetValues, HandValues, DataValues DEF DataInv

LEMMA DataInit == Init => DataInv
<1> SUFFICES ASSUME Init PROVE DataInv
  OBVIOUS
<1>1. TodoOK
  <2>1. todo = [n \in Node |-> [i \in ChunkId |-> {}]]
    BY DEF Init
  <2> QED BY <2>1 DEF TodoOK
<1>2. NetOK
  <2>1. net = [n \in Node |-> [m \in Node |-> <<>>]]
    BY DEF Init
  <2>2. Places(<<>>, "data") = {}
    BY DEF Places
  <2> QED BY <2>1, <2>2 DEF NetOK
<1>3. HandOK
  <2>1. hand = [n \in Node |-> {}] /\ checks = [n \in Node |-> 0] /\ ghostVtcsRecvd = [n \in Node |-> 0]
    BY DEF Init
  <2>2. IsFiniteSet({}) /\ Cardinality({}) = 0
    BY FS_EmptySet
  <2>3. Receivers \in Nat
    BY ExchangeOK
  <2> QED BY <2>1, <2>2, <2>3 DEF HandOK
<1>4. DataOK
  <2>1. data = [n \in Node |-> [t \in Tensors(conf.gnn, conf.numLayers) |->
                 [r \in TensorRows(n, t) |-> <<0, 0>>]]]
    BY DEF Init
  <2>2. <<0, 0>> \in Value
    BY DEF Value
  <2> QED BY <2>1, <2>2 DEF DataOK
<1> QED BY <1>1, <1>2, <1>3, <1>4 DEF DataInv

\* The rows of a chunk are rows of local vertices.
LEMMA RowsFacts ==
  ASSUME conf \in Confs, NEW n \in Node
  PROVE  /\ \A v \in Local(conf.graph, n) : v \in Vertices(conf.graph)
                                            /\ LocalId(conf.graph, n, v) \in 0..LocalVtxCnt(conf.graph, n) - 1
         /\ \A i \in ChunkId : \A r \in Rows(n, i) :
              /\ r \in 0..LocalVtxCnt(conf.graph, n) - 1
              /\ VertexOf(n, r) \in Local(conf.graph, n)
              /\ LocalId(conf.graph, n, VertexOf(n, r)) = r
<1>1. IsGraph(conf.graph)
  BY ConfFacts
<1>2. {LocalId(conf.graph, n, v) : v \in Local(conf.graph, n)} = 0..LocalVtxCnt(conf.graph, n) - 1
  BY <1>1, EachVertexARow
<1>3. ASSUME NEW i \in ChunkId, NEW r \in Rows(n, i)
      PROVE  /\ r \in 0..LocalVtxCnt(conf.graph, n) - 1
             /\ VertexOf(n, r) \in Local(conf.graph, n)
             /\ LocalId(conf.graph, n, VertexOf(n, r)) = r
  <2>1. r \in 0..LocalVtxCnt(conf.graph, n) - 1
    BY DEF Rows, ChunkRows
  <2>2. \E v \in Local(conf.graph, n) : LocalId(conf.graph, n, v) = r
    BY <1>2, <2>1
  <2> QED BY <2>1, <2>2 DEF VertexOf
<1>4. \A v \in Local(conf.graph, n) : v \in Vertices(conf.graph)
  BY DEF Local
<1> QED BY <1>2, <1>3, <1>4

\* A phase writes values of its epoch.
LEMMA WriteValues ==
  ASSUME DataInv, conf \in Confs, conf' = conf, NEW n \in Node, NEW i \in ChunkId, NEW c, NEW ph,
         c.epoch \in 0..conf.numEpochs, Write(n, i, c, ph)
  PROVE  DataOK'
<1> DEFINE T == Tensors(conf.gnn, conf.numLayers)
           new(t, r) == IF t \notin ph.writes THEN data[n][t][r]
                        ELSE IF r \notin Rows(n, i) THEN data[n][t][r]
                        ELSE <<VertexOf(n, r), IF Accumulated(conf.build, conf.gnn, t) THEN 0 ELSE c.epoch>>
<1>1. /\ DOMAIN data = Node
      /\ \A m \in Node : /\ DOMAIN data[m] = T
                         /\ \A t \in T : /\ DOMAIN data[m][t] = TensorRows(m, t)
                                         /\ \A r \in TensorRows(m, t) : data[m][t][r] \in Value
  BY DEF DataInv, DataOK
<1>2. DOMAIN data' = Node /\ \A m \in Node \ {n} : data'[m] = data[m]
  BY <1>1 DEF Write
<1>3. data'[n] = [t \in T |-> IF t \notin ph.writes THEN data[n][t]
        ELSE [r \in DOMAIN data[n][t] |->
               IF r \notin Rows(n, i) THEN data[n][t][r]
               ELSE <<VertexOf(n, r), IF Accumulated(conf.build, conf.gnn, t) THEN 0 ELSE c.epoch>>]]
  BY <1>1 DEF Write
<1>4. DOMAIN data'[n] = T
  BY <1>3
<1>5. ASSUME NEW t \in T
      PROVE  DOMAIN data'[n][t] = TensorRows(n, t) /\ \A r \in TensorRows(n, t) : data'[n][t][r] \in Value
  <2>1. CASE t \notin ph.writes
    BY <1>1, <1>3, <2>1
  <2>2. CASE t \in ph.writes
    <3>1. data'[n][t] = [r \in TensorRows(n, t) |->
               IF r \notin Rows(n, i) THEN data[n][t][r]
               ELSE <<VertexOf(n, r), IF Accumulated(conf.build, conf.gnn, t) THEN 0 ELSE c.epoch>>]
      BY <1>1, <1>3, <2>2
    <3>2. 0 \in 0..conf.numEpochs
      BY ScatterFacts
    <3>3. \A r \in Rows(n, i) : VertexOf(n, r) \in Vertices(conf.graph)
      BY RowsFacts
    <3>4. \A r \in Rows(n, i) :
            <<VertexOf(n, r), IF Accumulated(conf.build, conf.gnn, t) THEN 0 ELSE c.epoch>> \in Value
      BY <3>2, <3>3 DEF Value
    <3> QED BY <1>1, <3>1, <3>4
  <2> QED BY <2>1, <2>2
<1>6. conf' = conf
  OBVIOUS
<1>7. \A m \in Node : /\ DOMAIN data'[m] = T
                      /\ \A t \in T : /\ DOMAIN data'[m][t] = TensorRows(m, t)
                                      /\ \A r \in TensorRows(m, t) : data'[m][t][r] \in Value
  BY <1>1, <1>2, <1>4, <1>5
<1> QED BY <1>2, <1>6, <1>7, TypesSame DEF DataOK

LEMMA WorkValues ==
  ASSUME DataInv, AlignInv, NEW n \in Node, NEW i \in ChunkId, Work(n, i)
  PROVE  DataInv'
<1>1. /\ UNCHANGED <<conf, todo, net, hand, checks, ghostVtcsRecvd>>
      /\ stage[n] = "running" /\ place[n][i] \in {"AE", "GA", "AV"}
  BY DEF Work, Gather, ApplyVertex, ApplyEdge, run, scheduler, scatterer, counters, receivers, InQueue
<1>2. PICK s \in 0..Scatters : Running(n, s)
  BY <1>1, AlignFacts
<1>3. conf \in Confs /\ chunk[n][i] \in Chunk /\ ChunkAt(n, i, s) /\ currEpoch[n] \in 0..conf.numEpochs
  BY <1>2, AlignFacts DEF Running, AlignInv, AlignTypes
<1>4. PICK c : c = chunk[n][i]
  OBVIOUS
<1>5. c.epoch = currEpoch[n] /\ Between(c, s)
  BY <1>1, <1>3, <1>4 DEF ChunkAt, Scattered
<1>6. Applied(c).epoch = c.epoch
  <2>1. PICK b : b = [c EXCEPT !.vertex = TRUE]
    OBVIOUS
  <2>2. AsVertex(c, b)
    BY <1>3, <1>4, <2>1, VertexChunk
  <2>3. CASE c.dir = "FORWARD"
    BY <2>1, <2>2, <2>3 DEF Applied, AsVertex
  <2>4. CASE c.dir # "FORWARD"
    <3>1. PICK d : d = Inc(b)
      OBVIOUS
    <3>2. d.epoch = c.epoch
      BY <1>3, <1>4, <1>5, <2>2, <2>4, <3>1, BackwardNext
    <3> QED BY <2>1, <2>4, <3>1, <3>2 DEF Applied
  <2> QED BY <2>3, <2>4
<1>7. PICK d, ph : Write(n, i, d, ph) /\ d.epoch = c.epoch
  <2>1. CASE Gather(n, i)
    BY <1>4, <2>1 DEF Gather
  <2>2. CASE ApplyVertex(n, i)
    BY <1>4, <1>6, <2>2 DEF ApplyVertex
  <2>3. CASE ApplyEdge(n, i)
    <3>1. PICK d : d = [c EXCEPT !.vertex = FALSE]
      OBVIOUS
    <3>2. d.epoch = c.epoch
      BY <1>3, <1>4, <3>1 DEF Chunk
    <3> QED BY <1>4, <2>3, <3>1, <3>2 DEF ApplyEdge
  <2> QED BY <2>1, <2>2, <2>3 DEF Work
<1>8. DataOK'
  BY <1>1, <1>3, <1>5, <1>7, WriteValues
<1> QED BY <1>1, <1>8, TodoValues, NetValues, HandValues DEF DataInv

\* What is sent is a vertex tensor of the network.
LEMMA SentFacts ==
  ASSUME conf \in Confs, NEW c, NEW s \in 1..Scatters, Between(c, s)
  PROVE  /\ Sent(conf.gnn, c) \in Tensors(conf.gnn, conf.numLayers)
         /\ ~IsGhost(Sent(conf.gnn, c))
<1>1. /\ conf.gnn \in Gnn /\ conf.numLayers \in Nat /\ conf.numLayers > 0 /\ Turn \in Nat /\ Scatters \in Nat
  BY ScatterFacts
<1>2. PICK l : l = c.layer /\ (l = s \/ l = Scatters + 1 - s) /\ (l = s <=> c.layer = s)
               /\ (s <= Turn => l = s) /\ (~(s <= Turn) => l = Scatters + 1 - s)
  BY DEF Between, LayerOf
<1>3. c.dir = "FORWARD" <=> s <= Turn
  BY DEF Between, DirOf
<1>4. CASE conf.gnn = "GCN"
  <2>1. Scatters = 2 * conf.numLayers - 2 /\ Turn = conf.numLayers - 1
    BY <1>4 DEF Scatters, Turn
  <2>2. s <= Turn => l - 1 \in 0..conf.numLayers - 2 /\ ~(l - 1 < 0)
    BY <1>1, <1>2, <2>1
  <2>3. ~(s <= Turn) => l \in 1..conf.numLayers - 1 /\ ~(l < 0)
    BY <1>1, <1>2, <2>1
  <2>4. CASE s <= Turn
    <3>1. Sent(conf.gnn, c) = <<"h", l - 1>>
      BY <1>2, <1>3, <1>4, <2>4 DEF Sent, SentGCN
    <3>2. <<"h", l - 1>> \in Saved("h", l - 1)
      BY <2>2, <2>4 DEF Saved
    <3>3. <<"h", l - 1>> \in TensorsGCN(conf.numLayers)
      BY <2>2, <2>4, <3>2 DEF TensorsGCN
    <3> QED BY <1>4, <3>1, <3>3 DEF Tensors, IsGhost
  <2>5. CASE ~(s <= Turn)
    <3>1. Sent(conf.gnn, c) = <<"grad", l>>
      BY <1>2, <1>3, <1>4, <2>5 DEF Sent, SentGCN
    <3>2. <<"grad", l>> \in Saved("grad", l)
      BY <2>3, <2>5 DEF Saved
    <3>3. <<"grad", l>> \in TensorsGCN(conf.numLayers)
      BY <2>3, <2>5, <3>2 DEF TensorsGCN
    <3> QED BY <1>4, <3>1, <3>3 DEF Tensors, IsGhost
  <2> QED BY <2>4, <2>5
<1>5. CASE conf.gnn = "GAT"
  <2>1. Scatters = 2 * conf.numLayers /\ Turn = conf.numLayers
    BY <1>5 DEF Scatters, Turn
  <2>2. l - 1 \in 0..conf.numLayers - 1
    BY <1>1, <1>2, <2>1
  <2>3. PICK name \in {"z", "grad"} : Sent(conf.gnn, c) = <<name, l - 1>>
    BY <1>2, <1>5 DEF Sent, SentGAT
  <2>4. <<name, l - 1>> \in TensorsGAT(conf.numLayers)
    BY <2>2 DEF TensorsGAT
  <2> QED BY <1>5, <2>3, <2>4 DEF Tensors, IsGhost, Gnn
<1> QED BY <1>1, <1>4, <1>5 DEF Gnn

\* The boundary vertices of a chunk for a receiver, and the batch each is in.
Boundary(n, i, m, dir) ==
  {v \in GhostMap(conf.graph, n, m, dir) : LocalId(conf.graph, n, v) \in Rows(n, i)}
BatchNo(n, i, m, dir, v) == Cardinality({w \in Boundary(n, i, m, dir) : w < v}) \div BatchSize
BatchOf(n, i, m, dir, v) ==
  [to |-> m, vtcs |-> {u \in Boundary(n, i, m, dir) : BatchNo(n, i, m, dir, u) = BatchNo(n, i, m, dir, v)}]

\* The batches share out the boundary vertices.
LEMMA BatchFacts ==
  ASSUME NEW n, NEW i, NEW c
  PROVE  /\ \A b \in Batches(n, i, c) : b.to \in Node \ {n} /\ b.vtcs \subseteq Boundary(n, i, b.to, c.dir)
         /\ \A m \in Node \ {n} : \A v \in Boundary(n, i, m, c.dir) :
              \E b \in Batches(n, i, c) : b.to = m /\ v \in b.vtcs
         /\ \A b \in Batches(n, i, c), d \in Batches(n, i, c) : \A v :
              b.to = d.to /\ v \in b.vtcs /\ v \in d.vtcs => b = d
<1>1. Batches(n, i, c) = UNION {{BatchOf(n, i, m, c.dir, v) : v \in Boundary(n, i, m, c.dir)} : m \in Node \ {n}}
  BY DEF Batches, BatchOf, BatchNo, Boundary
<1>2. \A b : b \in Batches(n, i, c) <=>
         \E m \in Node \ {n} : \E v \in Boundary(n, i, m, c.dir) : b = BatchOf(n, i, m, c.dir, v)
  BY <1>1
<1>3. \A m, v : /\ BatchOf(n, i, m, c.dir, v).to = m
                /\ \A u : u \in BatchOf(n, i, m, c.dir, v).vtcs <=>
                     u \in Boundary(n, i, m, c.dir) /\ BatchNo(n, i, m, c.dir, u) = BatchNo(n, i, m, c.dir, v)
  BY DEF BatchOf
<1>4. ASSUME NEW b \in Batches(n, i, c), NEW d \in Batches(n, i, c), NEW v,
             b.to = d.to, v \in b.vtcs, v \in d.vtcs
      PROVE  b = d
  <2>1. PICK m, u : m \in Node \ {n} /\ u \in Boundary(n, i, m, c.dir) /\ b = BatchOf(n, i, m, c.dir, u)
    BY <1>2
  <2>2. PICK w : d = BatchOf(n, i, m, c.dir, w)
    BY <1>2, <1>3, <1>4, <2>1
  <2>3. BatchNo(n, i, m, c.dir, u) = BatchNo(n, i, m, c.dir, w)
    BY <1>3, <1>4, <2>1, <2>2
  <2> QED BY <2>1, <2>2, <2>3 DEF BatchOf
<1>5. ASSUME NEW b \in Batches(n, i, c)
      PROVE  b.to \in Node \ {n} /\ b.vtcs \subseteq Boundary(n, i, b.to, c.dir)
  BY <1>2, <1>3
<1>6. ASSUME NEW m \in Node \ {n}, NEW v \in Boundary(n, i, m, c.dir)
      PROVE  \E b \in Batches(n, i, c) : b.to = m /\ v \in b.vtcs
  BY <1>2, <1>3
<1> QED BY <1>4, <1>5, <1>6

LEMMA ScatterPopValues ==
  ASSUME DataInv, AckInv, conf \in Confs, NEW n \in Node, NEW i \in ChunkId, ScatterPop(n, i)
  PROVE  DataInv'
<1>1. UNCHANGED <<conf, net, hand, checks, ghostVtcsRecvd, data>>
  BY DEF ScatterPop, run, counters, receivers
<1>2. PICK c : c = chunk[n][i]
  OBVIOUS
<1>3. todo' = [todo EXCEPT ![n][i] = Batches(n, i, c)]
  BY <1>2 DEF ScatterPop
<1>4. DOMAIN todo = Node /\ \A m \in Node : DOMAIN todo[m] = ChunkId
  BY AckFacts
<1>5. ASSUME NEW b \in Batches(n, i, c)
      PROVE  IsFiniteSet(b.vtcs) /\ b.vtcs \subseteq Local(conf.graph, n)
  <2>1. PICK m : b.vtcs \subseteq GhostMap(conf.graph, n, m, c.dir)
    BY BatchFacts DEF Boundary
  <2>2. GhostMap(conf.graph, n, m, c.dir) \subseteq Local(conf.graph, n)
    <3>1. IsGraph(conf.graph)
      BY ConfFacts
    <3>2. Arcs(conf.graph) \subseteq Vertices(conf.graph) \X Vertices(conf.graph)
      BY <3>1, ArcsOfVertices
    <3>3. ForwardDsts(conf.graph, n, m) \subseteq Local(conf.graph, n)
      BY <3>2 DEF ForwardDsts, Local
    <3>4. BackwardDsts(conf.graph, n, m) \subseteq Local(conf.graph, n)
      BY <3>2 DEF BackwardDsts, Local
    <3> QED BY <3>3, <3>4 DEF GhostMap
  <2>3. IsFiniteSet(Local(conf.graph, n))
    <3>1. IsGraph(conf.graph)
      BY ConfFacts
    <3>2. Local(conf.graph, n) \in SUBSET Vertices(conf.graph)
      BY DEF Local
    <3> QED BY <3>1, <3>2, FS_Subset DEF IsGraph
  <2>4. b.vtcs \subseteq Local(conf.graph, n)
    BY <2>1, <2>2
  <2> QED BY <2>3, <2>4, FS_Subset
<1>6. TodoOK'
  <2>1. todo'[n][i] = Batches(n, i, c)
        /\ \A m \in Node, j \in ChunkId : <<m, j>> # <<n, i>> => todo'[m][j] = todo[m][j]
    BY <1>3, <1>4
  <2>2. \A m \in Node, j \in ChunkId : \A b \in todo'[m][j] :
           IsFiniteSet(b.vtcs) /\ b.vtcs \subseteq Local(conf.graph, m)
    BY <1>5, <2>1 DEF DataInv, TodoOK
  <2> QED BY <1>1, <2>2, TypesSame DEF TodoOK
<1> QED BY <1>1, <1>6, NetValues, HandValues, DataValues DEF DataInv

\* A queue after a message was appended or taken.
LEMMA SaneAppend ==
  ASSUME NEW q, IsQueue(q), NEW m, m.kind = "data" => Sane(m.rows),
         \A k \in Places(q, "data") : Sane(q[k].rows)
  PROVE  \A k \in Places(Append(q, m), "data") : Sane(Append(q, m)[k].rows)
<1>1. /\ Len(q) \in Nat /\ \A k \in 1..Len(q) : Append(q, m)[k] = q[k]
      /\ Append(q, m)[Len(q) + 1] = m
  BY QueueAppend, QueueLen
<1>2. Places(q, "data") \subseteq 1..Len(q)
  BY PlacesFinite
<1>3. Places(Append(q, m), "data")
        = Places(q, "data") \cup (IF m.kind = "data" THEN {Len(q) + 1} ELSE {})
  BY PlacesAppend
<1>4. ASSUME NEW k \in Places(q, "data") PROVE Sane(Append(q, m)[k].rows)
  BY <1>1, <1>2, <1>4
<1>5. m.kind = "data" => Sane(Append(q, m)[Len(q) + 1].rows)
  BY <1>1
<1> QED BY <1>3, <1>4, <1>5

LEMMA SaneTail ==
  ASSUME NEW q, IsQueue(q), q # <<>>,
         \A k \in Places(q, "data") : Sane(q[k].rows)
  PROVE  /\ \A k \in Places(Tail(q), "data") : Sane(Tail(q)[k].rows)
         /\ Head(q).kind = "data" => Sane(Head(q).rows)
<1>1. /\ IsQueue(Tail(q)) /\ Len(q) >= 1 /\ Len(Tail(q)) = Len(q) - 1
      /\ \A i \in 1..Len(q) - 1 : Tail(q)[i] = q[i + 1]
      /\ Head(q) = q[1] /\ Len(q) \in Nat /\ DOMAIN q = 1..Len(q)
  BY QueueTail, QueueLen
<1>2. DOMAIN Tail(q) = 1..Len(q) - 1
  BY <1>1, QueueLen
<1>3. ASSUME NEW k \in Places(Tail(q), "data") PROVE Sane(Tail(q)[k].rows)
  <2>1. k \in 1..Len(q) - 1 /\ Tail(q)[k].kind = "data"
    BY <1>2 DEF Places
  <2>2. k + 1 \in DOMAIN q /\ Tail(q)[k] = q[k + 1]
    BY <1>1, <2>1
  <2>3. k + 1 \in Places(q, "data")
    BY <2>1, <2>2 DEF Places
  <2> QED BY <2>2, <2>3
<1>4. ASSUME Head(q).kind = "data" PROVE Sane(Head(q).rows)
  <2>1. 1 \in DOMAIN q /\ Head(q) = q[1]
    BY <1>1
  <2>2. 1 \in Places(q, "data")
    BY <1>4, <2>1 DEF Places
  <2> QED BY <2>1, <2>2
<1> QED BY <1>3, <1>4

\* verticesPushOut sends the saved values of its vertices.
LEMMA PushValues ==
  ASSUME DataInv, AckInv, AlignInv, NEW n \in Node, NEW i \in ChunkId, VerticesPushOut(n, i)
  PROVE  DataInv'
<1>1. /\ UNCHANGED <<conf, hand, checks, ghostVtcsRecvd, data>>
      /\ InQueue(n, i, "send") /\ todo[n][i] # {}
  BY DEF VerticesPushOut, run, scatterer, counters, receivers
<1>2. PICK c : c = chunk[n][i]
  OBVIOUS
<1>3. PICK b : b = CHOOSE x \in todo[n][i] : TRUE
  OBVIOUS
<1>4. b \in todo[n][i]
  BY <1>1, <1>3
<1>5. /\ DOMAIN todo = Node /\ \A m \in Node : DOMAIN todo[m] = ChunkId
      /\ Wired(net, Node) /\ b.to \in Node /\ conf \in Confs
  BY <1>1, <1>4 DEF AckInv, AckTypes, InQueue
<1> DEFINE t == Sent(conf.gnn, c)
           value(v) == data[n][t][LocalId(conf.graph, n, v)]
           R == {<<v, value(v)>> : v \in b.vtcs}
<1>6. todo' = [todo EXCEPT ![n][i] = @ \ {b}]
      /\ \E m : m.kind = "data" /\ m.rows = R /\ net' = [net EXCEPT ![n][b.to] = Append(@, m)]
  <2>1. PICK m : m = [kind |-> "data", tensor |-> Stored(conf.gnn, c), dir |-> c.dir, from |-> n, rows |-> R]
    OBVIOUS
  <2>2. net' = [net EXCEPT ![n][b.to] = Append(@, m)]
    BY <1>2, <1>3, <2>1 DEF VerticesPushOut
  <2>3. m.kind = "data" /\ m.rows = R
    BY <2>1
  <2> QED BY <1>3, <2>2, <2>3 DEF VerticesPushOut
<1>7. IsFiniteSet(b.vtcs) /\ b.vtcs \subseteq Local(conf.graph, n)
  BY <1>4 DEF DataInv, TodoOK
<1>8. t \in Tensors(conf.gnn, conf.numLayers) /\ ~IsGhost(t)
  <2>1. PICK s \in 0..Scatters : Running(n, s)
    BY <1>1, AlignFacts DEF InQueue
  <2>2. ChunkAt(n, i, s) /\ place[n][i] = "send"
    BY <1>1, <2>1 DEF Running, InQueue
  <2>3. s < Scatters /\ Between(c, s + 1)
    BY <1>2, <2>2 DEF ChunkAt, Scattered
  <2>4. s + 1 \in 1..Scatters
    BY <1>5, <2>3, ScatterFacts
  <2> QED BY <1>5, <2>3, <2>4, SentFacts
<1>9. Sane(R)
  <2>1. \A v \in b.vtcs : LocalId(conf.graph, n, v) \in TensorRows(n, t)
    BY <1>5, <1>7, <1>8, RowsFacts DEF TensorRows
  <2>2. \A v \in b.vtcs : value(v) \in Value
    BY <1>8, <2>1 DEF DataInv, DataOK
  <2>3. IsFiniteSet(R)
    <3> DEFINE f == [v \in b.vtcs |-> <<v, value(v)>>]
    <3>1. f \in [b.vtcs -> R] /\ \A x \in R : \E v \in b.vtcs : f[v] = x
      OBVIOUS
    <3> HIDE DEF R, f
    <3>2. f \in Surjection(b.vtcs, R)
      BY <3>1 DEF Surjection
    <3> QED BY <1>7, <3>2, FS_Surjection
  <2> QED BY <2>2, <2>3 DEF Sane
<1> HIDE DEF R
<1>10. TodoOK'
  <2>1. todo'[n][i] = todo[n][i] \ {b}
        /\ \A m \in Node, j \in ChunkId : <<m, j>> # <<n, i>> => todo'[m][j] = todo[m][j]
    BY <1>5, <1>6
  <2>2. \A m \in Node, j \in ChunkId : \A x \in todo'[m][j] :
           IsFiniteSet(x.vtcs) /\ x.vtcs \subseteq Local(conf.graph, m)
    BY <2>1 DEF DataInv, TodoOK
  <2> QED BY <1>1, <2>2, TypesSame DEF TodoOK
<1>11. NetOK'
  <2>1. PICK m : m.kind = "data" /\ m.rows = R /\ net' = [net EXCEPT ![n][b.to] = Append(@, m)]
    BY <1>6
  <2>2. /\ net'[n][b.to] = Append(net[n][b.to], m)
        /\ \A k \in Node, l \in Node : <<k, l>> # <<n, b.to>> => net'[k][l] = net[k][l]
    BY <1>5, <2>1 DEF Wired
  <2>3. \A k \in Places(net'[n][b.to], "data") : Sane(net'[n][b.to][k].rows)
    BY <1>5, <1>9, <2>1, <2>2, SaneAppend DEF Wired, DataInv, NetOK
  <2>4. ASSUME NEW k \in Node, NEW l \in Node
        PROVE  \A x \in Places(net'[k][l], "data") : Sane(net'[k][l][x].rows)
    <3>1. CASE k = n /\ l = b.to
      BY <2>3, <3>1
    <3>2. CASE ~(k = n /\ l = b.to)
      <4>1. net'[k][l] = net[k][l]
        BY <2>2, <3>2
      <4> QED BY <4>1 DEF DataInv, NetOK
    <3> QED BY <3>1, <3>2
  <2> QED BY <1>1, <2>4, TypesSame DEF NetOK
<1> QED BY <1>1, <1>10, <1>11, HandValues, DataValues DEF DataInv

\* The receivers.
LEMMA RecvValuesTypes ==
  ASSUME DataInv, AckInv, TeamOK, NEW n \in Node, NEW m \in Node \ {n}, RecvValues(n, m)
  PROVE  DataInv'
<1>1. /\ UNCHANGED <<conf, todo, checks, ghostVtcsRecvd, data>>
      /\ FreeReceiver(n) /\ net[m][n] # <<>> /\ Head(net[m][n]).kind = "data"
      /\ hand' = [hand EXCEPT ![n] = @ \cup {Head(net[m][n])}]
  BY DEF RecvValues, queues, run, scheduler, scatterer, counters
<1>2. PICK a : a.kind = "ack" /\ net' = [net EXCEPT ![m][n] = Tail(@), ![n][m] = Append(@, a)]
  <2>1. PICK a : a = [kind |-> "ack"]
    OBVIOUS
  <2>2. net' = [net EXCEPT ![m][n] = Tail(@), ![n][m] = Append(@, a)]
    BY <2>1 DEF RecvValues
  <2>3. a.kind = "ack"
    BY <2>1
  <2> QED BY <2>2, <2>3
<1>3. Wired(net, Node)
  BY AckFacts
<1>4. /\ net'[m][n] = Tail(net[m][n]) /\ net'[n][m] = Append(net[n][m], a)
      /\ \A k \in Node, l \in Node : <<k, l>> # <<m, n>> /\ <<k, l>> # <<n, m>> => net'[k][l] = net[k][l]
  BY <1>2, <1>3 DEF Wired
<1>5. /\ \A k \in Places(net'[m][n], "data") : Sane(net'[m][n][k].rows)
      /\ Sane(Head(net[m][n]).rows)
  BY <1>1, <1>3, <1>4, SaneTail DEF Wired, DataInv, NetOK
<1>6. \A k \in Places(net'[n][m], "data") : Sane(net'[n][m][k].rows)
  <2>1. a.kind = "data" => Sane(a.rows)
    BY <1>2
  <2>2. IsQueue(net[n][m]) /\ \A k \in Places(net[n][m], "data") : Sane(net[n][m][k].rows)
    BY <1>3 DEF Wired, DataInv, NetOK
  <2>3. \A k \in Places(Append(net[n][m], a), "data") : Sane(Append(net[n][m], a)[k].rows)
    BY <2>1, <2>2, SaneAppend
  <2> QED BY <1>4, <2>3
<1>7. NetOK'
  <2>1. ASSUME NEW k \in Node, NEW l \in Node
        PROVE  \A x \in Places(net'[k][l], "data") : Sane(net'[k][l][x].rows)
    <3>1. CASE (k = m /\ l = n) \/ (k = n /\ l = m)
      BY <1>5, <1>6, <3>1
    <3>2. CASE ~((k = m /\ l = n) \/ (k = n /\ l = m))
      <4>1. net'[k][l] = net[k][l]
        BY <1>4, <3>2
      <4> QED BY <4>1 DEF DataInv, NetOK
    <3> QED BY <3>1, <3>2
  <2> QED BY <1>1, <2>1, TypesSame DEF NetOK
<1>8. HandOK'
  <2>1. DOMAIN hand = Node /\ IsFiniteSet(hand[n]) /\ checks[n] \in Nat /\ Receivers \in Nat
    BY ExchangeOK DEF DataInv, HandOK
  <2>2. hand'[n] = hand[n] \cup {Head(net[m][n])} /\ \A k \in Node \ {n} : hand'[k] = hand[k]
    BY <1>1, <2>1
  <2>3. IsFiniteSet(hand'[n]) /\ Cardinality(hand'[n]) <= Cardinality(hand[n]) + 1
        /\ Cardinality(hand[n]) \in Nat /\ Cardinality(hand'[n]) \in Nat
    <3>1. CASE Head(net[m][n]) \in hand[n]
      <4>1. hand'[n] = hand[n]
        BY <2>2, <3>1
      <4> QED BY <2>1, <4>1, FS_CardinalityType
    <3>2. CASE Head(net[m][n]) \notin hand[n]
      <4>1. IsFiniteSet(hand'[n]) /\ Cardinality(hand'[n]) = Cardinality(hand[n]) + 1
        <5>1. PICK x : x = Head(net[m][n])
          OBVIOUS
        <5>2. hand'[n] = hand[n] \cup {x} /\ x \notin hand[n] /\ IsFiniteSet(hand[n])
          BY <2>1, <2>2, <3>2, <5>1
        <5> QED BY <5>2, FS_AddElement
      <4>2. Cardinality(hand[n]) \in Nat
        BY <2>1, FS_CardinalityType
      <4> QED BY <4>1, <4>2
    <3> QED BY <3>1, <3>2
  <2>4. Cardinality(hand'[n]) + checks[n] <= Receivers
    <3>1. /\ Cardinality(hand[n]) + checks[n] < receiving[n]
          /\ receiving[n] \in Int /\ receiving[n] <= Receivers
      BY <1>1, <2>1 DEF FreeReceiver, TeamOK
    <3> QED BY <2>1, <2>3, <3>1
  <2>5. \A msg \in hand'[n] : Sane(msg.rows)
    BY <1>5, <2>2 DEF DataInv, HandOK
  <2>6. DOMAIN hand' = Node /\ checks' \in [Node -> Nat] /\ ghostVtcsRecvd' \in [Node -> Nat]
    BY <1>1, <2>1 DEF DataInv, HandOK
  <2>7. \A k \in Node : /\ IsFiniteSet(hand'[k]) /\ Cardinality(hand'[k]) + checks'[k] <= Receivers
                        /\ \A msg \in hand'[k] : Sane(msg.rows)
    BY <1>1, <2>2, <2>3, <2>4, <2>5 DEF DataInv, HandOK
  <2> QED BY <1>1, <2>6, <2>7, TypesSame DEF HandOK
<1> QED BY <1>1, <1>7, <1>8, TodoValues, DataValues DEF DataInv

LEMMA RecvAckTypes ==
  ASSUME DataInv, AckInv, TeamOK, NEW n \in Node, NEW m \in Node \ {n}, RecvAck(n, m)
  PROVE  DataInv'
<1>1. /\ UNCHANGED <<conf, todo, hand, ghostVtcsRecvd, data>>
      /\ FreeReceiver(n) /\ net[m][n] # <<>>
      /\ net' = [net EXCEPT ![m][n] = Tail(@)] /\ checks' = [checks EXCEPT ![n] = @ + 1]
  BY DEF RecvAck, queues, run, scheduler, scatterer
<1>2. Wired(net, Node)
  BY AckFacts
<1>3. /\ net'[m][n] = Tail(net[m][n])
      /\ \A k \in Node, l \in Node : <<k, l>> # <<m, n>> => net'[k][l] = net[k][l]
  BY <1>1, <1>2 DEF Wired
<1>4. \A k \in Places(net'[m][n], "data") : Sane(net'[m][n][k].rows)
  BY <1>1, <1>2, <1>3, SaneTail DEF Wired, DataInv, NetOK
<1>5. NetOK'
  <2>1. ASSUME NEW k \in Node, NEW l \in Node
        PROVE  \A x \in Places(net'[k][l], "data") : Sane(net'[k][l][x].rows)
    <3>1. CASE k = m /\ l = n
      BY <1>4, <3>1
    <3>2. CASE ~(k = m /\ l = n)
      <4>1. net'[k][l] = net[k][l]
        BY <1>3, <3>2
      <4> QED BY <4>1 DEF DataInv, NetOK
    <3> QED BY <3>1, <3>2
  <2> QED BY <1>1, <2>1, TypesSame DEF NetOK
<1>6. HandOK'
  <2>1. checks \in [Node -> Nat] /\ Receivers \in Nat /\ Cardinality(hand[n]) \in Nat
    BY ExchangeOK, FS_CardinalityType DEF DataInv, HandOK
  <2>2. Cardinality(hand[n]) + checks[n] < Receivers
    <3>1. /\ Cardinality(hand[n]) + checks[n] < receiving[n]
          /\ receiving[n] \in Int /\ receiving[n] <= Receivers
      BY <1>1, <2>1 DEF FreeReceiver, TeamOK
    <3> QED BY <2>1, <3>1
  <2>3. checks' \in [Node -> Nat] /\ \A k \in Node : checks'[k] = IF k = n THEN checks[n] + 1 ELSE checks[k]
    BY <1>1, <2>1
  <2>4. \A k \in Node : Cardinality(hand[k]) + checks'[k] <= Receivers
    <3>1. Cardinality(hand[n]) + checks'[n] <= Receivers
      BY <2>1, <2>2, <2>3
    <3> QED BY <2>3, <3>1 DEF DataInv, HandOK
  <2> QED BY <1>1, <2>3, <2>4, TypesSame DEF DataInv, HandOK
<1> QED BY <1>1, <1>5, <1>6, TodoValues, DataValues DEF DataInv

LEMMA CheckTypes ==
  ASSUME DataInv, NEW n \in Node, Check(n)
  PROVE  DataInv'
<1>1. /\ UNCHANGED <<conf, todo, net, hand, ghostVtcsRecvd, data>>
      /\ checks[n] > 0 /\ checks' = [checks EXCEPT ![n] = @ - 1]
  BY DEF Check, queues, counters
<1>2. HandOK'
  <2>1. checks \in [Node -> Nat] /\ Receivers \in Nat /\ Cardinality(hand[n]) \in Nat
    BY ExchangeOK, FS_CardinalityType DEF DataInv, HandOK
  <2>2. checks' \in [Node -> Nat] /\ \A k \in Node : checks'[k] = IF k = n THEN checks[n] - 1 ELSE checks[k]
    BY <1>1, <2>1
  <2>3. \A k \in Node : Cardinality(hand[k]) + checks'[k] <= Receivers
    <3>1. Cardinality(hand[n]) + checks[n] <= Receivers
      BY DEF DataInv, HandOK
    <3>2. Cardinality(hand[n]) + checks'[n] <= Receivers
      BY <2>1, <2>2, <3>1
    <3> QED BY <2>2, <3>2 DEF DataInv, HandOK
  <2> QED BY <1>1, <2>2, <2>3, TypesSame DEF DataInv, HandOK
<1> QED BY <1>1, <1>2, TodoValues, NetValues, DataValues DEF DataInv

\* What a message has for a row.
RowsFor(n, msg, r) == {x \in msg.rows : GhostRow(conf.graph, n, msg.dir, x[1]) = r}

LEMMA StoreFacts ==
  ASSUME NEW n \in Node, StoreValues(n)
  PROVE  \E msg \in hand[n] :
           /\ hand' = [hand EXCEPT ![n] = @ \ {msg}]
           /\ data' = [data EXCEPT ![n][msg.tensor] =
                [r \in DOMAIN @ |-> IF RowsFor(n, msg, r) = {} THEN @[r]
                                    ELSE (CHOOSE x \in RowsFor(n, msg, r) : TRUE)[2]]]
           /\ ghostVtcsRecvd' = [ghostVtcsRecvd EXCEPT ![n] = @ + Cardinality(msg.rows)]
BY DEF StoreValues, RowsFor

\* A receiver stores the values of a message it holds.
LEMMA StoreTypes ==
  ASSUME DataInv, conf \in Confs, NEW n \in Node, StoreValues(n)
  PROVE  DataInv'
<1>1. UNCHANGED <<conf, todo, net>> /\ checks' = [checks EXCEPT ![n] = @ + 1]
  BY DEF StoreValues, queues
<1>2. PICK msg \in hand[n] :
        /\ hand' = [hand EXCEPT ![n] = @ \ {msg}]
        /\ data' = [data EXCEPT ![n][msg.tensor] =
             [r \in DOMAIN @ |-> IF RowsFor(n, msg, r) = {} THEN @[r]
                                 ELSE (CHOOSE x \in RowsFor(n, msg, r) : TRUE)[2]]]
        /\ ghostVtcsRecvd' = [ghostVtcsRecvd EXCEPT ![n] = @ + Cardinality(msg.rows)]
  BY StoreFacts
<1>3. Sane(msg.rows)
  BY DEF DataInv, HandOK
<1>4. HandOK'
  <2>1. /\ DOMAIN hand = Node /\ IsFiniteSet(hand[n]) /\ checks \in [Node -> Nat]
        /\ ghostVtcsRecvd \in [Node -> Nat] /\ Receivers \in Nat
        /\ Cardinality(hand[n]) + checks[n] <= Receivers
        /\ \A k \in hand[n] : Sane(k.rows)
    BY ExchangeOK DEF DataInv, HandOK
  <2>2. hand'[n] = hand[n] \ {msg} /\ (\A k \in Node \ {n} : hand'[k] = hand[k]) /\ DOMAIN hand' = Node
    BY <1>2, <2>1
  <2>3. IsFiniteSet(hand'[n]) /\ Cardinality(hand'[n]) = Cardinality(hand[n]) - 1
        /\ Cardinality(hand[n]) \in Nat
    BY <2>1, <2>2, FS_RemoveElement, FS_CardinalityType
  <2>4. checks' \in [Node -> Nat] /\ \A k \in Node : checks'[k] = IF k = n THEN checks[n] + 1 ELSE checks[k]
    BY <1>1, <2>1
  <2>5. Cardinality(hand'[n]) + checks'[n] <= Receivers
    BY <2>1, <2>3, <2>4
  <2>6. ghostVtcsRecvd' \in [Node -> Nat]
    <3>1. Cardinality(msg.rows) \in Nat
      BY <1>3, FS_CardinalityType DEF Sane
    <3> QED BY <1>2, <2>1, <3>1
  <2>7. \A k \in hand'[n] : Sane(k.rows)
    BY <2>1, <2>2
  <2>8. \A k \in Node : /\ IsFiniteSet(hand'[k]) /\ Cardinality(hand'[k]) + checks'[k] <= Receivers
                        /\ \A x \in hand'[k] : Sane(x.rows)
    <3>1. ASSUME NEW k \in Node \ {n}
          PROVE  /\ IsFiniteSet(hand'[k]) /\ Cardinality(hand'[k]) + checks'[k] <= Receivers
                 /\ \A x \in hand'[k] : Sane(x.rows)
      <4>1. hand'[k] = hand[k] /\ checks'[k] = checks[k]
        BY <2>2, <2>4
      <4> QED BY <4>1 DEF DataInv, HandOK
    <3> QED BY <2>3, <2>5, <2>7, <3>1
  <2> QED BY <1>1, <2>2, <2>4, <2>6, <2>8, TypesSame DEF HandOK
<1>5. DataOK'
  <2> DEFINE T == Tensors(conf.gnn, conf.numLayers)
  <2>1. /\ DOMAIN data = Node
        /\ \A m \in Node : /\ DOMAIN data[m] = T
                           /\ \A t \in T : /\ DOMAIN data[m][t] = TensorRows(m, t)
                                           /\ \A r \in TensorRows(m, t) : data[m][t][r] \in Value
    BY DEF DataInv, DataOK
  <2>2. DOMAIN data' = Node /\ (\A m \in Node \ {n} : data'[m] = data[m]) /\ DOMAIN data'[n] = T
        /\ \A t \in T \ {msg.tensor} : data'[n][t] = data[n][t]
    BY <1>2, <2>1
  <2>3. ASSUME NEW t \in T, t = msg.tensor
        PROVE  DOMAIN data'[n][t] = TensorRows(n, t) /\ \A r \in TensorRows(n, t) : data'[n][t][r] \in Value
    <3>0. DOMAIN data[n][t] = TensorRows(n, t)
      BY <2>1
    <3>1. data'[n][t] = [r \in DOMAIN data[n][t] |-> IF RowsFor(n, msg, r) = {} THEN data[n][t][r]
                                 ELSE (CHOOSE x \in RowsFor(n, msg, r) : TRUE)[2]]
      <4>1. PICK f : f = [r \in DOMAIN data[n][msg.tensor] |->
                            IF RowsFor(n, msg, r) = {} THEN data[n][msg.tensor][r]
                            ELSE (CHOOSE x \in RowsFor(n, msg, r) : TRUE)[2]]
        OBVIOUS
      <4>2. data' = [data EXCEPT ![n][msg.tensor] = f]
        BY <1>2, <4>1
      <4>3. data'[n][t] = f
        BY <2>1, <2>3, <4>2
      <4> QED BY <2>3, <4>1, <4>3
    <3>2. ASSUME NEW r \in TensorRows(n, t), RowsFor(n, msg, r) # {}
          PROVE  (CHOOSE x \in RowsFor(n, msg, r) : TRUE)[2] \in Value
      <4>1. (CHOOSE x \in RowsFor(n, msg, r) : TRUE) \in msg.rows
        BY <3>2 DEF RowsFor
      <4> QED BY <1>3, <4>1 DEF Sane
    <3>3. DOMAIN data'[n][t] = TensorRows(n, t)
      BY <3>0, <3>1
    <3>4. ASSUME NEW r \in TensorRows(n, t) PROVE data'[n][t][r] \in Value
      <4>1. data'[n][t][r] = IF RowsFor(n, msg, r) = {} THEN data[n][t][r]
                             ELSE (CHOOSE x \in RowsFor(n, msg, r) : TRUE)[2]
        BY <3>0, <3>1
      <4> QED BY <2>1, <3>2, <4>1
    <3> QED BY <3>3, <3>4
  <2>4. \A m \in Node : /\ DOMAIN data'[m] = T
                        /\ \A t \in T : /\ DOMAIN data'[m][t] = TensorRows(m, t)
                                        /\ \A r \in TensorRows(m, t) : data'[m][t][r] \in Value
    <3>1. ASSUME NEW m \in Node, NEW t \in T
          PROVE  DOMAIN data'[m][t] = TensorRows(m, t) /\ \A r \in TensorRows(m, t) : data'[m][t][r] \in Value
      <4>1. CASE m = n /\ t = msg.tensor
        BY <2>3, <4>1
      <4>2. CASE ~(m = n /\ t = msg.tensor)
        <5>1. data'[m][t] = data[m][t]
          BY <2>2, <4>2
        <5> QED BY <2>1, <5>1
      <4> QED BY <4>1, <4>2
    <3>2. \A m \in Node : DOMAIN data'[m] = T
      BY <2>1, <2>2
    <3> QED BY <3>1, <3>2
  <2> QED BY <1>1, <2>2, <2>4, TypesSame DEF DataOK
<1> QED BY <1>1, <1>4, <1>5, TodoValues, NetValues DEF DataInv

LEMMA ScatterTypes ==
  ASSUME DataInv, AckInv, AlignInv, NEW n \in Node, Scatter(n)
  PROVE  DataInv'
<1>0. conf \in Confs
  BY AckFacts
<1>1. CASE ScatterWait(n) \/ ScatterLeave(n) \/ BeginBarrier(n) \/ BeginScatter(n)
  <2>1. UNCHANGED <<conf, todo, net, hand, checks, ghostVtcsRecvd, data>>
    BY <1>1 DEF ScatterWait, ScatterLeave, BeginBarrier, BeginScatter, queues, counters, receivers
  <2> QED BY <2>1, ValuesKept
<1>2. CASE ScatterReset(n)
  <2>1. UNCHANGED <<conf, todo, net, hand, checks, data>> /\ ghostVtcsRecvd' = [ghostVtcsRecvd EXCEPT ![n] = 0]
    BY <1>2 DEF ScatterReset, receivers
  <2>2. ghostVtcsRecvd' \in [Node -> Nat]
    BY <2>1 DEF DataInv, HandOK
  <2>3. HandOK'
    BY <2>1, <2>2, TypesSame DEF DataInv, HandOK
  <2> QED BY <2>1, <2>3, TodoValues, NetValues, DataValues DEF DataInv
<1>3. ASSUME NEW i \in ChunkId, Count(n, i) \/ ScatterStash(n, i)
      PROVE  DataInv'
  <2>1. UNCHANGED <<conf, todo, net, hand, checks, ghostVtcsRecvd, data>>
    BY <1>3 DEF Count, ScatterStash, counters, receivers
  <2> QED BY <2>1, ValuesKept
<1> QED BY <1>0, <1>1, <1>2, <1>3, ScatterPopValues, PushValues DEF Scatter

LEMMA DataNext == DataInv /\ AckInv /\ AlignInv /\ TeamOK /\ [Next]_vars => DataInv'
<1> SUFFICES ASSUME DataInv, AckInv, AlignInv, TeamOK, [Next]_vars PROVE DataInv'
  OBVIOUS
<1>0. conf \in Confs
  BY AckFacts
<1>1. CASE UNCHANGED kept
  BY <1>1, ValuesKept DEF kept, queues, counters
<1>2. ASSUME NEW n \in Node, Main(n)
      PROVE  DataInv'
  <2>1. UNCHANGED <<conf, todo, net, hand, checks, ghostVtcsRecvd, data>>
    BY <1>2 DEF Main, StartBarrier, LoadChunks, EndBarrier, Done, queues, counters, receivers
  <2> QED BY <2>1, ValuesKept
<1>3. ASSUME NEW n \in Node, Schedule(n)
      PROVE  DataInv'
  <2>1. UNCHANGED <<conf, todo, net, hand, checks, ghostVtcsRecvd, data>>
    BY <1>3 DEF Schedule, SchedHalt, SchedBarrier, SchedUnblock, SchedStart, SchedPass,
                queues, counters, receivers
  <2> QED BY <2>1, ValuesKept
<1>4. ASSUME NEW n \in Node, Receive(n)
      PROVE  DataInv'
  BY <1>0, <1>4, RecvValuesTypes, RecvAckTypes, CheckTypes, StoreTypes DEF Receive
<1> QED BY <1>1, <1>2, <1>3, <1>4, ScatterTypes, WorkValues, Steps

\* A receiver thread ends or a TERM message is read.
LEMMA TeamSteps ==
  ASSUME [Next]_vars
  PROVE  UNCHANGED <<receiving, told>> \/ \E n \in Node : ReceiverEnds(n) \/ RecvTerm(n)
<1>1. CASE UNCHANGED vars
  BY <1>1 DEF vars, receivers
<1>2. ASSUME NEW n \in Node, Main(n) \/ Schedule(n)
      PROVE  UNCHANGED <<receiving, told>>
  BY <1>2 DEF Main, StartBarrier, LoadChunks, EndBarrier, Done, Schedule, SchedHalt, SchedBarrier,
              SchedUnblock, SchedStart, SchedPass, receivers
<1>3. ASSUME NEW n \in Node, Scatter(n)
      PROVE  UNCHANGED <<receiving, told>>
  BY <1>3 DEF Scatter, ScatterWait, ScatterLeave, ScatterReset, BeginBarrier, BeginScatter,
              ScatterPop, VerticesPushOut, Count, ScatterStash, receivers
<1>4. ASSUME NEW n \in Node, Receive(n)
      PROVE  UNCHANGED <<receiving, told>>
  BY <1>4 DEF Receive, RecvValues, RecvAck, StoreValues, Check
<1>5. ASSUME NEW n \in Node, NEW i \in ChunkId, Work(n, i)
      PROVE  UNCHANGED <<receiving, told>>
  BY <1>5 DEF Work, Gather, ApplyVertex, ApplyEdge, receivers
<1>6. CASE Stopped
  BY <1>1, <1>6 DEF Stopped
<1> QED BY <1>1, <1>2, <1>3, <1>4, <1>5, <1>6 DEF Next

LEMMA TeamNext == DataInv /\ AckInv /\ TeamOK /\ [Next]_vars => TeamOK'
<1> SUFFICES ASSUME DataInv, AckInv, TeamOK, [Next]_vars PROVE TeamOK'
  OBVIOUS
<1>0. conf' = conf /\ Node' = Node /\ Receivers \in Nat
  BY ConfKept, ConfSame, ExchangeOK
<1>1. CASE UNCHANGED <<receiving, told>>
  BY <1>0, <1>1 DEF TeamOK
<1>2. ASSUME NEW n \in Node, ReceiverEnds(n)
      PROVE  TeamOK'
  <2>1. /\ FreeReceiver(n) /\ told' = told
        /\ receiving' = [receiving EXCEPT ![n] = @ - 1]
    BY <1>2 DEF ReceiverEnds
  <2>2. Cardinality(hand[n]) \in Nat /\ checks[n] \in Nat
    BY FS_CardinalityType DEF DataInv, HandOK
  <2>3. receiving \in [Node -> 0..Receivers] /\ receiving[n] \in 0..Receivers
    BY DEF TeamOK
  <2>4. receiving[n] - 1 \in 0..Receivers
    BY <1>0, <2>1, <2>2, <2>3 DEF FreeReceiver
  <2> QED BY <1>0, <2>1, <2>3, <2>4 DEF TeamOK
<1>3. ASSUME NEW n \in Node, RecvTerm(n)
      PROVE  TeamOK'
  <2>1. /\ told[n] < Len(conf.terms[n]) /\ receiving' = receiving
        /\ told' = [told EXCEPT ![n] = @ + 1]
    BY <1>3 DEF RecvTerm
  <2>2. told \in [Node -> Nat] /\ conf \in Confs
    BY AckFacts DEF TeamOK
  <2>3. Len(conf.terms[n]) \in Nat
    <3>1. conf.terms \in [Servers(conf.graph) -> Seq({"CLOSE", "DONE"})]
      BY <2>2, ExchangeOK
    <3>2. conf.terms[n] \in Seq({"CLOSE", "DONE"})
      BY <3>1 DEF Node
    <3> QED BY <3>2
  <2>4. told' \in [Node -> Nat] /\ \A m \in Node : told'[m] = IF m = n THEN told[n] + 1 ELSE told[m]
    BY <2>1, <2>2
  <2>5. \A m \in Node : told'[m] <= Len(conf.terms[m])
    <3>1. told'[n] <= Len(conf.terms[n])
      BY <2>1, <2>2, <2>3, <2>4
    <3> QED BY <2>4, <3>1 DEF TeamOK
  <2> QED BY <1>0, <2>1, <2>4, <2>5 DEF TeamOK
<1> QED BY <1>1, <1>2, <1>3, TeamSteps

LEMMA TeamInit == Init => TeamOK
<1> SUFFICES ASSUME Init PROVE TeamOK
  OBVIOUS
<1>1. conf \in Confs /\ receiving = [n \in Node |-> Receivers] /\ told = [n \in Node |-> 0]
  BY DEF Init
<1>2. Receivers \in 0..Receivers
  BY ExchangeOK
<1>3. \A n \in Node : 0 <= Len(conf.terms[n])
  <2>1. ASSUME NEW n \in Node PROVE 0 <= Len(conf.terms[n])
    <3>1. conf.terms \in [Servers(conf.graph) -> Seq({"CLOSE", "DONE"})]
      BY <1>1, ExchangeOK
    <3>2. conf.terms[n] \in Seq({"CLOSE", "DONE"})
      BY <3>1 DEF Node
    <3> QED BY <3>2
  <2> QED BY <2>1
<1> QED BY <1>1, <1>2, <1>3 DEF TeamOK

\* A chunk's layer has its tensors, and a scatter phase's number is one of the run.
LEMMA LayerBounds ==
  ASSUME conf \in Confs, NEW s \in 0..Scatters
  PROVE  /\ LayerOf(s) <= Turn \/ s = 0
         /\ s < Scatters => LayerOf(s + 1) <= Turn
         /\ AbsOf(s) \in 0..2 * conf.numLayers
         /\ s < Scatters => AbsOf(s + 1) \in 0..2 * conf.numLayers
<1>1. /\ conf.gnn \in Gnn /\ conf.numLayers \in Nat /\ conf.numLayers > 0 /\ Turn \in Nat
      /\ Scatters \in Nat /\ Turn < Scatters
  BY ScatterFacts
<1>2. /\ conf.gnn = "GCN" => Scatters = 2 * conf.numLayers - 2 /\ Turn = conf.numLayers - 1
      /\ conf.gnn = "GAT" => Scatters = 2 * conf.numLayers /\ Turn = conf.numLayers
  BY <1>1 DEF Scatters, Turn, Gnn
<1>3. \/ Scatters = 2 * conf.numLayers - 2 /\ Turn = conf.numLayers - 1
      \/ Scatters = 2 * conf.numLayers /\ Turn = conf.numLayers
  BY <1>1, <1>2 DEF Gnn
<1> QED BY <1>1, <1>3 DEF LayerOf, AbsOf

LEMMA DataImplies == DataInv /\ AckInv /\ AlignInv /\ TeamOK => TypeOK
<1> SUFFICES ASSUME DataInv, AckInv, AlignInv, TeamOK PROVE TypeOK
  OBVIOUS
<1>1. /\ conf \in Confs
      /\ chunk \in [Node -> [ChunkId -> Chunk]] /\ place \in [Node -> [ChunkId -> Place]]
      /\ stage \in [Node -> {"new", "running", "halt", "done"}]
      /\ where \in [Node -> Site] /\ entered \in [Node -> Nat]
      /\ currEpoch \in [Node -> 0..conf.numEpochs] /\ schBlock \in [Node -> BOOLEAN]
      /\ scatter \in [Node -> {"run", "wait", "woken", "barrier", "reset"}]
      /\ scBlock \in [Node -> BOOLEAN]
      /\ layer \in [Node -> Int] /\ currDir \in [Node -> PropType]
  BY DEF AlignInv, AlignTypes
<1>2. recvCnt \in [Node -> Int] /\ ghostVtcsRecvd \in [Node -> Nat]
  BY DEF AckInv, AckTypes, DataInv, HandOK
<1>3. checks \in [Node -> 0..Receivers]
  <2>1. Receivers \in Nat /\ checks \in [Node -> Nat]
    BY ExchangeOK DEF DataInv, HandOK
  <2>2. \A n \in Node : checks[n] <= Receivers
    <3>1. ASSUME NEW n \in Node PROVE checks[n] <= Receivers
      <4>1. Cardinality(hand[n]) \in Nat /\ Cardinality(hand[n]) + checks[n] <= Receivers
        BY FS_CardinalityType DEF DataInv, HandOK
      <4> QED BY <2>1, <4>1
    <3> QED BY <3>1
  <2> QED BY <2>1, <2>2
<1>4. \A n \in Node, t \in Tensors(conf.gnn, conf.numLayers) :
         \A r \in TensorRows(n, t) : data[n][t][r] \in Value
  BY DEF DataInv, DataOK
<1>5. \A n \in Node : \E s \in 0..Scatters : /\ \A i \in ChunkId : ChunkAt(n, i, s)
                                             /\ layer[n] = LayerAt(n, s) /\ (Popped(n) => s < Scatters)
  <2>1. ASSUME NEW n \in Node
        PROVE  \E s \in 0..Scatters : /\ \A i \in ChunkId : ChunkAt(n, i, s)
                                      /\ layer[n] = LayerAt(n, s) /\ (Popped(n) => s < Scatters)
    <3>1. Aligned(n) /\ Scatters \in Nat
      BY <1>1, ScatterFacts DEF AlignInv
    <3>2. PICK s \in 0..Scatters : (\A i \in ChunkId : ChunkAt(n, i, s)) /\ layer[n] = LayerAt(n, s)
      <4>1. Resting(n) \/ \E s \in 0..Scatters : Running(n, s)
        BY <1>1, <3>1 DEF Aligned
      <4>2. Scatters \in 0..Scatters
        BY <3>1
      <4> QED BY <4>1, <4>2 DEF Resting, Running
    <3>3. Popped(n) => s < Scatters
      BY <3>2 DEF Popped, ChunkAt, Scattered
    <3> QED BY <3>2, <3>3
  <2> QED BY <2>1
<1>6. \A n \in Node : layer[n] \in 0..2 * conf.numLayers
  <2>1. ASSUME NEW n \in Node PROVE layer[n] \in 0..2 * conf.numLayers
    <3>1. PICK s \in 0..Scatters : layer[n] = LayerAt(n, s) /\ (Popped(n) => s < Scatters)
      BY <1>5
    <3>2. 0 \in 0..2 * conf.numLayers
      BY <1>1, ScatterFacts
    <3>3. /\ AbsOf(s) \in 0..2 * conf.numLayers
          /\ s < Scatters => AbsOf(s + 1) \in 0..2 * conf.numLayers
      BY <1>1, LayerBounds
    <3> QED BY <3>1, <3>2, <3>3 DEF LayerAt
  <2> QED BY <2>1
<1>7. layer \in [Node -> 0..2 * conf.numLayers]
  BY <1>1, <1>6
<1>8. \A n \in Node, i \in ChunkId :
        chunk[n][i].layer <= (IF conf.gnn = "GCN" THEN conf.numLayers - 1 ELSE conf.numLayers)
  <2>1. ASSUME NEW n \in Node, NEW i \in ChunkId PROVE chunk[n][i].layer <= Turn
    <3>1. PICK s \in 0..Scatters : ChunkAt(n, i, s)
      BY <1>5
    <3>2. Turn \in Nat /\ Turn >= 0
      BY <1>1, ScatterFacts
    <3>3. LayerOf(s) <= Turn \/ s = 0
      BY <1>1, LayerBounds
    <3>4. s < Scatters => LayerOf(s + 1) <= Turn
      BY <1>1, LayerBounds
    <3>5. LayerOf(0) = 0
      BY <3>2 DEF LayerOf
    <3>6. LayerOf(s) <= Turn
      BY <3>2, <3>3, <3>5
    <3>7. \/ chunk[n][i].layer = 0 \/ chunk[n][i].layer = LayerOf(s)
          \/ (s < Scatters /\ chunk[n][i].layer = LayerOf(s + 1))
      BY <3>1 DEF ChunkAt, Between, Scattered
    <3> QED BY <3>2, <3>4, <3>6, <3>7
  <2> QED BY <2>1 DEF Turn
<1> QED BY <1>1, <1>2, <1>3, <1>4, <1>7, <1>8 DEF TypeOK, TeamOK

\* Every variable keeps its type: no chunk reaches a layer without tensors, no more
\* receivers are busy than there are, and every row of a saved tensor is some vertex's,
\* computed in an epoch of the run (scatterWorkFunc, verticesPushOut, ghostReceiverGCN).
THEOREM TypeCorrect == Spec => []TypeOK
<1>1. Init => DataInv /\ AckInv /\ AlignInv /\ TeamOK
  BY DataInit, AckInit, AlignInit, TeamInit
<1>2. /\ DataInv /\ AckInv /\ AlignInv /\ TeamOK /\ [Next]_vars => DataInv'
      /\ DataInv /\ AckInv /\ AlignInv /\ TeamOK /\ [Next]_vars => AckInv'
      /\ DataInv /\ AckInv /\ AlignInv /\ TeamOK /\ [Next]_vars => AlignInv'
      /\ DataInv /\ AckInv /\ AlignInv /\ TeamOK /\ [Next]_vars => TeamOK'
  BY DataNext, AckNext, AlignNext, TeamNext
<1>3. DataInv /\ AckInv /\ AlignInv /\ TeamOK => TypeOK
  BY DataImplies
<1> QED BY <1>1, <1>2, <1>3, PTL DEF Spec

-----------------------------------------------------------------------------
(***************************************************************************)
(* The order of an epoch.  Each phase has a place in the epoch, and so has *)
(* the first moment at which a saved tensor holds values of the epoch      *)
(* (Due): after scatter phase s follow the edges at 3 * s, the gather at   *)
(* 3 * s + 1 and the vertices at 3 * s + 2.  A phase reads what is due     *)
(* before it and writes all that is due until the next one (Fits).         *)
(***************************************************************************)
Exempt(t) == Accumulated(conf.build, conf.gnn, t) \/ NeverWritten(conf.build, conf.gnn, t)

DueGCN(name, l) ==
  IF name = "ah" THEN 3 * l + 1
  ELSE IF name = "z" \/ name = "h" THEN 3 * l + 2
  ELSE IF name = "aTg" THEN 3 * (Scatters - l) + 1 ELSE 3 * (Scatters - l) + 2
DueGAT(name, l) ==
  IF name = "z" THEN 3 * l + 2
  ELSE IF name = "A" THEN 3
  ELSE IF name = "az" THEN 3 * (l + 1)
  ELSE IF name = "ah" THEN 3 * (l + 1) + 1
  ELSE IF name = "grad" THEN 3 * (Scatters - 1 - l) + 2
  ELSE IF name = "dA" THEN 3 * (Scatters - l) ELSE 3 * (Scatters - l) + 1
Due(t) == IF conf.gnn = "GCN" THEN DueGCN(t[1], t[2]) ELSE DueGAT(t[1], t[2])

Saves(t) == t \in Tensors(conf.gnn, conf.numLayers) /\ ~IsGhost(t)
Owns(t, p) == Saves(t) /\ (Exempt(t) \/ Due(t) < p)
DueIn(p, q) == {t \in Tensors(conf.gnn, conf.numLayers) :
                  ~IsGhost(t) /\ ~Exempt(t) /\ p <= Due(t) /\ Due(t) < q}

Fits(ph, p, q) ==
  /\ \A t \in ph.own : Owns(t, p)
  /\ \A t \in ph.writes : ~IsGhost(t)
  /\ DueIn(p, q) \subseteq ph.writes

LEMMA DueGCNIs ==
  ASSUME conf.gnn = "GCN", NEW l
  PROVE  /\ Due(<<"ah", l>>) = 3 * l + 1 /\ Due(<<"z", l>>) = 3 * l + 2 /\ Due(<<"h", l>>) = 3 * l + 2
         /\ Due(<<"aTg", l>>) = 3 * (Scatters - l) + 1 /\ Due(<<"grad", l>>) = 3 * (Scatters - l) + 2
  BY DEF Due, DueGCN

LEMMA DueGATIs ==
  ASSUME conf.gnn = "GAT", NEW l
  PROVE  /\ Due(<<"z", l>>) = 3 * l + 2 /\ Due(<<"A", l>>) = 3 /\ Due(<<"az", l>>) = 3 * (l + 1)
         /\ Due(<<"ah", l>>) = 3 * (l + 1) + 1 /\ Due(<<"grad", l>>) = 3 * (Scatters - 1 - l) + 2
         /\ Due(<<"dA", l>>) = 3 * (Scatters - l) /\ Due(<<"aTg", l>>) = 3 * (Scatters - l) + 1
  BY DEF Due, DueGAT

LEMMA SavedIs ==
  \A name, l : /\ l \in Int /\ l >= 0 => Saved(name, l) = {<<name, l>>}
               /\ l \in Int /\ l < 0 => Saved(name, l) = {}
  BY DEF Saved

\* The saved tensors of a network, by name.
LEMMA SavesGCN ==
  ASSUME conf \in Confs, conf.gnn = "GCN"
  PROVE  /\ \A l \in 0..conf.numLayers - 1 : Saves(<<"ah", l>>)
         /\ \A l \in 0..conf.numLayers - 2 : Saves(<<"z", l>>) /\ Saves(<<"h", l>>) /\ Saves(<<"aTg", l>>)
         /\ \A l \in 1..conf.numLayers - 1 : Saves(<<"grad", l>>)
         /\ \A t : Saves(t) => \/ \E l \in 0..conf.numLayers - 1 : t = <<"ah", l>>
                               \/ \E l \in 0..conf.numLayers - 2 : t = <<"z", l>> \/ t = <<"h", l>> \/ t = <<"aTg", l>>
                               \/ \E l \in 1..conf.numLayers - 1 : t = <<"grad", l>>
<1>1. PICK L \in Nat : L = conf.numLayers
  BY ScatterFacts
<1>2. Tensors(conf.gnn, conf.numLayers) = TensorsGCN(L)
  BY <1>1 DEF Tensors
<1>3. \A l \in 0..L - 1 : <<"ah", l>> \in TensorsGCN(L)
  BY SavedIs DEF TensorsGCN
<1>4. \A l \in 0..L - 2 : <<"z", l>> \in TensorsGCN(L) /\ <<"h", l>> \in TensorsGCN(L)
  BY SavedIs DEF TensorsGCN
<1>5. ASSUME NEW l \in 0..L - 2 PROVE <<"aTg", l>> \in TensorsGCN(L)
  <2>1. PICK k \in 1..L - 1 : l = k - 1
    <3>1. l + 1 \in 1..L - 1 /\ l = l + 1 - 1
      OBVIOUS
    <3> QED BY <3>1
  <2>2. <<"aTg", l>> \in Saved("aTg", k - 1)
    BY <2>1, SavedIs
  <2> QED BY <2>2 DEF TensorsGCN
<1>6. \A l \in 1..L - 1 : <<"grad", l>> \in TensorsGCN(L)
  BY SavedIs DEF TensorsGCN
<1>7. ASSUME NEW t \in TensorsGCN(L), ~IsGhost(t)
      PROVE  \/ \E l \in 0..L - 1 : t = <<"ah", l>>
             \/ \E l \in 0..L - 2 : t = <<"z", l>> \/ t = <<"h", l>> \/ t = <<"aTg", l>>
             \/ \E l \in 1..L - 1 : t = <<"grad", l>>
  <2>1. CASE \E l \in 0..L - 1 : t \in Saved("ah", l)
    BY <2>1, SavedIs
  <2>2. CASE \E l \in 0..L - 2 : t \in Saved("z", l) \/ t \in Saved("h", l)
    BY <2>2, SavedIs
  <2>3. CASE \E l \in 0..L - 2 : t \in Saved("fg", l + 1)
    BY <1>7, <2>3, SavedIs DEF IsGhost
  <2>4. CASE \E l \in 1..L - 1 : t \in Saved("grad", l)
    BY <2>4, SavedIs
  <2>5. CASE \E l \in 1..L - 1 : t \in Saved("bg", l - 1)
    BY <1>7, <2>5, SavedIs DEF IsGhost
  <2>6. CASE \E l \in 1..L - 1 : t \in Saved("aTg", l - 1)
    <3>1. PICK l \in 1..L - 1 : t \in Saved("aTg", l - 1)
      BY <2>6
    <3>2. l - 1 \in 0..L - 2
      OBVIOUS
    <3>3. t = <<"aTg", l - 1>>
      BY <3>1, <3>2, SavedIs
    <3> QED BY <3>2, <3>3
  <2> QED BY <1>7, <2>1, <2>2, <2>3, <2>4, <2>5, <2>6 DEF TensorsGCN
<1>8. \A l : /\ ~IsGhost(<<"ah", l>>) /\ ~IsGhost(<<"z", l>>) /\ ~IsGhost(<<"h", l>>)
             /\ ~IsGhost(<<"aTg", l>>) /\ ~IsGhost(<<"grad", l>>)
  BY DEF IsGhost
<1> QED BY <1>1, <1>2, <1>3, <1>4, <1>5, <1>6, <1>7, <1>8 DEF Saves

LEMMA SavesGAT ==
  ASSUME conf \in Confs, conf.gnn = "GAT"
  PROVE  /\ Saves(<<"A", 0>>)
         /\ \A l \in 1..conf.numLayers - 1 : Saves(<<"h", l>>)
         /\ \A l \in 0..conf.numLayers - 1 : \A name \in {"z", "az", "ah", "grad", "dA", "aTg"} : Saves(<<name, l>>)
         /\ \A t : Saves(t) => \/ t = <<"A", 0>> \/ \E l \in 1..conf.numLayers - 1 : t = <<"h", l>>
                               \/ \E l \in 0..conf.numLayers - 1 :
                                    \/ t = <<"z", l>> \/ t = <<"az", l>> \/ t = <<"ah", l>>
                                    \/ t = <<"grad", l>> \/ t = <<"dA", l>> \/ t = <<"aTg", l>>
<1>1. PICK L \in Nat : L = conf.numLayers
  BY ScatterFacts
<1>2. Tensors(conf.gnn, conf.numLayers) = TensorsGAT(L)
  BY <1>1 DEF Tensors
<1>3. <<"A", 0>> \in TensorsGAT(L) /\ ~IsGhost(<<"A", 0>>)
  BY SavedIs DEF TensorsGAT, IsGhost
<1>4. \A l \in 1..L - 1 : <<"h", l>> \in TensorsGAT(L) /\ ~IsGhost(<<"h", l>>)
  BY SavedIs DEF TensorsGAT, IsGhost
<1>5. ASSUME NEW l \in 0..L - 1, NEW name \in {"z", "az", "ah", "grad", "dA", "aTg"}
      PROVE <<name, l>> \in TensorsGAT(L) /\ ~IsGhost(<<name, l>>)
  BY DEF TensorsGAT, IsGhost
<1>6. ASSUME NEW t \in TensorsGAT(L), ~IsGhost(t)
      PROVE  \/ t = <<"A", 0>> \/ \E l \in 1..L - 1 : t = <<"h", l>>
             \/ \E l \in 0..L - 1 :
                  \/ t = <<"z", l>> \/ t = <<"az", l>> \/ t = <<"ah", l>>
                  \/ t = <<"grad", l>> \/ t = <<"dA", l>> \/ t = <<"aTg", l>>
  <2>1. CASE t \in Saved("A", 0)
    BY <2>1, SavedIs
  <2>2. CASE \E l \in 1..L - 1 : t \in Saved("h", l)
    BY <2>2, SavedIs
  <2>3. CASE t \in {"z", "az", "fg_z", "ah", "grad", "dA", "aTg", "bg_d"} \X (0..L - 1)
    <3>1. PICK name \in {"z", "az", "fg_z", "ah", "grad", "dA", "aTg", "bg_d"}, l \in 0..L - 1 : t = <<name, l>>
      BY <2>3
    <3>2. name # "fg_z" /\ name # "bg_d"
      BY <1>6, <3>1 DEF IsGhost
    <3> QED BY <3>1, <3>2
  <2> QED BY <1>6, <2>1, <2>2, <2>3 DEF TensorsGAT
<1>7. \A t : Saves(t) <=> t \in TensorsGAT(L) /\ ~IsGhost(t)
  BY <1>2 DEF Saves
<1>8. \A l \in 0..L - 1 : \A name \in {"z", "az", "ah", "grad", "dA", "aTg"} : Saves(<<name, l>>)
  BY <1>5, <1>7
<1>9. Saves(<<"A", 0>>) /\ \A l \in 1..L - 1 : Saves(<<"h", l>>)
  BY <1>3, <1>4, <1>7
<1>10. \A t : Saves(t) => \/ t = <<"A", 0>> \/ \E l \in 1..L - 1 : t = <<"h", l>>
                          \/ \E l \in 0..L - 1 :
                               \/ t = <<"z", l>> \/ t = <<"az", l>> \/ t = <<"ah", l>>
                               \/ t = <<"grad", l>> \/ t = <<"dA", l>> \/ t = <<"aTg", l>>
  BY <1>6, <1>7
<1> QED BY <1>1, <1>8, <1>9, <1>10

\* An epoch has a scatter phase per layer and direction, but for the last layer of GCN.
LEMMA EpochShape ==
  ASSUME conf \in Confs
  PROVE  /\ conf.gnn \in Gnn /\ conf.numLayers \in Nat /\ conf.numLayers > 0 /\ Scatters \in Nat /\ Turn \in Nat
         /\ conf.gnn = "GCN" => Scatters = 2 * conf.numLayers - 2 /\ Turn = conf.numLayers - 1
         /\ conf.gnn = "GAT" => Scatters = 2 * conf.numLayers /\ Turn = conf.numLayers
  BY ScatterFacts DEF Scatters, Turn

\* What is due is due at some time.
LEMMA DueInt ==
  ASSUME conf \in Confs, NEW t, Saves(t), ~Exempt(t)
  PROVE  Due(t) \in Int
<1>1. PICK L \in Nat : L = conf.numLayers
  BY EpochShape
<1>2. conf.gnn \in Gnn /\ Scatters \in Nat
  BY EpochShape
<1>3. PICK S \in Nat : S = Scatters
  BY <1>2
<1>4. ASSUME NEW l \in Int
      PROVE  /\ 3 * l + 1 \in Int /\ 3 * l + 2 \in Int /\ 3 * (l + 1) \in Int /\ 3 * (l + 1) + 1 \in Int
             /\ 3 * (S - l) \in Int /\ 3 * (S - l) + 1 \in Int /\ 3 * (S - l) + 2 \in Int
             /\ 3 * (S - 1 - l) + 2 \in Int
  OBVIOUS
<1>5. CASE conf.gnn = "GCN"
  <2>1. ASSUME NEW l \in Int
        PROVE  /\ Due(<<"ah", l>>) \in Int /\ Due(<<"z", l>>) \in Int /\ Due(<<"h", l>>) \in Int
               /\ Due(<<"aTg", l>>) \in Int /\ Due(<<"grad", l>>) \in Int
    <3>1. /\ Due(<<"ah", l>>) = 3 * l + 1 /\ Due(<<"z", l>>) = 3 * l + 2 /\ Due(<<"h", l>>) = 3 * l + 2
          /\ Due(<<"aTg", l>>) = 3 * (Scatters - l) + 1 /\ Due(<<"grad", l>>) = 3 * (Scatters - l) + 2
      BY <1>5, DueGCNIs
    <3> QED BY <1>3, <1>4, <3>1
  <2>2. \E l \in Int : t = <<"ah", l>> \/ t = <<"z", l>> \/ t = <<"h", l>> \/ t = <<"aTg", l>> \/ t = <<"grad", l>>
    BY <1>1, <1>5, SavesGCN
  <2> QED BY <2>1, <2>2
<1>6. CASE conf.gnn = "GAT"
  <2>1. ASSUME NEW l \in Int
        PROVE  /\ Due(<<"z", l>>) \in Int /\ Due(<<"az", l>>) \in Int
               /\ Due(<<"ah", l>>) \in Int /\ Due(<<"grad", l>>) \in Int
               /\ Due(<<"dA", l>>) \in Int /\ Due(<<"aTg", l>>) \in Int
    <3>1. /\ Due(<<"z", l>>) = 3 * l + 2 /\ Due(<<"az", l>>) = 3 * (l + 1)
          /\ Due(<<"ah", l>>) = 3 * (l + 1) + 1 /\ Due(<<"grad", l>>) = 3 * (Scatters - 1 - l) + 2
          /\ Due(<<"dA", l>>) = 3 * (Scatters - l) /\ Due(<<"aTg", l>>) = 3 * (Scatters - l) + 1
      BY <1>6, DueGATIs
    <3> QED BY <1>3, <1>4, <3>1
  <2>2. Due(<<"A", 0>>) \in Int
    <3>1. Due(<<"A", 0>>) = 3
      BY <1>6, DueGATIs
    <3> QED BY <3>1
  <2>3. \A l : t # <<"h", l>>
    BY <1>6 DEF Exempt, NeverWritten
  <2>4. \/ t = <<"A", 0>>
        \/ \E l \in Int : \/ t = <<"z", l>> \/ t = <<"az", l>> \/ t = <<"ah", l>>
                          \/ t = <<"grad", l>> \/ t = <<"dA", l>> \/ t = <<"aTg", l>>
    BY <1>1, <1>6, <2>3, SavesGAT
  <2>5. CASE t = <<"A", 0>>
    BY <2>2, <2>5
  <2>6. ASSUME NEW l \in Int, \/ t = <<"z", l>> \/ t = <<"az", l>> \/ t = <<"ah", l>>
                              \/ t = <<"grad", l>> \/ t = <<"dA", l>> \/ t = <<"aTg", l>>
        PROVE Due(t) \in Int
    BY <2>1, <2>6
  <2> QED BY <2>4, <2>5, <2>6
<1> QED BY <1>2, <1>5, <1>6 DEF Gnn

\* What is due after scatter phase s.
LEMMA TableGCN ==
  ASSUME conf \in Confs, conf.gnn = "GCN", NEW s \in 0..Scatters
  PROVE  /\ DueIn(3 * s, 3 * s + 1) = {}
         /\ DueIn(3 * s + 1, 3 * s + 2) \subseteq (IF s <= Turn THEN {<<"ah", s>>} ELSE {<<"aTg", Scatters - s>>})
         /\ DueIn(3 * s + 2, 3 * (s + 1)) \subseteq (IF s < Turn THEN {<<"z", s>>, <<"h", s>>}
                                                 ELSE IF s < Scatters THEN {<<"grad", Scatters - s>>} ELSE {})
<1>1. PICK L \in Nat : L = conf.numLayers /\ L > 0 /\ Scatters = 2 * L - 2 /\ Turn = L - 1
  BY EpochShape
<1>2. ASSUME NEW t, Saves(t), 3 * s <= Due(t), Due(t) < 3 * (s + 1)
      PROVE  \/ t = <<"ah", s>> /\ s <= Turn /\ Due(t) = 3 * s + 1
             \/ (t = <<"z", s>> \/ t = <<"h", s>>) /\ s < Turn /\ Due(t) = 3 * s + 2
             \/ t = <<"aTg", Scatters - s>> /\ ~(s <= Turn) /\ Due(t) = 3 * s + 1
             \/ t = <<"grad", Scatters - s>> /\ ~(s < Turn) /\ s < Scatters /\ Due(t) = 3 * s + 2
  <2>1. ASSUME NEW l \in 0..L - 1, t = <<"ah", l>>
        PROVE  t = <<"ah", s>> /\ s <= Turn /\ Due(t) = 3 * s + 1
    <3>1. Due(t) = 3 * l + 1
      BY <2>1, DueGCNIs
    <3>2. l = s
      BY <1>2, <3>1
    <3> QED BY <1>1, <2>1, <3>1, <3>2
  <2>2. ASSUME NEW l \in 0..L - 2, t = <<"z", l>> \/ t = <<"h", l>>
        PROVE  (t = <<"z", s>> \/ t = <<"h", s>>) /\ s < Turn /\ Due(t) = 3 * s + 2
    <3>1. Due(t) = 3 * l + 2
      BY <2>2, DueGCNIs
    <3>2. l = s
      BY <1>2, <3>1
    <3> QED BY <1>1, <2>2, <3>1, <3>2
  <2>3. ASSUME NEW l \in 0..L - 2, t = <<"aTg", l>>
        PROVE  t = <<"aTg", Scatters - s>> /\ ~(s <= Turn) /\ Due(t) = 3 * s + 1
    <3>1. Due(t) = 3 * (Scatters - l) + 1
      BY <2>3, DueGCNIs
    <3>2. l = Scatters - s /\ ~(s <= Turn) /\ 3 * (Scatters - l) + 1 = 3 * s + 1
      BY <1>1, <1>2, <3>1
    <3> QED BY <2>3, <3>1, <3>2
  <2>4. ASSUME NEW l \in 1..L - 1, t = <<"grad", l>>
        PROVE  t = <<"grad", Scatters - s>> /\ ~(s < Turn) /\ s < Scatters /\ Due(t) = 3 * s + 2
    <3>1. Due(t) = 3 * (Scatters - l) + 2
      BY <2>4, DueGCNIs
    <3>2. l = Scatters - s /\ ~(s < Turn) /\ s < Scatters /\ 3 * (Scatters - l) + 2 = 3 * s + 2
      BY <1>1, <1>2, <3>1
    <3> QED BY <2>4, <3>1, <3>2
  <2> QED BY <1>1, <1>2, <2>1, <2>2, <2>3, <2>4, SavesGCN
<1>3. \A p, q : \A t \in DueIn(p, q) : Saves(t) /\ Due(t) \in Int /\ p <= Due(t) /\ Due(t) < q
  BY DueInt DEF DueIn, Saves
<1>4. \A t \in DueIn(3 * s, 3 * s + 1) : FALSE
  BY <1>2, <1>3
<1>5. \A t \in DueIn(3 * s + 1, 3 * s + 2) : IF s <= Turn THEN t = <<"ah", s>> ELSE t = <<"aTg", Scatters - s>>
  BY <1>2, <1>3
<1>6. \A t \in DueIn(3 * s + 2, 3 * (s + 1)) :
        IF s < Turn THEN t = <<"z", s>> \/ t = <<"h", s>>
        ELSE s < Scatters /\ t = <<"grad", Scatters - s>>
  BY <1>2, <1>3
<1> QED BY <1>4, <1>5, <1>6

LEMMA TableGAT ==
  ASSUME conf \in Confs, conf.gnn = "GAT", NEW s \in 0..Scatters
  PROVE  /\ DueIn(3 * s, 3 * s + 1) \subseteq (IF s = 0 THEN {} ELSE IF s <= Turn THEN {<<"A", 0>>, <<"az", s - 1>>}
                                               ELSE {<<"dA", Scatters - s>>})
         /\ DueIn(3 * s + 1, 3 * s + 2) \subseteq (IF s = 0 THEN {} ELSE IF s <= Turn THEN {<<"ah", s - 1>>}
                                                   ELSE {<<"aTg", Scatters - s>>})
         /\ DueIn(3 * s + 2, 3 * (s + 1)) \subseteq (IF s < Turn THEN {<<"z", s>>}
                                                 ELSE IF s < Scatters THEN {<<"grad", Scatters - 1 - s>>} ELSE {})
<1>1. PICK L \in Nat : L = conf.numLayers /\ L > 0 /\ Scatters = 2 * L /\ Turn = L
  BY EpochShape
<1>2. ASSUME NEW t, Saves(t), ~Exempt(t), 3 * s <= Due(t), Due(t) < 3 * (s + 1)
      PROVE  \/ t = <<"z", s>> /\ s < Turn /\ Due(t) = 3 * s + 2
             \/ t = <<"A", 0>> /\ s # 0 /\ s <= Turn /\ Due(t) = 3 * s
             \/ t = <<"az", s - 1>> /\ s # 0 /\ s <= Turn /\ Due(t) = 3 * s
             \/ t = <<"ah", s - 1>> /\ s # 0 /\ s <= Turn /\ Due(t) = 3 * s + 1
             \/ t = <<"grad", Scatters - 1 - s>> /\ ~(s < Turn) /\ s < Scatters /\ Due(t) = 3 * s + 2
             \/ t = <<"dA", Scatters - s>> /\ s # 0 /\ ~(s <= Turn) /\ Due(t) = 3 * s
             \/ t = <<"aTg", Scatters - s>> /\ s # 0 /\ ~(s <= Turn) /\ Due(t) = 3 * s + 1
  <2>1. ASSUME NEW l \in 0..L - 1, t = <<"z", l>>
        PROVE  t = <<"z", s>> /\ s < Turn /\ Due(t) = 3 * s + 2
    <3>1. Due(t) = 3 * l + 2
      BY <2>1, DueGATIs
    <3>2. l = s
      BY <1>2, <3>1
    <3> QED BY <1>1, <2>1, <3>1, <3>2
  <2>2. ASSUME t = <<"A", 0>>
        PROVE  s # 0 /\ s <= Turn /\ Due(t) = 3 * s
    <3>1. Due(t) = 3
      BY <2>2, DueGATIs
    <3> QED BY <1>1, <1>2, <3>1
  <2>3. ASSUME NEW l \in 0..L - 1, t = <<"az", l>>
        PROVE  t = <<"az", s - 1>> /\ s # 0 /\ s <= Turn /\ Due(t) = 3 * s
    <3>1. Due(t) = 3 * (l + 1)
      BY <2>3, DueGATIs
    <3>2. l = s - 1 /\ s # 0 /\ s <= Turn /\ 3 * (l + 1) = 3 * s
      BY <1>1, <1>2, <3>1
    <3> QED BY <2>3, <3>1, <3>2
  <2>4. ASSUME NEW l \in 0..L - 1, t = <<"ah", l>>
        PROVE  t = <<"ah", s - 1>> /\ s # 0 /\ s <= Turn /\ Due(t) = 3 * s + 1
    <3>1. Due(t) = 3 * (l + 1) + 1
      BY <2>4, DueGATIs
    <3>2. l = s - 1 /\ s # 0 /\ s <= Turn /\ 3 * (l + 1) + 1 = 3 * s + 1
      BY <1>1, <1>2, <3>1
    <3> QED BY <2>4, <3>1, <3>2
  <2>5. ASSUME NEW l \in 0..L - 1, t = <<"grad", l>>
        PROVE  t = <<"grad", Scatters - 1 - s>> /\ ~(s < Turn) /\ s < Scatters /\ Due(t) = 3 * s + 2
    <3>1. Due(t) = 3 * (Scatters - 1 - l) + 2
      BY <2>5, DueGATIs
    <3>2. l = Scatters - 1 - s
      BY <1>1, <1>2, <3>1
    <3>3. ~(s < Turn) /\ s < Scatters /\ 3 * (Scatters - 1 - l) + 2 = 3 * s + 2
      BY <1>1, <3>2
    <3> QED BY <2>5, <3>1, <3>2, <3>3
  <2>6. ASSUME NEW l \in 0..L - 1, t = <<"dA", l>>
        PROVE  t = <<"dA", Scatters - s>> /\ s # 0 /\ ~(s <= Turn) /\ Due(t) = 3 * s
    <3>1. Due(t) = 3 * (Scatters - l)
      BY <2>6, DueGATIs
    <3>2. l = Scatters - s /\ s # 0 /\ ~(s <= Turn) /\ 3 * (Scatters - l) = 3 * s
      BY <1>1, <1>2, <3>1
    <3> QED BY <2>6, <3>1, <3>2
  <2>7. ASSUME NEW l \in 0..L - 1, t = <<"aTg", l>>
        PROVE  t = <<"aTg", Scatters - s>> /\ s # 0 /\ ~(s <= Turn) /\ Due(t) = 3 * s + 1
    <3>1. Due(t) = 3 * (Scatters - l) + 1
      BY <2>7, DueGATIs
    <3>2. l = Scatters - s /\ s # 0 /\ ~(s <= Turn) /\ 3 * (Scatters - l) + 1 = 3 * s + 1
      BY <1>1, <1>2, <3>1
    <3> QED BY <2>7, <3>1, <3>2
  <2>8. \A l : t # <<"h", l>>
    BY <1>2 DEF Exempt, NeverWritten
  <2> QED BY <1>1, <1>2, <2>1, <2>2, <2>3, <2>4, <2>5, <2>6, <2>7, <2>8, SavesGAT
<1>3. \A p, q : \A t \in DueIn(p, q) : Saves(t) /\ ~Exempt(t) /\ Due(t) \in Int /\ p <= Due(t) /\ Due(t) < q
  BY DueInt DEF DueIn, Saves
<1>4. \A t \in DueIn(3 * s, 3 * s + 1) :
        s # 0 /\ IF s <= Turn THEN t = <<"A", 0>> \/ t = <<"az", s - 1>> ELSE t = <<"dA", Scatters - s>>
  BY <1>2, <1>3
<1>5. \A t \in DueIn(3 * s + 1, 3 * s + 2) :
        s # 0 /\ IF s <= Turn THEN t = <<"ah", s - 1>> ELSE t = <<"aTg", Scatters - s>>
  BY <1>2, <1>3
<1>6. \A t \in DueIn(3 * s + 2, 3 * (s + 1)) :
        IF s < Turn THEN t = <<"z", s>> ELSE s < Scatters /\ t = <<"grad", Scatters - 1 - s>>
  BY <1>2, <1>3
<1> QED BY <1>4, <1>5, <1>6

\* The parts of a phase.
LEMMA PhaseFields ==
  \A own, inn, out, writes : /\ Phase(own, inn, out, writes).own = own /\ Phase(own, inn, out, writes).inn = inn
                             /\ Phase(own, inn, out, writes).out = out /\ Phase(own, inn, out, writes).writes = writes
  BY DEF Phase

\* The edge phases of a GAT network, in all builds.
EdgeAt(c, l, ph) ==
  /\ ph.inn = {} /\ ph.out = {}
  /\ c.dir = "FORWARD" => /\ \A t : t \in ph.own <=> t = <<"z", l>>
                          /\ \A t : t \in ph.writes <=> t = <<"az", l>> \/ t = <<"A", 0>>
  /\ c.dir # "FORWARD" => /\ \A t : t \in ph.own <=> t = <<"grad", l>> \/ t = <<"az", l>> \/ t = <<"z", l>>
                          /\ \A t \in ph.writes : t = <<"dA", l>>
                          /\ <<"dA", l>> \in ph.writes \/ Exempt(<<"dA", l>>)

LEMMA EdgePhase ==
  ASSUME conf \in Confs, conf.gnn = "GAT", NEW c, c.dir \in PropType, ~c.vertex,
         NEW l \in Nat, c.layer = l + 1, NEW ph, ph = NNCompute(conf.build, conf.gnn, conf.numLayers, c)
  PROVE  EdgeAt(c, l, ph)
<1> SUFFICES /\ ph.inn = {} /\ ph.out = {}
             /\ c.dir = "FORWARD" => ph.own = {<<"z", l>>} /\ ph.writes = {<<"az", l>>, <<"A", 0>>}
             /\ c.dir # "FORWARD" => /\ ph.own = {<<"grad", l>>, <<"az", l>>, <<"z", l>>}
                                     /\ ph.writes = {<<"dA", l>>} \/ (ph.writes = {} /\ Exempt(<<"dA", l>>))
  BY DEF EdgeAt
<1>1. /\ \A name : Saved(name, l) = {<<name, l>>}
      /\ \A name : Saved(name, 0) = {<<name, 0>>}
      /\ c.layer - 1 = l /\ c.dir \in {"FORWARD", "BACKWARD"} /\ conf.build \in {"CPU", "GPU", "Lambda"}
  BY SavedIs, EpochShape, ScatterFacts DEF PropType, Build
<1>2. CASE conf.build = "CPU"
  <2>1. ph = NNComputeCPU("GAT", conf.numLayers, c)
    BY <1>2, Zenon DEF NNCompute
  <2>2. ph = EdgNNCPU(c.dir, l)
    BY <2>1, <1>1, Zenon DEF NNComputeCPU
  <2> QED BY <2>2, <1>1 DEF EdgNNCPU, Phase
<1>3. CASE conf.build = "GPU"
  <2>1. ph = NNComputeGPU("GAT", conf.numLayers, c)
    BY <1>3, Zenon DEF NNCompute
  <2>2. ph = EdgNNGPU(c.dir, l)
    BY <2>1, <1>1, Zenon DEF NNComputeGPU
  <2>3. l = 0 => Exempt(<<"dA", l>>)
    BY <1>3 DEF Exempt, NeverWritten
  <2> QED BY <2>2, <2>3, <1>1 DEF EdgNNGPU, Phase
<1>4. CASE conf.build = "Lambda"
  <2>1. ph = NNComputeLambda("GAT", conf.numLayers, c)
    BY <1>4, Zenon DEF NNCompute
  <2>2. ph = IF c.dir = "FORWARD" THEN ApplyEdgeGAT(c) ELSE ApplyEdgeBackwardGAT(c)
    BY <2>1, <1>1, Zenon DEF NNComputeLambda
  <2>3. \A names : Asked(c, names) = {<<name, l>> : name \in names}
    BY <1>1 DEF Asked
  <2>4. Asked(c, {"z"}) = {<<"z", l>>} /\ Asked(c, {"az"}) = {<<"az", l>>} /\ Asked(c, {"dA"}) = {<<"dA", l>>}
        /\ Asked(c, {"z", "grad", "az"}) = {<<"grad", l>>, <<"az", l>>, <<"z", l>>}
    BY <2>3
  <2> QED BY <2>2, <2>4, <1>1 DEF ApplyEdgeGAT, ApplyEdgeBackwardGAT, Phase
<1> QED BY <1>1, <1>2, <1>3, <1>4

\* The vertex phases of a GAT network.
VertexAtGAT(c, l, ph) ==
  /\ ph.inn = {} /\ ph.out = {}
  /\ c.dir = "FORWARD" => /\ \A t \in ph.own : l > 0 /\ (t = <<"ah", l - 1>> \/ t = <<"h", l>>)
                          /\ \A t : t \in ph.writes <=> t = <<"z", l>>
  /\ c.dir # "FORWARD" => /\ \A t \in ph.own : t = <<"aTg", l>> \/ (l > 0 /\ (t = <<"ah", l - 1>> \/ t = <<"h", l>>))
                          /\ \A t : t \in ph.writes <=> l > 0 /\ t = <<"grad", l - 1>>

LEMMA VertexPhaseGAT ==
  ASSUME conf \in Confs, conf.gnn = "GAT", NEW c, c.dir \in PropType, c.vertex = TRUE,
         NEW l \in Nat, c.layer = l, NEW ph, ph = NNCompute(conf.build, conf.gnn, conf.numLayers, c)
  PROVE  VertexAtGAT(c, l, ph)
<1> USE DEF VertexAtGAT
<1>1. /\ \A name, t : t \in Saved(name, l) <=> t = <<name, l>>
      /\ \A name, t : t \in Saved(name, l - 1) <=> l > 0 /\ t = <<name, l - 1>>
      /\ c.dir \in {"FORWARD", "BACKWARD"} /\ conf.build \in {"CPU", "GPU", "Lambda"}
  <2>1. l \in Int /\ l >= 0 /\ l - 1 \in Int /\ (l > 0 => l - 1 >= 0) /\ (~(l > 0) => l - 1 < 0)
    OBVIOUS
  <2>2. \A name, t : t \in Saved(name, l) <=> t = <<name, l>>
    BY <2>1, SavedIs
  <2>3. ASSUME NEW name, NEW t PROVE t \in Saved(name, l - 1) <=> l > 0 /\ t = <<name, l - 1>>
    <3>1. CASE l > 0
      BY <2>1, <3>1, SavedIs
    <3>2. CASE ~(l > 0)
      BY <2>1, <3>2, SavedIs
    <3> QED BY <3>1, <3>2
  <2>4. c.dir \in {"FORWARD", "BACKWARD"} /\ conf.build \in {"CPU", "GPU", "Lambda"}
    BY ScatterFacts DEF PropType, Build
  <2> QED BY <2>2, <2>3, <2>4
<1>2. CASE conf.build = "CPU"
  <2>1. ph = NNComputeCPU("GAT", conf.numLayers, c)
    BY <1>2, Zenon DEF NNCompute
  <2>2. ph = IF c.dir = "FORWARD" THEN VtxNNForwardCPU("GAT", conf.numLayers, l) ELSE VtxNNBackwardCPU("GAT", l)
    BY <2>1, <1>1, Zenon DEF NNComputeCPU
  <2>3. VtxNNForwardCPU("GAT", conf.numLayers, l) = Phase(Saved("ah", l - 1), {}, {}, Saved("z", l))
    BY Zenon DEF VtxNNForwardCPU
  <2>4. VtxNNBackwardCPU("GAT", l) = Phase(Saved("ah", l - 1) \cup Saved("aTg", l), {}, {}, Saved("grad", l - 1))
    BY DEF VtxNNBackwardCPU
  <2>10. ASSUME c.dir = "FORWARD"
         PROVE  ph.inn = {} /\ ph.out = {} /\ ph.own = Saved("ah", l - 1) /\ ph.writes = Saved("z", l)
    BY <2>10, <2>2, <2>3, <2>4, PhaseFields
  <2>11. ASSUME c.dir # "FORWARD"
         PROVE  ph.inn = {} /\ ph.out = {} /\ ph.own = Saved("ah", l - 1) \cup Saved("aTg", l) /\ ph.writes = Saved("grad", l - 1)
    BY <2>11, <2>2, <2>3, <2>4, PhaseFields
  <2>12. CASE c.dir = "FORWARD"
    BY <2>10, <2>12, <1>1
  <2>13. CASE c.dir # "FORWARD"
    BY <2>11, <2>13, <1>1
  <2> QED BY <2>12, <2>13
<1>3. CASE conf.build = "GPU"
  <2>1. ph = NNComputeGPU("GAT", conf.numLayers, c)
    BY <1>3, Zenon DEF NNCompute
  <2>2. ph = IF c.dir = "FORWARD" THEN VtxNNForwardGPU("GAT", conf.numLayers, l) ELSE VtxNNBackwardGPU("GAT", l)
    BY <2>1, <1>1, Zenon DEF NNComputeGPU
  <2>3. VtxNNForwardGPU("GAT", conf.numLayers, l) = Phase(Saved("ah", l - 1), {}, {}, Saved("z", l))
    BY Zenon DEF VtxNNForwardGPU
  <2>4. VtxNNBackwardGPU("GAT", l) = Phase(Saved("ah", l - 1) \cup Saved("aTg", l), {}, {}, Saved("grad", l - 1))
    BY DEF VtxNNBackwardGPU
  <2>10. ASSUME c.dir = "FORWARD"
         PROVE  ph.inn = {} /\ ph.out = {} /\ ph.own = Saved("ah", l - 1) /\ ph.writes = Saved("z", l)
    BY <2>10, <2>2, <2>3, <2>4, PhaseFields
  <2>11. ASSUME c.dir # "FORWARD"
         PROVE  ph.inn = {} /\ ph.out = {} /\ ph.own = Saved("ah", l - 1) \cup Saved("aTg", l) /\ ph.writes = Saved("grad", l - 1)
    BY <2>11, <2>2, <2>3, <2>4, PhaseFields
  <2>12. CASE c.dir = "FORWARD"
    BY <2>10, <2>12, <1>1
  <2>13. CASE c.dir # "FORWARD"
    BY <2>11, <2>13, <1>1
  <2> QED BY <2>12, <2>13
<1>4. CASE conf.build = "Lambda"
  <2>1. ph = NNComputeLambda("GAT", conf.numLayers, c)
    BY <1>4, Zenon DEF NNCompute
  <2>2. ph = IF c.dir = "FORWARD" THEN ApplyVertexGAT(c) ELSE ApplyVertexBackwardGAT(c)
    BY <2>1, <1>1, Zenon DEF NNComputeLambda
  <2>3. \A names : Asked(c, names) = {<<name, l>> : name \in names}
    BY DEF Asked
  <2>4. Asked(c, {"h"}) = {<<"h", l>>} /\ Asked(c, {"z"}) = {<<"z", l>>} /\ Asked(c, {"aTg"}) = {<<"aTg", l>>}
    BY <2>3
  <2>5. Returned("GAT", c, "z") = {<<"z", l>>} /\ Returned("GAT", c, "grad") = Saved("grad", l - 1)
    BY <2>4 DEF Returned
  <2>6. \A t : t \in InputGAT(c) <=> l > 0 /\ t = <<"h", l>>
    BY <2>4 DEF InputGAT
  <2>10. ASSUME c.dir = "FORWARD"
         PROVE  ph.inn = {} /\ ph.out = {} /\ (\A t : t \in ph.own <=> l > 0 /\ t = <<"h", l>>) /\ ph.writes = {<<"z", l>>}
    BY <2>10, <2>2, <2>4, <2>5, <2>6, PhaseFields DEF ApplyVertexGAT
  <2>11. ASSUME c.dir # "FORWARD"
         PROVE  ph.inn = {} /\ ph.out = {} /\ (\A t : t \in ph.own <=> t = <<"aTg", l>> \/ (l > 0 /\ t = <<"h", l>>))
           /\ \A t : t \in ph.writes <=> c.layer # 0 /\ t \in Saved("grad", l - 1)
    BY <2>11, <2>2, <2>4, <2>5, <2>6, PhaseFields DEF ApplyVertexBackwardGAT
  <2>12. CASE c.dir = "FORWARD"
    BY <2>10, <2>12, <1>1
  <2>13. CASE c.dir # "FORWARD"
    BY <2>11, <2>13, <1>1
  <2> QED BY <2>12, <2>13
<1> QED BY <1>1, <1>2, <1>3, <1>4

\* The vertex phases of a GCN network.
VertexAtGCN(c, l, ph) ==
  /\ ph.inn = {} /\ ph.out = {}
  /\ c.dir = "FORWARD" => /\ \A t : t \in ph.own <=> t = <<"ah", l>>
                          /\ \A t : t \in ph.writes <=> IF l # conf.numLayers - 1 THEN t = <<"z", l>> \/ t = <<"h", l>>
                                                        ELSE t = <<"grad", l>>
  /\ c.dir # "FORWARD" => /\ \A t \in ph.own : t = <<"aTg", l>> \/ t = <<"z", l>> \/ t = <<"h", l>> \/ t = <<"ah", l>>
                          /\ \A t : t \in ph.writes <=> l > 0 /\ t = <<"grad", l>>

LEMMA VertexPhaseGCN ==
  ASSUME conf \in Confs, conf.gnn = "GCN", NEW c, c.dir \in PropType, c.vertex = TRUE,
         NEW l \in Nat, c.layer = l, NEW ph, ph = NNCompute(conf.build, conf.gnn, conf.numLayers, c)
  PROVE  VertexAtGCN(c, l, ph)
<1> USE DEF VertexAtGCN
<1>1. /\ \A name, t : t \in Saved(name, l) <=> t = <<name, l>>
      /\ c.dir \in {"FORWARD", "BACKWARD"} /\ conf.build \in {"CPU", "GPU", "Lambda"}
  BY SavedIs, EpochShape, ScatterFacts DEF PropType, Build
<1>2. CASE conf.build = "CPU"
  <2>1. ph = NNComputeCPU("GCN", conf.numLayers, c)
    BY <1>2, Zenon DEF NNCompute
  <2>2. ph = IF c.dir = "FORWARD" THEN VtxNNForwardCPU("GCN", conf.numLayers, l) ELSE VtxNNBackwardCPU("GCN", l)
    BY <2>1, <1>1, Zenon DEF NNComputeCPU
  <2>3. VtxNNForwardCPU("GCN", conf.numLayers, l)
          = IF l # conf.numLayers - 1 THEN Phase(Saved("ah", l), {}, {}, Saved("z", l) \cup Saved("h", l))
                                                    ELSE Phase(Saved("ah", l), {}, {}, Saved("grad", l))
    BY Zenon DEF VtxNNForwardCPU
  <2>4. VtxNNBackwardCPU("GCN", l) = Phase(Saved("aTg", l) \cup Saved("z", l) \cup Saved("ah", l), {}, {},
                                           IF l # 0 THEN Saved("grad", l) ELSE {})
    BY DEF VtxNNBackwardCPU
  <2>10. ASSUME c.dir = "FORWARD" PROVE ph.inn = {} /\ ph.out = {} /\ ph.own = Saved("ah", l)
           /\ ph.writes = (IF l # conf.numLayers - 1 THEN Saved("z", l) \cup Saved("h", l) ELSE Saved("grad", l))
    BY <2>10, <2>2, <2>3, <2>4, PhaseFields
  <2>11. ASSUME c.dir # "FORWARD"
         PROVE  ph.inn = {} /\ ph.out = {} /\ ph.own = Saved("aTg", l) \cup Saved("z", l) \cup Saved("ah", l)
           /\ ph.writes = (IF l # 0 THEN Saved("grad", l) ELSE {})
    BY <2>11, <2>2, <2>3, <2>4, PhaseFields
  <2>12. CASE c.dir = "FORWARD"
    BY <2>10, <2>12, <1>1
  <2>13. CASE c.dir # "FORWARD"
    BY <2>11, <2>13, <1>1
  <2> QED BY <2>12, <2>13
<1>3. CASE conf.build = "GPU"
  <2>1. ph = NNComputeGPU("GCN", conf.numLayers, c)
    BY <1>3, Zenon DEF NNCompute
  <2>2. ph = IF c.dir = "FORWARD" THEN VtxNNForwardGPU("GCN", conf.numLayers, l) ELSE VtxNNBackwardGPU("GCN", l)
    BY <2>1, <1>1, Zenon DEF NNComputeGPU
  <2>3. VtxNNForwardGPU("GCN", conf.numLayers, l)
          = IF l # conf.numLayers - 1 THEN Phase(Saved("ah", l), {}, {}, Saved("z", l) \cup Saved("h", l))
                                                    ELSE Phase(Saved("ah", l), {}, {}, Saved("grad", l))
    BY Zenon DEF VtxNNForwardGPU
  <2>4. VtxNNBackwardGPU("GCN", l) = Phase({<<name, l>> : name \in {"aTg", "z", "h", "ah"}}, {}, {},
                                           IF l # 0 THEN Saved("grad", l) ELSE {})
    BY DEF VtxNNBackwardGPU
  <2>10. ASSUME c.dir = "FORWARD" PROVE ph.inn = {} /\ ph.out = {} /\ ph.own = Saved("ah", l)
           /\ ph.writes = (IF l # conf.numLayers - 1 THEN Saved("z", l) \cup Saved("h", l) ELSE Saved("grad", l))
    BY <2>10, <2>2, <2>3, <2>4, PhaseFields
  <2>11. ASSUME c.dir # "FORWARD"
         PROVE  ph.inn = {} /\ ph.out = {} /\ ph.own = {<<name, l>> : name \in {"aTg", "z", "h", "ah"}}
           /\ ph.writes = (IF l # 0 THEN Saved("grad", l) ELSE {})
    BY <2>11, <2>2, <2>3, <2>4, PhaseFields
  <2>12. CASE c.dir = "FORWARD"
    BY <2>10, <2>12, <1>1
  <2>13. CASE c.dir # "FORWARD"
    BY <2>11, <2>13, <1>1
  <2> QED BY <2>12, <2>13
<1>4. CASE conf.build = "Lambda"
  <2>1. ph = NNComputeLambda("GCN", conf.numLayers, c)
    BY <1>4, Zenon DEF NNCompute
  <2>2. ph = IF c.dir = "FORWARD" THEN IF l # conf.numLayers - 1 THEN ForwardLayerGCN(c) ELSE FinalLayerGCN(c)
             ELSE BackwardLayerGCN(c)
    BY <2>1, <1>1, Zenon DEF NNComputeLambda
  <2>3. \A names : Asked(c, names) = {<<name, l>> : name \in names}
    BY DEF Asked
  <2>4. \A t : /\ t \in Asked(c, {"ah"}) <=> t = <<"ah", l>>
               /\ t \in Asked(c, {"z", "h"}) <=> t = <<"z", l>> \/ t = <<"h", l>>
               /\ t \in Asked(c, {"grad"}) <=> t = <<"grad", l>>
    BY <2>3
  <2>5. \A t \in Asked(c, {"ah", "z", "aTg"}) : t = <<"aTg", l>> \/ t = <<"z", l>> \/ t = <<"h", l>> \/ t = <<"ah", l>>
    BY <2>3
  <2>10. ASSUME c.dir = "FORWARD" PROVE ph.inn = {} /\ ph.out = {} /\ ph.own = Asked(c, {"ah"})
           /\ ph.writes = (IF l # conf.numLayers - 1 THEN Asked(c, {"z", "h"}) ELSE Asked(c, {"grad"}))
    BY <2>2, <2>10, PhaseFields DEF ForwardLayerGCN, FinalLayerGCN
  <2>11. ASSUME c.dir # "FORWARD"
         PROVE  ph.inn = {} /\ ph.out = {} /\ ph.own = Asked(c, {"ah", "z", "aTg"})
           /\ ph.writes = (IF c.layer > 0 THEN Asked(c, {"grad"}) ELSE {})
    BY <2>2, <2>11, PhaseFields DEF BackwardLayerGCN
  <2>12. CASE c.dir = "FORWARD"
    BY <2>4, <2>10, <2>12, <1>1
  <2>13. CASE c.dir # "FORWARD"
    BY <2>4, <2>5, <2>11, <2>13, <1>1
  <2> QED BY <2>12, <2>13
<1> QED BY <1>1, <1>2, <1>3, <1>4

LEMMA OwnsIf ==
  ASSUME NEW t, Saves(t), NEW d \in Int, Due(t) = d, NEW p \in Int, d < p
  PROVE  Owns(t, p)
  BY DEF Owns

\* The layer and the direction of a chunk after scatter phase s.
LEMMA AtPhase ==
  ASSUME conf \in Confs, NEW c, NEW s \in 0..Scatters, Between(c, s), NEW S \in Nat, S = Scatters
  PROVE  /\ s <= Turn => c.dir = "FORWARD" /\ c.layer = s
         /\ ~(s <= Turn) => c.dir = "BACKWARD" /\ c.layer = S + 1 - s
         /\ s <= Turn => DirOf(s) = "FORWARD" /\ LayerOf(s) = s
         /\ ~(s <= Turn) => DirOf(s) = "BACKWARD" /\ LayerOf(s) = S + 1 - s
  BY DEF Between, DirOf, LayerOf

\* An edge phase of GAT reads what was due, and writes all that is due until the gather.
LEMMA EdgeFits ==
  ASSUME conf \in Confs, NEW c, c.dir \in PropType, ~c.vertex, NEW s \in 1..Scatters, Between(c, s),
         NEW ph, ph = NNCompute(conf.build, conf.gnn, conf.numLayers, c)
  PROVE  Fits(ph, 3 * s, 3 * s + 1) /\ ph.inn = {} /\ ph.out = {}
<1>1. PICK L \in Nat, S \in Nat : L = conf.numLayers /\ S = Scatters /\ L > 0
  BY EpochShape
<1>2. conf.gnn \in Gnn /\ s \in 0..Scatters /\ s > 0 /\ s <= S
  BY <1>1, EpochShape
<1>3. CASE conf.gnn = "GCN"
  <2>1. ph = NoPhase
    <3>1. CASE conf.build = "CPU"
      <4>1. ph = NoPhase \/ ph = NNComputeCPU("GCN", conf.numLayers, c)
        BY <1>3, <3>1, SMT DEF NNCompute
      <4>2. NNComputeCPU("GCN", conf.numLayers, c) = NoPhase
        BY Zenon DEF NNComputeCPU
      <4> QED BY <4>1, <4>2
    <3>2. CASE conf.build = "GPU"
      <4>1. ph = NoPhase \/ ph = NNComputeGPU("GCN", conf.numLayers, c)
        BY <1>3, <3>2, SMT DEF NNCompute
      <4>2. NNComputeGPU("GCN", conf.numLayers, c) = NoPhase
        BY Zenon DEF NNComputeGPU
      <4> QED BY <4>1, <4>2
    <3>3. CASE conf.build # "CPU" /\ conf.build # "GPU"
      BY <1>3, <3>3, Zenon DEF NNCompute
    <3> QED BY <3>1, <3>2, <3>3
  <2>2. ph.own = {} /\ ph.inn = {} /\ ph.out = {} /\ ph.writes = {}
    BY <2>1, PhaseFields DEF NoPhase
  <2>3. DueIn(3 * s, 3 * s + 1) = {}
    BY <1>2, <1>3, TableGCN
  <2> QED BY <2>2, <2>3 DEF Fits
<1>4. CASE conf.gnn = "GAT"
  <2>1. S = 2 * L /\ Turn = L
    BY <1>1, <1>4, EpochShape
  <2>2. CASE s <= Turn
    <3>1. c.dir = "FORWARD" /\ c.layer = s
      BY <1>1, <1>2, <2>2, AtPhase
    <3>2. PICK l \in Nat : l = s - 1 /\ l \in 0..L - 1 /\ s = l + 1
      <4>1. s - 1 \in Nat /\ s - 1 \in 0..L - 1 /\ s = s - 1 + 1
        BY <1>2, <2>1, <2>2
      <4> QED BY <4>1
    <3>3. EdgeAt(c, l, ph)
      <4>1. c.layer = l + 1
        BY <3>1, <3>2
      <4> QED BY <1>4, <4>1, EdgePhase
    <3>33. /\ \A t : t \in ph.own <=> t = <<"z", l>>
           /\ \A t : t \in ph.writes <=> t = <<"az", l>> \/ t = <<"A", 0>>
           /\ ph.inn = {} /\ ph.out = {}
      BY <3>1, <3>3 DEF EdgeAt
    <3>4. Owns(<<"z", l>>, 3 * s)
      <4>1. Saves(<<"z", l>>) /\ Due(<<"z", l>>) = 3 * l + 2
        BY <1>1, <1>4, <3>2, SavesGAT, DueGATIs
      <4>2. 3 * l + 2 < 3 * s /\ 3 * l + 2 \in Int /\ 3 * s \in Int
        BY <3>2
      <4> QED BY <4>1, <4>2, OwnsIf
    <3>5. DueIn(3 * s, 3 * s + 1) \subseteq {<<"A", 0>>, <<"az", l>>}
      <4>1. DueIn(3 * s, 3 * s + 1) \subseteq (IF s = 0 THEN {} ELSE IF s <= Turn THEN {<<"A", 0>>, <<"az", s - 1>>}
                                               ELSE {<<"dA", Scatters - s>>})
        BY <1>2, <1>4, TableGAT
      <4> QED BY <1>2, <2>2, <3>2, <4>1
    <3>6. ~IsGhost(<<"az", l>>) /\ ~IsGhost(<<"A", 0>>)
      BY DEF IsGhost
    <3> QED BY <3>33, <3>4, <3>5, <3>6 DEF Fits
  <2>3. CASE ~(s <= Turn)
    <3>1. c.dir = "BACKWARD" /\ c.layer = S + 1 - s
      BY <1>1, <1>2, <2>3, AtPhase
    <3>2. PICK l \in Nat : l = S - s /\ l \in 0..L - 1 /\ S + 1 - s = l + 1 /\ l < s
      <4>1. S - s \in Nat /\ S - s \in 0..L - 1 /\ S + 1 - s = S - s + 1 /\ S - s < s
        BY <1>2, <2>1, <2>3
      <4> QED BY <4>1
    <3>3. EdgeAt(c, l, ph)
      <4>1. c.layer = l + 1
        BY <3>1, <3>2
      <4> QED BY <1>4, <4>1, EdgePhase
    <3>33. /\ \A t : t \in ph.own <=> t = <<"grad", l>> \/ t = <<"az", l>> \/ t = <<"z", l>>
           /\ \A t \in ph.writes : t = <<"dA", l>>
           /\ <<"dA", l>> \in ph.writes \/ Exempt(<<"dA", l>>)
           /\ ph.inn = {} /\ ph.out = {}
      BY <3>1, <3>3 DEF EdgeAt
    <3>4. Saves(<<"grad", l>>) /\ Saves(<<"az", l>>) /\ Saves(<<"z", l>>)
      BY <1>1, <1>4, <3>2, SavesGAT
    <3>5. Due(<<"grad", l>>) = 3 * (S - 1 - l) + 2 /\ Due(<<"az", l>>) = 3 * (l + 1) /\ Due(<<"z", l>>) = 3 * l + 2
      BY <1>1, <1>4, DueGATIs
    <3>6. /\ 3 * (S - 1 - l) + 2 \in Int /\ 3 * (l + 1) \in Int /\ 3 * l + 2 \in Int /\ 3 * s \in Int
          /\ 3 * (S - 1 - l) + 2 < 3 * s /\ 3 * l + 2 < 3 * s
      BY <3>2
    <3>7. 3 * (l + 1) < 3 * s
      BY <2>1, <2>3, <3>2
    <3>8. Owns(<<"grad", l>>, 3 * s) /\ Owns(<<"az", l>>, 3 * s) /\ Owns(<<"z", l>>, 3 * s)
      BY <3>4, <3>5, <3>6, <3>7, OwnsIf
    <3>9. DueIn(3 * s, 3 * s + 1) \subseteq {<<"dA", l>>}
      <4>1. DueIn(3 * s, 3 * s + 1) \subseteq (IF s = 0 THEN {} ELSE IF s <= Turn THEN {<<"A", 0>>, <<"az", s - 1>>}
                                               ELSE {<<"dA", Scatters - s>>})
        BY <1>2, <1>4, TableGAT
      <4> QED BY <1>1, <1>2, <2>3, <3>2, <4>1
    <3>10. \A t \in DueIn(3 * s, 3 * s + 1) : ~Exempt(t)
      BY DEF DueIn
    <3>11. ~IsGhost(<<"dA", l>>)
      BY DEF IsGhost
    <3>12. DueIn(3 * s, 3 * s + 1) \subseteq ph.writes /\ \A t \in ph.writes : ~IsGhost(t)
      BY <3>33, <3>9, <3>10, <3>11
    <3> QED BY <3>33, <3>8, <3>12 DEF Fits
  <2> QED BY <2>2, <2>3
<1> QED BY <1>2, <1>3, <1>4 DEF Gnn

\* What scatter phase s sends, and where it is stored.
ChunkOf(s) == [dir |-> DirOf(s), layer |-> LayerOf(s)]
SendOf(s) == Sent(conf.gnn, ChunkOf(s))
StoreOf(s) == Stored(conf.gnn, ChunkOf(s))

SendIsAt(s, k, own, ghost) == k = LayerOf(s) => SendOf(s) = own /\ StoreOf(s) = ghost

LEMMA SendIs ==
  ASSUME NEW s, NEW k
  PROVE  /\ conf.gnn = "GCN" /\ DirOf(s) = "FORWARD" => SendIsAt(s, k, <<"h", k - 1>>, <<"fg", k>>)
         /\ conf.gnn = "GCN" /\ DirOf(s) # "FORWARD" => SendIsAt(s, k, <<"grad", k>>, <<"bg", k - 1>>)
         /\ conf.gnn = "GAT" /\ DirOf(s) = "FORWARD" => SendIsAt(s, k, <<"z", k - 1>>, <<"fg_z", k - 1>>)
         /\ conf.gnn = "GAT" /\ DirOf(s) # "FORWARD" => SendIsAt(s, k, <<"grad", k - 1>>, <<"bg_d", k - 1>>)
  BY DEF SendIsAt, SendOf, StoreOf, ChunkOf, Sent, Stored, SentGCN, SentGAT, StoredGCN, StoredGAT

LEMMA SendBetween ==
  ASSUME NEW c, NEW s, Between(c, s)
  PROVE  Sent(conf.gnn, c) = SendOf(s) /\ Stored(conf.gnn, c) = StoreOf(s)
  BY DEF Between, SendOf, StoreOf, ChunkOf, Sent, Stored, SentGCN, SentGAT, StoredGCN, StoredGAT

\* What a scatter phase sends was due before it, and each has a tensor for its ghosts.
SendAt(s) ==
  /\ Saves(SendOf(s)) /\ ~Exempt(SendOf(s)) /\ Due(SendOf(s)) = 3 * s - 1
  /\ StoreOf(s) \in Tensors(conf.gnn, conf.numLayers) /\ IsGhost(StoreOf(s)) /\ GhostDir(StoreOf(s)) = DirOf(s)

LEMMA SendFits ==
  ASSUME conf \in Confs, NEW s \in 1..Scatters
  PROVE  SendAt(s)
<1>1. PICK L \in Nat, S \in Nat : L = conf.numLayers /\ S = Scatters /\ L > 0
  BY EpochShape
<1>2. conf.gnn \in Gnn /\ s \in 0..Scatters /\ s > 0 /\ s <= S /\ s \in Int
  BY <1>1, EpochShape
<1>3. \A name, l : ~IsGhost(<<name, l>>) \/ name \in {"fg", "bg", "fg_z", "bg_d"}
  BY DEF IsGhost
<1>4. /\ \A l : IsGhost(<<"fg", l>>) /\ GhostDir(<<"fg", l>>) = "FORWARD"
      /\ \A l : IsGhost(<<"bg", l>>) /\ GhostDir(<<"bg", l>>) = "BACKWARD"
      /\ \A l : IsGhost(<<"fg_z", l>>) /\ GhostDir(<<"fg_z", l>>) = "FORWARD"
      /\ \A l : IsGhost(<<"bg_d", l>>) /\ GhostDir(<<"bg_d", l>>) = "BACKWARD"
  BY DEF IsGhost, GhostDir
<1>5. CASE conf.gnn = "GCN"
  <2>1. S = 2 * L - 2 /\ Turn = L - 1 /\ Tensors(conf.gnn, conf.numLayers) = TensorsGCN(L)
    BY <1>1, <1>5, EpochShape DEF Tensors
  <2>2. \A t : ~Exempt(t)
    BY <1>5 DEF Exempt, Accumulated, NeverWritten
  <2>3. CASE s <= Turn
    <3>1. DirOf(s) = "FORWARD" /\ LayerOf(s) = s
      BY <2>3 DEF DirOf, LayerOf
    <3>2. PICK l \in Nat : l = s - 1 /\ l \in 0..L - 2 /\ s = l + 1
      <4>1. s - 1 \in Nat /\ s - 1 \in 0..L - 2 /\ s = s - 1 + 1
        BY <1>2, <2>1, <2>3
      <4> QED BY <4>1
    <3>3. SendOf(s) = <<"h", l>> /\ StoreOf(s) = <<"fg", l + 1>>
      <4>1. SendIsAt(s, s, <<"h", s - 1>>, <<"fg", s>>)
        BY <1>5, <3>1, SendIs
      <4> QED BY <3>1, <3>2, <4>1 DEF SendIsAt
    <3>4. Saves(<<"h", l>>) /\ Due(<<"h", l>>) = 3 * l + 2
      BY <1>1, <1>5, <3>2, SavesGCN, DueGCNIs
    <3>5. 3 * l + 2 = 3 * s - 1
      BY <3>2
    <3>6. <<"fg", l + 1>> \in TensorsGCN(L)
      <4>1. l + 1 \in Int /\ l + 1 >= 0
        BY <3>2
      <4>2. <<"fg", l + 1>> \in Saved("fg", l + 1)
        BY <4>1, SavedIs
      <4> QED BY <3>2, <4>2 DEF TensorsGCN
    <3> QED BY <1>4, <2>1, <2>2, <3>1, <3>3, <3>4, <3>5, <3>6 DEF SendAt
  <2>4. CASE ~(s <= Turn)
    <3>1. DirOf(s) = "BACKWARD" /\ LayerOf(s) = S + 1 - s
      BY <1>1, <2>4 DEF DirOf, LayerOf
    <3>2. PICK l \in Nat : l = S + 1 - s /\ l \in 1..L - 1
      <4>1. S + 1 - s \in Nat /\ S + 1 - s \in 1..L - 1
        BY <1>2, <2>1, <2>4
      <4> QED BY <4>1
    <3>3. SendOf(s) = <<"grad", l>> /\ StoreOf(s) = <<"bg", l - 1>>
      <4>1. SendIsAt(s, l, <<"grad", l>>, <<"bg", l - 1>>)
        BY <1>5, <3>1, SendIs
      <4> QED BY <3>1, <3>2, <4>1 DEF SendIsAt
    <3>4. Saves(<<"grad", l>>) /\ Due(<<"grad", l>>) = 3 * (Scatters - l) + 2
      BY <1>1, <1>5, <3>2, SavesGCN, DueGCNIs
    <3>5. 3 * (Scatters - l) + 2 = 3 * s - 1
      BY <1>1, <1>2, <3>2
    <3>6. <<"bg", l - 1>> \in TensorsGCN(L)
      <4>1. l - 1 \in Int /\ l - 1 >= 0
        BY <3>2
      <4>2. <<"bg", l - 1>> \in Saved("bg", l - 1)
        BY <4>1, SavedIs
      <4> QED BY <3>2, <4>2 DEF TensorsGCN
    <3> QED BY <1>4, <2>1, <2>2, <3>1, <3>3, <3>4, <3>5, <3>6 DEF SendAt
  <2> QED BY <2>3, <2>4
<1>6. CASE conf.gnn = "GAT"
  <2>1. S = 2 * L /\ Turn = L /\ Tensors(conf.gnn, conf.numLayers) = TensorsGAT(L)
    BY <1>1, <1>6, EpochShape DEF Tensors
  <2>2. \A l : ~Exempt(<<"z", l>>) /\ ~Exempt(<<"grad", l>>)
    BY DEF Exempt, Accumulated, NeverWritten
  <2>3. CASE s <= Turn
    <3>1. DirOf(s) = "FORWARD" /\ LayerOf(s) = s
      BY <2>3 DEF DirOf, LayerOf
    <3>2. PICK l \in Nat : l = s - 1 /\ l \in 0..L - 1 /\ s = l + 1
      <4>1. s - 1 \in Nat /\ s - 1 \in 0..L - 1 /\ s = s - 1 + 1
        BY <1>2, <2>1, <2>3
      <4> QED BY <4>1
    <3>3. SendOf(s) = <<"z", l>> /\ StoreOf(s) = <<"fg_z", l>>
      <4>1. SendIsAt(s, s, <<"z", s - 1>>, <<"fg_z", s - 1>>)
        BY <1>6, <3>1, SendIs
      <4> QED BY <3>1, <3>2, <4>1 DEF SendIsAt
    <3>4. Saves(<<"z", l>>) /\ Due(<<"z", l>>) = 3 * l + 2
      BY <1>1, <1>6, <3>2, SavesGAT, DueGATIs
    <3>5. 3 * l + 2 = 3 * s - 1
      BY <3>2
    <3>6. <<"fg_z", l>> \in TensorsGAT(L)
      BY <3>2 DEF TensorsGAT
    <3> QED BY <1>4, <2>1, <2>2, <3>1, <3>3, <3>4, <3>5, <3>6 DEF SendAt
  <2>4. CASE ~(s <= Turn)
    <3>1. DirOf(s) = "BACKWARD" /\ LayerOf(s) = S + 1 - s
      BY <1>1, <2>4 DEF DirOf, LayerOf
    <3>2. PICK l \in Nat : l = S - s /\ l \in 0..L - 1 /\ l = S + 1 - s - 1 /\ S + 1 - s = l + 1
      <4>1. S - s \in Nat /\ S - s \in 0..L - 1 /\ S - s = S + 1 - s - 1 /\ S + 1 - s = S - s + 1
        BY <1>2, <2>1, <2>4
      <4> QED BY <4>1
    <3>3. SendOf(s) = <<"grad", l>> /\ StoreOf(s) = <<"bg_d", l>>
      <4>1. \A k : SendIsAt(s, k, <<"grad", k - 1>>, <<"bg_d", k - 1>>)
        BY <1>6, <3>1, SendIs
      <4>2. PICK k : k = LayerOf(s) /\ k - 1 = l
        BY <3>1, <3>2
      <4> QED BY <4>1, <4>2 DEF SendIsAt
    <3>4. Saves(<<"grad", l>>) /\ Due(<<"grad", l>>) = 3 * (Scatters - 1 - l) + 2
      BY <1>1, <1>6, <3>2, SavesGAT, DueGATIs
    <3>5. 3 * (Scatters - 1 - l) + 2 = 3 * s - 1
      BY <1>1, <1>2, <3>2
    <3>6. <<"bg_d", l>> \in TensorsGAT(L)
      BY <3>2 DEF TensorsGAT
    <3> QED BY <1>4, <2>1, <2>2, <3>1, <3>3, <3>4, <3>5, <3>6 DEF SendAt
  <2> QED BY <2>3, <2>4
<1> QED BY <1>2, <1>5, <1>6 DEF Gnn

\* No two scatter phases are stored in the same tensor.
LEMMA StoreApart ==
  ASSUME conf \in Confs, NEW s \in 1..Scatters, NEW r \in 1..Scatters, StoreOf(s) = StoreOf(r)
  PROVE  s = r
<1>1. PICK S \in Nat : S = Scatters
  BY EpochShape
<1>2. conf.gnn \in {"GCN", "GAT"} /\ Turn \in Nat
  BY EpochShape DEF Gnn
<1>3. DirOf(s) = DirOf(r)
  BY SendFits DEF SendAt
<1>4. (s <= Turn) <=> (r <= Turn)
  BY <1>3 DEF DirOf
<1>5. LayerOf(s) = LayerOf(r)
  <2>1. LayerOf(s) \in Int /\ LayerOf(r) \in Int
    BY <1>1, <1>2 DEF LayerOf
  <2>2. StoreOf(s)[2] = StoreOf(r)[2]
    OBVIOUS
  <2>4. \/ StoreOf(s)[2] = LayerOf(s) /\ StoreOf(r)[2] = LayerOf(r)
        \/ StoreOf(s)[2] = LayerOf(s) - 1 /\ StoreOf(r)[2] = LayerOf(r) - 1
    BY <1>2, <1>3 DEF StoreOf, ChunkOf, Stored, StoredGCN, StoredGAT
  <2> QED BY <2>1, <2>2, <2>4
<1> QED BY <1>1, <1>2, <1>4, <1>5 DEF LayerOf

\* The neighbours' values that a gather reads were sent in a scatter phase before it.
GatherReads(ph, s) ==
  /\ \A w \in ph.inn : \E r \in 1..s : DirOf(r) = "FORWARD" /\ w.own = SendOf(r) /\ w.ghost = StoreOf(r)
  /\ \A w \in ph.out : \E r \in 1..s : DirOf(r) = "BACKWARD" /\ w.own = SendOf(r) /\ w.ghost = StoreOf(r)

LEMMA WithIs ==
  \A name, l, ghost, gl : \A w \in With(name, l, ghost, gl) : w.own = <<name, l>> /\ w.ghost = <<ghost, gl>>
  BY DEF With

\* The gather of GCN, and that of GAT, which predicts as well at the turn.
LEMMA GatherFitsGCN ==
  ASSUME conf \in Confs, conf.gnn = "GCN", NEW c, NEW s \in 0..Scatters, Between(c, s),
         NEW ph, ph = Gathering(conf.gnn, conf.numLayers, c)
  PROVE  Fits(ph, 3 * s + 1, 3 * s + 2) /\ GatherReads(ph, s)
<1>1. PICK L \in Nat, S \in Nat : L = conf.numLayers /\ S = Scatters /\ L > 0 /\ S = 2 * L - 2 /\ Turn = L - 1
  BY EpochShape
<1>2. s \in Nat /\ s <= S
  BY <1>1
<1>3. ph = GatherGCN(c)
  BY SMT DEF Gathering
<1>4. DueIn(3 * s + 1, 3 * s + 2) \subseteq (IF s <= Turn THEN {<<"ah", s>>} ELSE {<<"aTg", Scatters - s>>})
  BY TableGCN
<1>5. \A l : ~IsGhost(<<"ah", l>>) /\ ~IsGhost(<<"aTg", l>>)
  BY DEF IsGhost
<1>6. CASE s <= Turn
  <2>1. c.dir = "FORWARD" /\ c.layer = s /\ DirOf(s) = "FORWARD" /\ LayerOf(s) = s
    BY <1>1, <1>6, AtPhase
  <2>2. Saved("ah", s) = {<<"ah", s>>} /\ Saved("ah", 0) = {<<"ah", 0>>}
    BY <1>2, SavedIs
  <2>3. CASE s = 0
    <3>1. ph = Phase({}, {}, {}, Saved("ah", 0))
      BY <1>3, <2>1, <2>3, SMT DEF GatherGCN
    <3>2. ph.own = {} /\ ph.inn = {} /\ ph.out = {} /\ ph.writes = {<<"ah", s>>}
      BY <2>2, <2>3, <3>1, PhaseFields
    <3> QED BY <1>4, <1>5, <1>6, <3>2 DEF Fits, GatherReads
  <2>4. CASE s # 0
    <3>1. ph = Phase(Saved("h", s - 1), With("h", s - 1, "fg", s), {}, Saved("ah", s))
      BY <1>3, <2>1, <2>4, SMT DEF GatherGCN
    <3>2. PICK l \in Nat : l = s - 1 /\ l \in 0..L - 2 /\ s = l + 1
      <4>1. s - 1 \in Nat /\ s - 1 \in 0..L - 2 /\ s = s - 1 + 1
        BY <1>1, <1>2, <1>6, <2>4
      <4> QED BY <4>1
    <3>3. Saved("h", l) = {<<"h", l>>}
      BY SavedIs
    <3>4. ph.own = {<<"h", l>>} /\ ph.inn = With("h", l, "fg", s) /\ ph.out = {} /\ ph.writes = {<<"ah", s>>}
      BY <2>2, <3>1, <3>2, <3>3, PhaseFields
    <3>5. Owns(<<"h", l>>, 3 * s + 1)
      <4>1. Saves(<<"h", l>>) /\ Due(<<"h", l>>) = 3 * l + 2
        BY <1>1, <3>2, SavesGCN, DueGCNIs
      <4>2. 3 * l + 2 < 3 * s + 1 /\ 3 * l + 2 \in Int /\ 3 * s + 1 \in Int
        BY <3>2
      <4> QED BY <4>1, <4>2, OwnsIf
    <3>6. SendOf(s) = <<"h", l>> /\ StoreOf(s) = <<"fg", s>> /\ s \in 1..s
      <4>1. SendIsAt(s, s, <<"h", s - 1>>, <<"fg", s>>)
        BY <2>1, SendIs
      <4> QED BY <1>2, <2>1, <2>4, <3>2, <4>1 DEF SendIsAt
    <3>7. GatherReads(ph, s)
      BY <2>1, <3>4, <3>6, WithIs DEF GatherReads
    <3> QED BY <1>4, <1>5, <1>6, <3>4, <3>5, <3>7 DEF Fits
  <2> QED BY <2>3, <2>4
<1>7. CASE ~(s <= Turn)
  <2>1. c.dir = "BACKWARD" /\ c.layer = S + 1 - s /\ DirOf(s) = "BACKWARD" /\ LayerOf(s) = S + 1 - s
    BY <1>1, <1>7, AtPhase
  <2>2. PICK k \in Nat : k = S + 1 - s /\ k \in 1..L - 1 /\ k - 1 \in Nat /\ k - 1 = S - s
    <3>1. S + 1 - s \in Nat /\ S + 1 - s \in 1..L - 1 /\ S + 1 - s - 1 \in Nat /\ S + 1 - s - 1 = S - s
      BY <1>1, <1>2, <1>7
    <3> QED BY <3>1
  <2>3. ph = Phase(Saved("grad", k), {}, With("grad", k, "bg", k - 1), Saved("aTg", k - 1))
    BY <1>3, <2>1, <2>2, SMT DEF GatherGCN
  <2>4. Saved("grad", k) = {<<"grad", k>>} /\ Saved("aTg", k - 1) = {<<"aTg", k - 1>>}
    BY <2>2, SavedIs
  <2>5. ph.own = {<<"grad", k>>} /\ ph.inn = {} /\ ph.out = With("grad", k, "bg", k - 1) /\ ph.writes = {<<"aTg", k - 1>>}
    BY <2>3, <2>4, PhaseFields
  <2>6. Owns(<<"grad", k>>, 3 * s + 1)
    <3>1. Saves(<<"grad", k>>) /\ Due(<<"grad", k>>) = 3 * (Scatters - k) + 2
      BY <1>1, <2>2, SavesGCN, DueGCNIs
    <3>2. 3 * (Scatters - k) + 2 < 3 * s + 1 /\ 3 * (Scatters - k) + 2 \in Int /\ 3 * s + 1 \in Int
      BY <1>1, <1>2, <2>2
    <3> QED BY <3>1, <3>2, OwnsIf
  <2>7. SendOf(s) = <<"grad", k>> /\ StoreOf(s) = <<"bg", k - 1>> /\ s \in 1..s
    <3>1. SendIsAt(s, k, <<"grad", k>>, <<"bg", k - 1>>)
      BY <2>1, SendIs
    <3>2. s \in 1..s
      BY <1>1, <1>2, <1>7
    <3> QED BY <2>1, <2>2, <3>1, <3>2 DEF SendIsAt
  <2>8. GatherReads(ph, s)
    BY <2>1, <2>5, <2>7, WithIs DEF GatherReads
  <2>9. DueIn(3 * s + 1, 3 * s + 2) \subseteq {<<"aTg", k - 1>>}
    BY <1>1, <1>4, <1>7, <2>2
  <2> QED BY <1>5, <2>5, <2>6, <2>8, <2>9 DEF Fits
<1> QED BY <1>6, <1>7

LEMMA GatherFitsGAT ==
  ASSUME conf \in Confs, conf.gnn = "GAT", NEW c, NEW s \in 1..Scatters, Between(c, s),
         NEW ph, ph = Gathering(conf.gnn, conf.numLayers, c)
  PROVE  Fits(ph, 3 * s + 1, IF IsTurn(conf.gnn, conf.numLayers, c) THEN 3 * (s + 1) ELSE 3 * s + 2) /\ GatherReads(ph, s)
<1>1. PICK L \in Nat, S \in Nat : L = conf.numLayers /\ S = Scatters /\ L > 0 /\ S = 2 * L /\ Turn = L
  BY EpochShape
<1>2. s \in Nat /\ s <= S /\ s > 0 /\ s \in 0..Scatters
  BY <1>1
<1>3. DueIn(3 * s + 1, 3 * s + 2) \subseteq (IF s = 0 THEN {} ELSE IF s <= Turn THEN {<<"ah", s - 1>>} ELSE {<<"aTg", Scatters - s>>})
  BY <1>2, TableGAT
<1>4. \A l : ~IsGhost(<<"ah", l>>) /\ ~IsGhost(<<"aTg", l>>) /\ ~IsGhost(<<"grad", l>>)
  BY DEF IsGhost
<1>5. CASE s <= Turn
  <2>1. c.dir = "FORWARD" /\ c.layer = s /\ DirOf(s) = "FORWARD" /\ LayerOf(s) = s
    BY <1>1, <1>2, <1>5, AtPhase
  <2>2. PICK l \in Nat : l = s - 1 /\ l \in 0..L - 1 /\ s = l + 1
    <3>1. s - 1 \in Nat /\ s - 1 \in 0..L - 1 /\ s = s - 1 + 1
      BY <1>1, <1>2, <1>5
    <3> QED BY <3>1
  <2>3. GatherGAT(c) = Phase(Saved("z", l) \cup Saved("A", 0), With("z", l, "fg_z", l), {}, Saved("ah", l))
    BY <2>1, <2>2, SMT DEF GatherGAT
  <2>4. Saved("z", l) = {<<"z", l>>} /\ Saved("A", 0) = {<<"A", 0>>} /\ Saved("ah", l) = {<<"ah", l>>}
        /\ Saved("az", l) = {<<"az", l>>} /\ Saved("grad", l) = {<<"grad", l>>}
    BY SavedIs
  <2>5. /\ GatherGAT(c).own = {<<"z", l>>, <<"A", 0>>} /\ GatherGAT(c).inn = With("z", l, "fg_z", l)
        /\ GatherGAT(c).out = {} /\ GatherGAT(c).writes = {<<"ah", l>>}
    BY <2>3, <2>4, PhaseFields
  <2>6. Owns(<<"z", l>>, 3 * s + 1) /\ Owns(<<"A", 0>>, 3 * s + 1)
    <3>1. Saves(<<"z", l>>) /\ Due(<<"z", l>>) = 3 * l + 2 /\ Saves(<<"A", 0>>) /\ Due(<<"A", 0>>) = 3
      BY <1>1, <2>2, SavesGAT, DueGATIs
    <3>2. 3 * l + 2 < 3 * s + 1 /\ 3 * l + 2 \in Int /\ 3 * s + 1 \in Int /\ 3 < 3 * s + 1 /\ 3 \in Int
      BY <2>2
    <3> QED BY <3>1, <3>2, OwnsIf
  <2>7. SendOf(s) = <<"z", l>> /\ StoreOf(s) = <<"fg_z", l>> /\ s \in 1..s
    <3>1. SendIsAt(s, s, <<"z", s - 1>>, <<"fg_z", s - 1>>)
      BY <2>1, SendIs
    <3> QED BY <1>2, <2>1, <2>2, <3>1 DEF SendIsAt
  <2>8. \A w \in GatherGAT(c).inn : w.own = SendOf(s) /\ w.ghost = StoreOf(s)
    BY <2>5, <2>7, WithIs
  <2>9. DueIn(3 * s + 1, 3 * s + 2) \subseteq {<<"ah", l>>}
    BY <1>2, <1>3, <1>5, <2>2
  <2>10. CASE IsTurn(conf.gnn, conf.numLayers, c)
    <3>1. s = Turn
      BY <1>1, <2>1, <2>10 DEF IsTurn
    <3>2. PredictGAT(c) = Phase(Saved("az", l), {}, {}, Saved("grad", l))
      BY <2>1, <2>2, SMT DEF PredictGAT
    <3>3. PredictGAT(c).own = {<<"az", l>>} /\ PredictGAT(c).writes = {<<"grad", l>>}
      BY <2>4, <3>2, PhaseFields
    <3>4. ph = Phase(GatherGAT(c).own \cup PredictGAT(c).own, GatherGAT(c).inn,
                      GatherGAT(c).out, GatherGAT(c).writes \cup PredictGAT(c).writes)
      BY <2>10, SMT DEF Gathering
    <3>5. /\ ph.own = GatherGAT(c).own \cup PredictGAT(c).own /\ ph.inn = GatherGAT(c).inn
          /\ ph.out = GatherGAT(c).out /\ ph.writes = GatherGAT(c).writes \cup PredictGAT(c).writes
      BY <3>4, PhaseFields
    <3>6. Owns(<<"az", l>>, 3 * s + 1)
      <4>1. Saves(<<"az", l>>) /\ Due(<<"az", l>>) = 3 * (l + 1)
        BY <1>1, <2>2, SavesGAT, DueGATIs
      <4>2. 3 * (l + 1) < 3 * s + 1 /\ 3 * (l + 1) \in Int /\ 3 * s + 1 \in Int
        BY <2>2
      <4> QED BY <4>1, <4>2, OwnsIf
    <3>7. DueIn(3 * s + 2, 3 * (s + 1)) \subseteq {<<"grad", l>>}
      <4>1. DueIn(3 * s + 2, 3 * (s + 1)) \subseteq (IF s < Turn THEN {<<"z", s>>}
                                                     ELSE IF s < Scatters THEN {<<"grad", Scatters - 1 - s>>} ELSE {})
        BY <1>2, TableGAT
      <4>2. ~(s < Turn) /\ s < Scatters /\ Scatters - 1 - s = l
        BY <1>1, <1>2, <2>2, <3>1
      <4> QED BY <4>1, <4>2
    <3>8. DueIn(3 * s + 1, 3 * (s + 1)) \subseteq {<<"ah", l>>, <<"grad", l>>}
      <4>1. \A t \in DueIn(3 * s + 1, 3 * (s + 1)) : Due(t) \in Int /\ 3 * s + 1 <= Due(t) /\ Due(t) < 3 * (s + 1)
        BY DueInt DEF DueIn, Saves
      <4>2. \A t \in DueIn(3 * s + 1, 3 * (s + 1)) : Due(t) < 3 * s + 2 \/ 3 * s + 2 <= Due(t)
        BY <1>2, <4>1
      <4>3. \A t \in DueIn(3 * s + 1, 3 * (s + 1)) : t \in DueIn(3 * s + 1, 3 * s + 2) \/ t \in DueIn(3 * s + 2, 3 * (s + 1))
        BY <4>2 DEF DueIn
      <4> QED BY <2>9, <3>7, <4>3
    <3>9. GatherReads(ph, s)
      BY <2>1, <2>5, <2>7, <2>8, <3>5 DEF GatherReads
    <3>10. \A t : t \in ph.own => t = <<"z", l>> \/ t = <<"A", 0>> \/ t = <<"az", l>>
      BY <2>5, <3>3, <3>5
    <3>11. \A t : t \in ph.writes <=> t = <<"ah", l>> \/ t = <<"grad", l>>
      BY <2>5, <3>3, <3>5
    <3>12. \A t \in ph.own : Owns(t, 3 * s + 1)
      BY <2>6, <3>6, <3>10
    <3>13. \A t \in ph.writes : ~IsGhost(t)
      <4>1. ~IsGhost(<<"ah", l>>) /\ ~IsGhost(<<"grad", l>>)
        BY <1>4
      <4> QED BY <3>11, <4>1
    <3>14. DueIn(3 * s + 1, 3 * (s + 1)) \subseteq ph.writes
      BY <3>8, <3>11
    <3>15. Fits(ph, 3 * s + 1, 3 * (s + 1))
      BY <3>12, <3>13, <3>14 DEF Fits
    <3> QED BY <2>10, <3>9, <3>15
  <2>11. CASE ~IsTurn(conf.gnn, conf.numLayers, c)
    <3>1. ph = GatherGAT(c)
      BY <2>11, SMT DEF Gathering
    <3>2. GatherReads(ph, s)
      BY <2>1, <2>5, <2>7, <2>8, <3>1 DEF GatherReads
    <3> QED BY <1>4, <2>5, <2>6, <2>9, <2>11, <3>1, <3>2 DEF Fits
  <2> QED BY <2>10, <2>11
<1>6. CASE ~(s <= Turn)
  <2>1. c.dir = "BACKWARD" /\ c.layer = S + 1 - s /\ DirOf(s) = "BACKWARD" /\ LayerOf(s) = S + 1 - s
    BY <1>1, <1>2, <1>6, AtPhase
  <2>2. PICK l \in Nat : l = S - s /\ l \in 0..L - 1 /\ l = S + 1 - s - 1 /\ l + 1 \in 1..s /\ l + 1 <= L
    <3>1. S - s \in Nat /\ S - s \in 0..L - 1 /\ S - s = S + 1 - s - 1 /\ S - s + 1 \in 1..s /\ S - s + 1 <= L
      BY <1>1, <1>2, <1>6
    <3> QED BY <3>1
  <2>3. ~IsTurn(conf.gnn, conf.numLayers, c)
    BY <2>1 DEF IsTurn
  <2>4. ph = Phase(Saved("dA", l), With("z", l, "fg_z", l), With("grad", l, "bg_d", l), Saved("aTg", l))
    <3>1. ph = GatherGAT(c)
      BY <2>3, SMT DEF Gathering
    <3> QED BY <2>1, <2>2, <3>1, SMT DEF GatherGAT
  <2>5. Saved("dA", l) = {<<"dA", l>>} /\ Saved("aTg", l) = {<<"aTg", l>>}
    BY SavedIs
  <2>6. /\ ph.own = {<<"dA", l>>} /\ ph.inn = With("z", l, "fg_z", l)
        /\ ph.out = With("grad", l, "bg_d", l) /\ ph.writes = {<<"aTg", l>>}
    BY <2>4, <2>5, PhaseFields
  <2>7. Owns(<<"dA", l>>, 3 * s + 1)
    <3>1. Saves(<<"dA", l>>) /\ Due(<<"dA", l>>) = 3 * (Scatters - l)
      BY <1>1, <2>2, SavesGAT, DueGATIs
    <3>2. 3 * (Scatters - l) < 3 * s + 1 /\ 3 * (Scatters - l) \in Int /\ 3 * s + 1 \in Int
      BY <1>1, <1>2, <2>2
    <3> QED BY <3>1, <3>2, OwnsIf
  <2>8. SendOf(s) = <<"grad", l>> /\ StoreOf(s) = <<"bg_d", l>> /\ s \in 1..s
    <3>1. \A k : SendIsAt(s, k, <<"grad", k - 1>>, <<"bg_d", k - 1>>)
      BY <2>1, SendIs
    <3>2. PICK k : k = LayerOf(s) /\ k - 1 = l
      BY <2>1, <2>2
    <3> QED BY <1>2, <3>1, <3>2 DEF SendIsAt
  <2>9. PICK r \in 1..s : r = l + 1 /\ r - 1 = l
    BY <2>2
  <2>10. DirOf(r) = "FORWARD" /\ SendOf(r) = <<"z", l>> /\ StoreOf(r) = <<"fg_z", l>>
    <3>1. DirOf(r) = "FORWARD" /\ LayerOf(r) = r
      BY <1>1, <2>2, <2>9 DEF DirOf, LayerOf
    <3>2. SendIsAt(r, r, <<"z", r - 1>>, <<"fg_z", r - 1>>)
      BY <3>1, SendIs
    <3> QED BY <2>9, <3>1, <3>2 DEF SendIsAt
  <2>11. GatherReads(ph, s)
    <3>1. \A w \in ph.inn : DirOf(r) = "FORWARD" /\ w.own = SendOf(r) /\ w.ghost = StoreOf(r)
      BY <2>6, <2>10, WithIs
    <3>2. \A w \in ph.out : DirOf(s) = "BACKWARD" /\ w.own = SendOf(s) /\ w.ghost = StoreOf(s)
      BY <2>1, <2>6, <2>8, WithIs
    <3> QED BY <2>8, <2>9, <3>1, <3>2 DEF GatherReads
  <2>12. DueIn(3 * s + 1, 3 * s + 2) \subseteq {<<"aTg", l>>}
    BY <1>1, <1>2, <1>3, <1>6, <2>2
  <2> QED BY <1>4, <2>3, <2>6, <2>7, <2>11, <2>12 DEF Fits
<1> QED BY <1>5, <1>6

\* The chunk as NNCompute gets it for a vertex phase after scatter phase s.
AppliedAt(c, s, d) ==
  /\ d \in Chunk /\ d.vertex = TRUE /\ d.epoch = c.epoch
  /\ s <= Turn => d.dir = "FORWARD" /\ d.layer = s
  /\ ~(s <= Turn) => d.dir = "BACKWARD" /\ d.layer = Scatters - s

LEMMA AppliedIs ==
  ASSUME conf \in Confs, NEW c \in Chunk, NEW s \in 0..Scatters, Between(c, s),
         conf.gnn = "GAT" => s # Turn, NEW d, d = Applied(c)
  PROVE  AppliedAt(c, s, d)
<1> USE DEF AppliedAt
<1>0. PICK S \in Nat : S = Scatters
  BY EpochShape
<1>1. PICK b : b = [c EXCEPT !.vertex = TRUE]
  OBVIOUS
<1>2. AsVertex(c, b) /\ b.vertex = TRUE
  BY <1>1, VertexChunk DEF Chunk
<1>3. CASE s <= Turn
  <2>1. c.dir = "FORWARD" /\ c.layer = s
    BY <1>0, <1>3, AtPhase
  <2>2. d = b
    BY <1>1, <2>1 DEF Applied
  <2> QED BY <1>2, <1>3, <2>1, <2>2 DEF AsVertex
<1>4. CASE ~(s <= Turn)
  <2>1. c.dir # "FORWARD"
    BY <1>0, <1>4, AtPhase
  <2>2. d = Inc(b)
    BY <1>1, <2>1 DEF Applied
  <2>3. d \in Chunk /\ d.epoch = c.epoch /\ d.dir = "BACKWARD" /\ d.layer = Scatters - s /\ d.vertex = TRUE
    <3>1. AsVertex(c, b)
      BY <1>2
    <3>2. PICK e : e = Inc(b)
      OBVIOUS
    <3>3. BackAt(s, e) /\ e \in Chunk /\ e.epoch = c.epoch
      BY <2>1, <3>1, <3>2, BackwardNext
    <3> QED BY <2>2, <3>2, <3>3 DEF BackAt
  <2> QED BY <1>4, <2>3
<1> QED BY <1>3, <1>4

\* A vertex phase writes all that is due until the next scatter phase.
LEMMA VertexFitsGCN ==
  ASSUME conf \in Confs, conf.gnn = "GCN", NEW c \in Chunk, NEW s \in 0..Scatters, Between(c, s),
         NEW d, d = Applied(c), NEW ph, ph = NNCompute(conf.build, conf.gnn, conf.numLayers, d)
  PROVE  Fits(ph, 3 * s + 2, 3 * (s + 1)) /\ ph.inn = {} /\ ph.out = {}
<1>0. AppliedAt(c, s, d)
  BY AppliedIs
<1>1. PICK L \in Nat, S \in Nat : L = conf.numLayers /\ S = Scatters /\ L > 1 /\ S = 2 * L - 2 /\ Turn = L - 1
  BY EpochShape, ScatterFacts
<1>2. s \in Nat /\ s <= S /\ d \in Chunk /\ d.vertex = TRUE /\ d.dir \in PropType
  <2>1. s \in Nat /\ s <= S
    BY <1>1
  <2>2. d \in Chunk /\ d.vertex = TRUE
    BY <1>0 DEF AppliedAt
  <2> QED BY <2>1, <2>2 DEF Chunk
<1>3. DueIn(3 * s + 2, 3 * (s + 1)) \subseteq (IF s < Turn THEN {<<"z", s>>, <<"h", s>>}
                                               ELSE IF s < Scatters THEN {<<"grad", Scatters - s>>} ELSE {})
  BY TableGCN
<1>4. \A l : ~IsGhost(<<"z", l>>) /\ ~IsGhost(<<"h", l>>) /\ ~IsGhost(<<"grad", l>>)
  BY DEF IsGhost
<1>5. CASE s <= Turn
  <2>1. d.dir = "FORWARD" /\ d.layer = s
    BY <1>1, <1>5, <1>0 DEF AppliedAt
  <2>2. VertexAtGCN(d, s, ph)
    BY <1>2, <2>1, VertexPhaseGCN
  <2>3. /\ \A t : t \in ph.own <=> t = <<"ah", s>>
        /\ \A t : t \in ph.writes <=> IF s # conf.numLayers - 1 THEN t = <<"z", s>> \/ t = <<"h", s>>
                                      ELSE t = <<"grad", s>>
        /\ ph.inn = {} /\ ph.out = {}
    BY <2>1, <2>2 DEF VertexAtGCN
  <2>4. Owns(<<"ah", s>>, 3 * s + 2)
    <3>1. Saves(<<"ah", s>>) /\ Due(<<"ah", s>>) = 3 * s + 1
      <4>1. s \in 0..conf.numLayers - 1
        BY <1>1, <1>2, <1>5
      <4> QED BY <4>1, SavesGCN, DueGCNIs
    <3>2. 3 * s + 1 < 3 * s + 2 /\ 3 * s + 1 \in Int /\ 3 * s + 2 \in Int
      BY <1>2
    <3> QED BY <3>1, <3>2, OwnsIf
  <2>5. \A t \in DueIn(3 * s + 2, 3 * (s + 1)) :
          IF s # L - 1 THEN t = <<"z", s>> \/ t = <<"h", s>> ELSE t = <<"grad", s>>
    <3>1. CASE s # L - 1
      BY <1>1, <1>2, <1>3, <1>5, <3>1
    <3>2. CASE s = L - 1
      <4>1. ~(s < Turn) /\ s < Scatters /\ Scatters - s = s
        BY <1>1, <3>2
      <4> QED BY <1>3, <3>2, <4>1
    <3> QED BY <3>1, <3>2
  <2>6. DueIn(3 * s + 2, 3 * (s + 1)) \subseteq ph.writes
    BY <1>1, <2>3, <2>5
  <2>7. \A t \in ph.writes : ~IsGhost(t)
    BY <1>4, <2>3
  <2> QED BY <2>3, <2>4, <2>6, <2>7 DEF Fits
<1>6. CASE ~(s <= Turn)
  <2>1. PICK l \in Nat : l = S - s /\ l \in 0..L - 2 /\ d.layer = l /\ (l > 0 <=> s < S) /\ l <= s
    <3>1. S - s \in Nat /\ S - s \in 0..L - 2 /\ (S - s > 0 <=> s < S) /\ S - s <= s
      BY <1>1, <1>2, <1>6
    <3>2. d.layer = S - s
      BY <1>1, <1>6, <1>0 DEF AppliedAt
    <3> QED BY <3>1, <3>2
  <2>2. d.dir = "BACKWARD"
    BY <1>1, <1>6, <1>0 DEF AppliedAt
  <2>3. VertexAtGCN(d, l, ph)
    BY <1>2, <2>1, VertexPhaseGCN
  <2>4. /\ \A t \in ph.own : t = <<"aTg", l>> \/ t = <<"z", l>> \/ t = <<"h", l>> \/ t = <<"ah", l>>
        /\ \A t : t \in ph.writes <=> l > 0 /\ t = <<"grad", l>>
        /\ ph.inn = {} /\ ph.out = {}
    BY <2>2, <2>3 DEF VertexAtGCN
  <2>5. Saves(<<"aTg", l>>) /\ Saves(<<"z", l>>) /\ Saves(<<"h", l>>) /\ Saves(<<"ah", l>>)
    <3>1. l \in 0..conf.numLayers - 2 /\ l \in 0..conf.numLayers - 1
      BY <1>1, <2>1
    <3> QED BY <3>1, SavesGCN
  <2>6. /\ Due(<<"aTg", l>>) = 3 * (S - l) + 1 /\ Due(<<"z", l>>) = 3 * l + 2
        /\ Due(<<"h", l>>) = 3 * l + 2 /\ Due(<<"ah", l>>) = 3 * l + 1
    BY <1>1, DueGCNIs
  <2>7. /\ 3 * (S - l) + 1 < 3 * s + 2 /\ 3 * l + 2 < 3 * s + 2 /\ 3 * l + 1 < 3 * s + 2
        /\ 3 * (S - l) + 1 \in Int /\ 3 * l + 2 \in Int /\ 3 * l + 1 \in Int /\ 3 * s + 2 \in Int
    <3>1. l < s
      BY <1>1, <1>2, <1>6, <2>1
    <3>2. S - l = s
      BY <1>1, <1>2, <2>1
    <3> QED BY <1>2, <3>1, <3>2
  <2>8. Owns(<<"aTg", l>>, 3 * s + 2) /\ Owns(<<"z", l>>, 3 * s + 2) /\ Owns(<<"h", l>>, 3 * s + 2) /\ Owns(<<"ah", l>>, 3 * s + 2)
    BY <2>5, <2>6, <2>7, OwnsIf
  <2>9. \A t \in DueIn(3 * s + 2, 3 * (s + 1)) : l > 0 /\ t = <<"grad", l>>
    <3>1. ~(s < Turn) /\ Scatters - s = l /\ (s < Scatters <=> l > 0)
      BY <1>1, <1>2, <1>6, <2>1
    <3> QED BY <1>3, <3>1
  <2> QED BY <1>4, <2>4, <2>8, <2>9 DEF Fits
<1> QED BY <1>5, <1>6

LEMMA VertexFitsGAT ==
  ASSUME conf \in Confs, conf.gnn = "GAT", NEW c \in Chunk, NEW s \in 0..Scatters, Between(c, s), s # Turn,
         NEW d, d = Applied(c), NEW ph, ph = NNCompute(conf.build, conf.gnn, conf.numLayers, d)
  PROVE  Fits(ph, 3 * s + 2, 3 * (s + 1)) /\ ph.inn = {} /\ ph.out = {}
<1>0. AppliedAt(c, s, d)
  BY AppliedIs
<1>1. PICK L \in Nat, S \in Nat : L = conf.numLayers /\ S = Scatters /\ L > 0 /\ S = 2 * L /\ Turn = L
  BY EpochShape
<1>2. s \in Nat /\ s <= S /\ d \in Chunk /\ d.vertex = TRUE /\ d.dir \in PropType
  <2>1. s \in Nat /\ s <= S
    BY <1>1
  <2>2. d \in Chunk /\ d.vertex = TRUE
    BY <1>0 DEF AppliedAt
  <2> QED BY <2>1, <2>2 DEF Chunk
<1>3. DueIn(3 * s + 2, 3 * (s + 1)) \subseteq (IF s < Turn THEN {<<"z", s>>}
                                               ELSE IF s < Scatters THEN {<<"grad", Scatters - 1 - s>>} ELSE {})
  BY TableGAT
<1>4. \A l : ~IsGhost(<<"z", l>>) /\ ~IsGhost(<<"grad", l>>)
  BY DEF IsGhost
<1>5. \A p : \A l \in 1..L - 1 : Owns(<<"h", l>>, p)
  <2>1. \A l \in 1..L - 1 : Saves(<<"h", l>>)
    BY <1>1, SavesGAT
  <2>2. \A l : Exempt(<<"h", l>>)
    BY DEF Exempt, NeverWritten
  <2> QED BY <2>1, <2>2 DEF Owns
<1>6. CASE s <= Turn
  <2>1. d.dir = "FORWARD" /\ d.layer = s /\ s < L
    BY <1>1, <1>2, <1>6, <1>0 DEF AppliedAt
  <2>2. VertexAtGAT(d, s, ph)
    BY <1>2, <2>1, VertexPhaseGAT
  <2>3. /\ \A t \in ph.own : s > 0 /\ (t = <<"ah", s - 1>> \/ t = <<"h", s>>)
        /\ \A t : t \in ph.writes <=> t = <<"z", s>>
        /\ ph.inn = {} /\ ph.out = {}
    BY <2>1, <2>2 DEF VertexAtGAT
  <2>4. ASSUME s > 0 PROVE Owns(<<"ah", s - 1>>, 3 * s + 2) /\ Owns(<<"h", s>>, 3 * s + 2)
    <3>1. PICK l \in Nat : l = s - 1 /\ l \in 0..L - 1 /\ 3 * (l + 1) + 1 < 3 * s + 2 /\ 3 * (l + 1) + 1 \in Int
      <4>1. s - 1 \in Nat /\ s - 1 \in 0..L - 1 /\ 3 * (s - 1 + 1) + 1 < 3 * s + 2 /\ 3 * (s - 1 + 1) + 1 \in Int
        BY <1>2, <2>1, <2>4
      <4> QED BY <4>1
    <3>2. Saves(<<"ah", l>>) /\ Due(<<"ah", l>>) = 3 * (l + 1) + 1
      BY <1>1, <3>1, SavesGAT, DueGATIs
    <3>3. Owns(<<"ah", l>>, 3 * s + 2)
      <4>1. 3 * s + 2 \in Int
        BY <1>2
      <4> QED BY <3>1, <3>2, <4>1, OwnsIf
    <3>4. s \in 1..L - 1
      BY <1>1, <1>2, <2>1, <2>4
    <3> QED BY <1>5, <3>1, <3>3, <3>4
  <2>5. DueIn(3 * s + 2, 3 * (s + 1)) \subseteq ph.writes
    <3>1. s < Turn
      BY <1>1, <2>1
    <3> QED BY <1>3, <2>3, <3>1
  <2> QED BY <1>4, <2>3, <2>4, <2>5 DEF Fits
<1>7. CASE ~(s <= Turn)
  <2>1. PICK l \in Nat : l = S - s /\ l \in 0..L - 1 /\ d.layer = l /\ (l > 0 <=> s < S) /\ l < s
    <3>1. S - s \in Nat /\ S - s \in 0..L - 1 /\ (S - s > 0 <=> s < S) /\ S - s < s
      BY <1>1, <1>2, <1>7
    <3>2. d.layer = S - s
      BY <1>1, <1>7, <1>0 DEF AppliedAt
    <3> QED BY <3>1, <3>2
  <2>2. d.dir = "BACKWARD"
    BY <1>1, <1>7, <1>0 DEF AppliedAt
  <2>3. VertexAtGAT(d, l, ph)
    BY <1>2, <2>1, VertexPhaseGAT
  <2>4. /\ \A t \in ph.own : t = <<"aTg", l>> \/ (l > 0 /\ (t = <<"ah", l - 1>> \/ t = <<"h", l>>))
        /\ \A t : t \in ph.writes <=> l > 0 /\ t = <<"grad", l - 1>>
        /\ ph.inn = {} /\ ph.out = {}
    BY <2>2, <2>3 DEF VertexAtGAT
  <2>5. Owns(<<"aTg", l>>, 3 * s + 2)
    <3>1. Saves(<<"aTg", l>>) /\ Due(<<"aTg", l>>) = 3 * (S - l) + 1
      BY <1>1, <2>1, SavesGAT, DueGATIs
    <3>2. 3 * (S - l) + 1 < 3 * s + 2 /\ 3 * (S - l) + 1 \in Int /\ 3 * s + 2 \in Int
      BY <1>1, <1>2, <2>1
    <3> QED BY <3>1, <3>2, OwnsIf
  <2>6. ASSUME l > 0 PROVE Owns(<<"ah", l - 1>>, 3 * s + 2) /\ Owns(<<"h", l>>, 3 * s + 2)
    <3>1. PICK k \in Nat : k = l - 1 /\ k \in 0..L - 1 /\ 3 * (k + 1) + 1 < 3 * s + 2 /\ 3 * (k + 1) + 1 \in Int
      <4>1. l - 1 \in Nat /\ l - 1 \in 0..L - 1 /\ 3 * (l - 1 + 1) + 1 < 3 * s + 2 /\ 3 * (l - 1 + 1) + 1 \in Int
        BY <1>2, <2>1, <2>6
      <4> QED BY <4>1
    <3>2. Saves(<<"ah", k>>) /\ Due(<<"ah", k>>) = 3 * (k + 1) + 1
      BY <1>1, <3>1, SavesGAT, DueGATIs
    <3>3. Owns(<<"ah", k>>, 3 * s + 2)
      <4>1. 3 * s + 2 \in Int
        BY <1>2
      <4> QED BY <3>1, <3>2, <4>1, OwnsIf
    <3>4. l \in 1..L - 1
      BY <2>1, <2>6
    <3> QED BY <1>5, <3>1, <3>3, <3>4
  <2>7. \A t \in DueIn(3 * s + 2, 3 * (s + 1)) : l > 0 /\ t = <<"grad", l - 1>>
    <3>1. ~(s < Turn) /\ Scatters - 1 - s = l - 1 /\ (s < Scatters <=> l > 0)
      BY <1>1, <1>2, <1>7, <2>1
    <3> QED BY <1>3, <3>1
  <2> QED BY <1>4, <2>4, <2>5, <2>6, <2>7 DEF Fits
<1> QED BY <1>6, <1>7

-----------------------------------------------------------------------------
(***************************************************************************)
(* Rounds.  The scatter phases of all epochs in one count: how many a      *)
(* server has behind it, how many a chunk has at least begun to send, and  *)
(* which one's values a server's next message belongs to.  A value that is *)
(* expected is not sent yet, in a batch, on the net or in the hands of a   *)
(* receiver (Owed), or counted: CountAt.  A server that has them all is    *)
(* owed those of the next round from then on (Closing).                    *)
(***************************************************************************)
Gap(n) == CHOOSE s \in 0..Scatters : \A i \in ChunkId : ChunkAt(n, i, s)
Passed(n) == (currEpoch[n] - 1) * Scatters + Gap(n)
Begun(n, i) == IF place[n][i] \in Scattered THEN Passed(n) + 1 ELSE Passed(n)

\* From the barrier at the end of a scatter phase on, the next one's values.
Closing(n) == scatter[n] \in {"barrier", "reset"}
Async == conf.build = "Lambda"
After(s) == IF s = Scatters THEN 1 ELSE s + 1
Expected(n) == IF Closing(n) THEN Passed(n) + 2 ELSE Passed(n) + 1
ExpectedDir(n) == DirOf(IF Closing(n) THEN After(Gap(n) + 1) ELSE After(Gap(n)))

\* The ghosts of n in that round, those of m among them, and the chunk that has them.
Wants(n) == Ghosts(conf.graph, n, ExpectedDir(n))
Wanted(n, m) == GhostMap(conf.graph, m, n, ExpectedDir(n))
Holds(m, j, v) == LocalId(conf.graph, m, v) \in Rows(m, j)

\* No server has stopped before the last epoch.  Once one has, told DONE, its last
\* barrier stands for any barrier of another server.
InStep == \A n \in Node : stage[n] \in {"halt", "done"} => currEpoch[n] = conf.numEpochs

\* Nobody has left a barrier that another server has not entered.
Together ==
  /\ InStep
  /\ \A n \in Node, m \in Node : entered[n] >= entered[m] - (IF where[m] = "" THEN 0 ELSE 1)
  /\ \A n \in Node : stage[n] = "done" => entered[n] = Base(conf.numEpochs, Scatters) + 1

DirInv == \A n \in Node : Popped(n) => currDir[n] = DirOf(Gap(n) + 1)

BatchOK(m, j, b) ==
  /\ b.to \in Node \ {m} /\ b.vtcs # {} /\ Expected(b.to) = Passed(m) + 1
  /\ \A v \in b.vtcs : v \in Wanted(b.to, m) /\ Holds(m, j, v)

TodoAt(m, j) ==
  /\ place[m][j] \notin {"send", "count"} => todo[m][j] = {}
  /\ \A b \in todo[m][j] : BatchOK(m, j, b)
  /\ \A b \in todo[m][j], d \in todo[m][j] : b.to = d.to /\ b # d => \A v \in b.vtcs : v \notin d.vtcs

\* A message with values that were sent in the round that its receiver expects.
InTime(n, msg) ==
  /\ msg.from \in Node \ {n}
  /\ \A x \in msg.rows, y \in msg.rows : x[1] = y[1] => x = y
  /\ \A x \in msg.rows :
       /\ x[1] \in Wanted(n, msg.from)
       /\ \A j \in ChunkId : Holds(msg.from, j, x[1]) =>
            /\ Begun(msg.from, j) = Expected(n)
            /\ \A b \in todo[msg.from][j] : b.to = n => x[1] \notin b.vtcs

Apart(a, b) == \A x \in a.rows, y \in b.rows : x[1] # y[1]

NetAt(m, n) ==
  \A k \in Places(net[m][n], "data") :
    /\ net[m][n][k].from = m /\ InTime(n, net[m][n][k])
    /\ \A l \in Places(net[m][n], "data") : k # l => Apart(net[m][n][k], net[m][n][l])

HandAt(n) ==
  \A msg \in hand[n] :
    /\ InTime(n, msg)
    /\ \A k \in Places(net[msg.from][n], "data") : Apart(msg, net[msg.from][n][k])
    /\ \A x \in hand[n] : x # msg => Apart(msg, x)

\* A server that has all values of a scatter phase gets no more of it.
Final(n) == DirOf(Gap(n) + 1)
ClosedAt(n) ==
  Closing(n) =>
    \A m \in Node \ {n}, j \in ChunkId : Begun(m, j) = Passed(n) =>
      \A v \in GhostMap(conf.graph, m, n, Final(n)) : ~Holds(m, j, v)

\* Where a value is that is expected and not stored yet.
Unsent(n, m, v) ==
  \E j \in ChunkId : /\ Holds(m, j, v)
                     /\ \/ Begun(m, j) < Expected(n)
                        \/ \E b \in todo[m][j] : b.to = n /\ v \in b.vtcs
OnNet(n, m, v) == \E k \in Places(net[m][n], "data") : \E x \in net[m][n][k].rows : x[1] = v
InHand(n, v) == \E msg \in hand[n] : \E x \in msg.rows : x[1] = v
Owed(n) ==
  {v \in Wants(n) :
     \/ InHand(n, v)
     \/ \E m \in Node \ {n} : (v \in Wanted(n, m) /\ Unsent(n, m, v)) \/ OnNet(n, m, v)}

CountAt(n) ==
  /\ ~Closing(n) =>
       /\ ghostVtcsRecvd[n] <= Cardinality(Wants(n)) - Cardinality(Owed(n))
       /\ ~Async => ghostVtcsRecvd[n] = Cardinality(Wants(n)) - Cardinality(Owed(n))
  /\ Closing(n) /\ ~Async => ghostVtcsRecvd[n] = Cardinality(Ghosts(conf.graph, n, Final(n)))

SendInv ==
  /\ \A m \in Node, j \in ChunkId : TodoAt(m, j)
  /\ \A m \in Node, n \in Node : NetAt(m, n)
  /\ \A n \in Node : HandAt(n) /\ ClosedAt(n) /\ CountAt(n)
RoundInv == Together /\ DirInv /\ SendInv

-----------------------------------------------------------------------------
(* The gap that a server is in.                                            *)

LEMMA BetweenOne ==
  ASSUME conf \in Confs, NEW c, NEW s \in 0..Scatters, NEW t \in 0..Scatters,
         Between(c, s), Between(c, t)
  PROVE  s = t
<1>1. Scatters \in Nat /\ Turn \in Nat /\ Turn < Scatters
  BY ScatterFacts
<1> QED BY <1>1 DEF Between, DirOf, LayerOf

LEMMA OneGap ==
  ASSUME conf \in Confs, NEW n \in Node, currEpoch[n] \in Int, NEW i \in ChunkId,
         NEW s \in 0..Scatters, NEW t \in 0..Scatters, ChunkAt(n, i, s), ChunkAt(n, i, t)
  PROVE  s = t
<1>1. Scatters \in Nat
  BY ScatterFacts
<1>2. CASE place[n][i] = "sch"
  <2>1. currEpoch[n] # currEpoch[n] + 1
    OBVIOUS
  <2> QED BY <1>2, <2>1 DEF ChunkAt, Scattered
<1>3. CASE place[n][i] \in {"AE", "GA", "AV"}
  BY <1>3, BetweenOne DEF ChunkAt, Scattered
<1>4. CASE place[n][i] \in Scattered \cup {"SC"}
  <2>1. s < Scatters /\ t < Scatters /\ Between(chunk[n][i], s + 1) /\ Between(chunk[n][i], t + 1)
    BY <1>4 DEF ChunkAt, Scattered
  <2>2. s + 1 \in 0..Scatters /\ t + 1 \in 0..Scatters
    BY <1>1, <2>1
  <2> QED BY <2>1, <2>2, BetweenOne
<1> QED BY <1>2, <1>3, <1>4 DEF ChunkAt

LEMMA GapIs ==
  ASSUME conf \in Confs, NEW n \in Node, currEpoch[n] \in Int, NEW s \in 0..Scatters,
         \A i \in ChunkId : ChunkAt(n, i, s)
  PROVE  Gap(n) = s
<1> DEFINE P(t) == \A i \in ChunkId : ChunkAt(n, i, t)
<1>1. PICK i \in ChunkId : TRUE
  BY ConfFacts
<1>2. \A t \in 0..Scatters : P(t) => t = s
  BY <1>1, OneGap
<1>3. P(s)
  OBVIOUS
<1>4. Gap(n) = CHOOSE t \in 0..Scatters : P(t)
  BY DEF Gap
<1> HIDE DEF P
<1> QED BY <1>2, <1>3, <1>4

LEMMA GapAt ==
  ASSUME AlignInv, NEW n \in Node
  PROVE  /\ Gap(n) \in 0..Scatters /\ currEpoch[n] \in Nat /\ Scatters \in Nat /\ conf \in Confs
         /\ \A i \in ChunkId : ChunkAt(n, i, Gap(n))
         /\ stage[n] = "running" => Running(n, Gap(n))
         /\ stage[n] # "running" => Gap(n) = Scatters /\ Resting(n)
<1>1. conf \in Confs /\ currEpoch[n] \in Nat /\ Scatters \in Nat /\ Aligned(n)
  BY AlignFacts, ScatterFacts
<1>2. CASE stage[n] = "running"
  <2>1. PICK s \in 0..Scatters : Running(n, s)
    BY <1>2, AlignFacts
  <2>2. \A i \in ChunkId : ChunkAt(n, i, s)
    BY <2>1 DEF Running
  <2>3. Gap(n) = s
    BY <1>1, <2>2, GapIs
  <2> QED BY <1>1, <1>2, <2>1, <2>2, <2>3
<1>3. CASE stage[n] # "running"
  <2>1. Resting(n)
    BY <1>1, <1>3 DEF Aligned
  <2>2. \A i \in ChunkId : ChunkAt(n, i, Scatters)
    BY <2>1 DEF Resting
  <2>3. Scatters \in 0..Scatters
    BY <1>1
  <2>4. Gap(n) = Scatters
    BY <1>1, <2>2, <2>3, GapIs
  <2> QED BY <1>1, <1>3, <2>1, <2>2, <2>3, <2>4
<1> QED BY <1>2, <1>3

GapOK(n) ==
  /\ Gap(n) \in 0..Scatters /\ currEpoch[n] \in Nat
  /\ \A i \in ChunkId : ChunkAt(n, i, Gap(n))
  /\ stage[n] = "running" => Running(n, Gap(n))
  /\ stage[n] # "running" => Gap(n) = Scatters /\ Resting(n)

GapsOK == \A n \in Node : GapOK(n)

LEMMA Gaps == AlignInv => GapsOK
BY GapAt DEF GapOK, GapsOK

LEMMA GapsNext == AlignInv' => GapsOK'
BY Gaps, PTL

GapFound ==
  \A n \in Node : \A s \in 0..Scatters : (\A i \in ChunkId : ChunkAt(n, i, s)) => Gap(n) = s

LEMMA GapsFound == AlignInv => GapFound
<1> SUFFICES ASSUME AlignInv, NEW n \in Node, NEW s \in 0..Scatters, \A i \in ChunkId : ChunkAt(n, i, s)
             PROVE  Gap(n) = s
  BY DEF GapFound
<1>1. conf \in Confs /\ currEpoch[n] \in Int
  BY AlignFacts
<1> QED BY <1>1, GapIs

LEMMA GapsFoundNext == AlignInv' => GapFound'
BY GapsFound, PTL

\* A step that leaves the chunks of a server leaves its gap.
LEMMA GapSame ==
  ASSUME AlignInv, AlignInv', conf' = conf, NEW n \in Node,
         chunk'[n] = chunk[n], place'[n] = place[n], currEpoch'[n] = currEpoch[n]
  PROVE  Gap(n)' = Gap(n)
<1>1. GapOK(n) /\ conf \in Confs
  BY Gaps, AlignFacts DEF GapsOK
<1>2. PICK s : s = Gap(n)
  OBVIOUS
<1>3. s \in 0..Scatters /\ \A i \in ChunkId : ChunkAt(n, i, s)
  BY <1>1, <1>2 DEF GapOK
<1>4. \A i \in ChunkId : ChunkAt(n, i, s)'
  BY <1>3, ChunkAtSame
<1>5. Node' = Node /\ ChunkId' = ChunkId /\ Scatters' = Scatters
  BY ConfSame
<1> QED BY <1>2, <1>3, <1>4, <1>5, GapsFoundNext DEF GapFound

LEMMA BarsApart ==
  ASSUME conf \in Confs, NEW e \in Nat, NEW s \in 0..Scatters, NEW t \in 0..Scatters,
         Base(e, s) = Base(e, t)
  PROVE  s = t
<1>1. Base(e, s) = Base(e, 0) + Bars(s) /\ Base(e, t) = Base(e, 0) + Bars(t) /\ Base(e, 0) \in Int
  BY BaseSplit
<1>2. Scatters \in Nat /\ Bars(s) \in Nat /\ Bars(t) \in Nat
  BY ScatterFacts
<1>3. Bars(s) = Bars(t)
  <2>1. \A a \in Int, x \in Nat, y \in Nat : a + x = a + y => x = y
    OBVIOUS
  <2> QED BY <1>1, <1>2, <2>1
<1> QED BY <1>2, <1>3 DEF Bars

\* A step of a running server that enters no barrier and leaves none.
LEMMA GapStill ==
  ASSUME AlignInv, AlignInv', conf' = conf, NEW n \in Node,
         stage[n] = "running", stage'[n] = "running", currEpoch'[n] = currEpoch[n],
         entered'[n] = entered[n], where'[n] = where[n], schBlock'[n] = schBlock[n],
         scatter'[n] = scatter[n], scBlock'[n] = scBlock[n]
  PROVE  Gap(n)' = Gap(n)
<1>1. GapOK(n) /\ conf \in Confs
  BY Gaps, AlignFacts DEF GapsOK
<1>2. Node' = Node /\ Scatters' = Scatters /\ \A e, s : Base(e, s)' = Base(e, s)
  BY ConfSame
<1>4. GapOK(n)'
  BY <1>2, GapsNext DEF GapsOK
<1>5. PICK s : s = Gap(n)
  OBVIOUS
<1>6. PICK t : t = Gap(n)'
  OBVIOUS
<1>7. PICK e : e = currEpoch[n]
  OBVIOUS
<1>8. s \in 0..Scatters /\ e \in Nat /\ entered[n] = Base(e, s) + Extra(n)
  BY <1>1, <1>5, <1>7 DEF GapOK, Running
<1>9. t \in 0..Scatters /\ entered'[n] = Base(e, t)' + Extra(n)'
  BY <1>2, <1>4, <1>6, <1>7 DEF GapOK, Running
<1>10. Base(e, t)' = Base(e, t)
  BY <1>2
<1>11. Extra(n)' = Extra(n)
  BY DEF Extra, Bars
<1>12. Extra(n) \in Int /\ Base(e, s) \in Int /\ Base(e, t) \in Int
  BY <1>1, <1>8, <1>9, ExtraInt, BaseFacts
<1>13. Base(e, s) = Base(e, t)
  BY <1>8, <1>9, <1>10, <1>11, <1>12
<1>14. s = t
  BY <1>1, <1>8, <1>9, <1>13, BarsApart
<1> QED BY <1>5, <1>6, <1>14

-----------------------------------------------------------------------------
(* How far servers are apart.                                              *)

\* The scatter phases up to phase s of epoch e, and with them the barriers.
RoundsOf(S, e, s) == (e - 1) * S + s
BarsUpTo(b, e, p) == 1 + e + b * p

LEMMA EpochOrder ==
  ASSUME NEW S \in Nat, NEW e \in Nat, NEW f \in Nat, NEW s \in 0..S, NEW t \in 0..S,
         (e - 1) * S + s > (f - 1) * S + t
  PROVE  e >= f /\ (t = S => e >= f + 1)
<1> DEFINE E == e - 1
           F == f - 1
<1>1. ASSUME E < F PROVE FALSE
  <2>1. PICK d \in Nat : F = E + 1 + d
    <3>1. F - E - 1 \in Nat /\ F = E + 1 + (F - E - 1)
      BY <1>1
    <3> QED BY <3>1
  <2>2. F * S = E * S + S + d * S /\ d * S >= 0 /\ E * S \in Int
    BY <2>1
  <2> QED BY <2>2
<1>2. E = F => s > t
  OBVIOUS
<1> QED BY <1>1, <1>2

\* Barriers of a server against those of another one with more scatter phases behind it.
LEMMA BarrierOrder ==
  ASSUME NEW b \in {1, 2}, NEW S \in Nat, NEW e \in Nat, NEW f \in Nat, NEW s \in 0..S, NEW t \in 0..S,
         NEW p \in Int, NEW q \in Int, p = RoundsOf(S, e, s), q = RoundsOf(S, f, t)
  PROVE  /\ BarsUpTo(b, e, p) < BarsUpTo(b, f, q) + b => p <= q
         /\ BarsUpTo(b, e, p) <= BarsUpTo(b, f, q) + b => p <= q + 1 /\ (t = S => p <= q)
<1>1. p > q => e >= f /\ (t = S => e >= f + 1)
  BY EpochOrder DEF RoundsOf
<1>2. CASE b = 1
  BY <1>1, <1>2 DEF BarsUpTo
<1>3. CASE b = 2
  BY <1>1, <1>3 DEF BarsUpTo
<1> QED BY <1>2, <1>3

LEMMA BasePassed ==
  ASSUME conf \in Confs, NEW e \in Nat, NEW s \in 0..Scatters
  PROVE  Base(e, s) = 1 + e + Bars(1) * ((e - 1) * Scatters + s)
<1> DEFINE S == Scatters
<1>1. S \in Nat
  BY ScatterFacts
<1> HIDE DEF S
<1>2. (e - 1) * (S + 1) + s = (e - 1) + ((e - 1) * S + s)
  BY <1>1
<1>3. (e - 1) * (2 * S + 1) + 2 * s = (e - 1) + 2 * ((e - 1) * S + s)
  BY <1>1
<1>4. (e - 1) * S \in Int
  BY <1>1
<1>5. CASE conf.build = "Lambda"
  <2>1. Base(e, s) = 2 + (e - 1) * (S + 1) + s /\ Bars(1) = 1
    BY <1>5 DEF Base, BarsOfEpoch, Bars, S
  <2> QED BY <1>1, <1>2, <1>4, <2>1 DEF S
<1>6. CASE conf.build # "Lambda"
  <2>1. Base(e, s) = 2 + (e - 1) * (2 * S + 1) + 2 * s /\ Bars(1) = 2
    BY <1>6 DEF Base, BarsOfEpoch, Bars, S
  <2> QED BY <1>1, <1>3, <1>4, <2>1 DEF S
<1> QED BY <1>5, <1>6

\* The barriers behind a server at the begin of its gap, and whether it waits in one.
Bar(n) == Base(currEpoch[n], Gap(n))
Inside(n) == IF where[n] = "" THEN 0 ELSE 1
Behind(n) == Closing(n) \/ Gap(n) = Scatters

LEMMA ExtraBounds ==
  ASSUME AlignInv, NEW n \in Node, stage[n] = "running"
  PROVE  /\ Bars(1) \in {1, 2} /\ Extra(n) \in Int /\ Inside(n) \in {0, 1}
         /\ Extra(n) < Bars(1) \/ (Extra(n) <= Bars(1) /\ Behind(n))
         /\ Extra(n) >= Inside(n)
         /\ Popped(n) /\ ~Async => Extra(n) >= Inside(n) + 1
<1>1. Running(n, Gap(n)) /\ Gap(n) \in 0..Scatters /\ currEpoch[n] \in Nat /\ conf \in Confs
  BY GapAt
<1>2. Blocking(n) /\ \A i \in ChunkId : ChunkAt(n, i, Gap(n))
  BY <1>1 DEF Running
<1>3. Bars(1) = (IF conf.build = "Lambda" THEN 1 ELSE 2)
  BY <1>1, ScatterFacts
<1>4. PICK i \in ChunkId : TRUE
  BY <1>1, ConfFacts
<1>5. Inside(n) \in {0, 1} /\ Bars(1) \in {1, 2}
  BY <1>3 DEF Inside
<1>6. CASE where[n] = "epoch" \/ ~schBlock[n]
  <2>1. Extra(n) = 1 /\ AllNext(n)
    BY <1>2, <1>6 DEF Extra, Blocking
  <2>2. place[n][i] = "sch" /\ chunk[n][i].epoch = currEpoch[n] + 1 /\ currEpoch[n] # currEpoch[n] + 1
    BY <1>1, <2>1 DEF AllNext
  <2>3. Gap(n) = Scatters
    BY <1>2, <2>2 DEF ChunkAt, Scattered
  <2>4. Behind(n)
    BY <2>3 DEF Behind
  <2>5. ~Popped(n)
    BY <2>1 DEF AllNext, Popped, Scattered
  <2> QED BY <1>5, <2>1, <2>4, <2>5
<1>7. CASE ~(where[n] = "epoch" \/ ~schBlock[n]) /\ (where[n] = "scatter" \/ scatter[n] = "reset")
  <2>1. Extra(n) = Bars(1)
    BY <1>7 DEF Extra
  <2>2. Behind(n)
    BY <1>2, <1>7 DEF Behind, Closing, Blocking
  <2>3. ~Async => Bars(1) = 2
    BY <1>3 DEF Async
  <2> QED BY <1>5, <2>1, <2>2, <2>3
<1>8. CASE /\ ~(where[n] = "epoch" \/ ~schBlock[n]) /\ ~(where[n] = "scatter" \/ scatter[n] = "reset")
           /\ where[n] = "begin" \/ ~scBlock[n]
  <2>1. Extra(n) = 1
    BY <1>8 DEF Extra
  <2>2. Bars(1) = 2
    BY <1>2, <1>3, <1>8 DEF Blocking
  <2>3. Popped(n) => where[n] # "begin"
    BY <1>2 DEF Blocking, Popped, Scattered
  <2>4. Popped(n) => Inside(n) = 0
    BY <1>2, <1>8, <2>3 DEF Inside, Blocking
  <2> QED BY <1>5, <2>1, <2>2, <2>4
<1>9. CASE /\ ~(where[n] = "epoch" \/ ~schBlock[n]) /\ ~(where[n] = "scatter" \/ scatter[n] = "reset")
           /\ ~(where[n] = "begin" \/ ~scBlock[n])
  <2>1. Extra(n) = 0
    BY <1>9 DEF Extra
  <2>2. where[n] = ""
    BY <1>2, <1>9 DEF Blocking
  <2>3. Inside(n) = 0
    BY <2>2 DEF Inside
  <2>4. ~(Popped(n) /\ ~Async)
    BY <1>2, <1>9 DEF Blocking, Async
  <2> QED BY <1>5, <2>1, <2>3, <2>4
<1> QED BY <1>6, <1>7, <1>8, <1>9

Started(n) == stage[n] # "new"

LEMMA InStepFacts ==
  ASSUME AlignInv, InStep, NEW n \in Node, stage[n] \notin {"new", "running"}
  PROVE  ~StoppedEarly(n)
<1>1. stage[n] \in {"halt", "done"} /\ conf \in Confs
  BY DEF AlignInv, AlignTypes
<1>2. currEpoch[n] = conf.numEpochs /\ conf.numEpochs \in Nat
  BY <1>1, ScatterFacts DEF InStep
<1> QED BY <1>2 DEF StoppedEarly

LEMMA EnteredFacts ==
  ASSUME AlignInv, Together, NEW n \in Node
  PROVE  /\ Bars(1) \in {1, 2} /\ Bar(n) \in Int /\ entered[n] \in Int /\ Inside(n) \in {0, 1}
         /\ entered[n] < Bar(n) + Bars(1) \/ (entered[n] <= Bar(n) + Bars(1) /\ Behind(n))
         /\ Started(n) => entered[n] - Inside(n) >= Bar(n)
         /\ ~Started(n) => currEpoch[n] = 0 /\ Gap(n) = Scatters
         /\ Popped(n) /\ ~Async => entered[n] - Inside(n) >= Bar(n) + 1
<1>1. GapOK(n) /\ conf \in Confs /\ Aligned(n) /\ entered[n] \in Int
  BY Gaps, AlignFacts DEF GapsOK, AlignInv, AlignTypes
<1>2. Bars(1) \in {1, 2} /\ Bar(n) \in Int /\ Inside(n) \in {0, 1} /\ Scatters \in 0..Scatters
  BY <1>1, ScatterFacts, BaseFacts DEF Bar, GapOK, Inside
<1>3. CASE stage[n] = "running"
  <2>1. /\ Extra(n) \in Int
        /\ Extra(n) < Bars(1) \/ (Extra(n) <= Bars(1) /\ Behind(n))
        /\ Extra(n) >= Inside(n)
        /\ Popped(n) /\ ~Async => Extra(n) >= Inside(n) + 1
    BY <1>3, ExtraBounds
  <2>2. entered[n] = Bar(n) + Extra(n)
    BY <1>1, <1>3 DEF GapOK, Running, Bar
  <2>3. Started(n)
    BY <1>3 DEF Started
  <2> QED BY <1>1, <1>2, <2>1, <2>2, <2>3
<1>4. ASSUME stage[n] # "running"
      PROVE  Gap(n) = Scatters /\ Behind(n) /\ ~Popped(n)
  <2>1. Gap(n) = Scatters /\ AllNext(n)
    BY <1>1, <1>4 DEF GapOK, Resting
  <2> QED BY <2>1 DEF Behind, AllNext, Popped, Scattered
<1>5. CASE stage[n] = "new"
  <2>1. currEpoch[n] = 0 /\ (entered[n] = 0 \/ entered[n] = 1) /\ ~Started(n)
    BY <1>1, <1>5 DEF Aligned, Started
  <2>2. Bar(n) = 1
    BY <1>1, <1>4, <1>5, <2>1, BaseFacts DEF Bar
  <2> QED BY <1>1, <1>2, <1>4, <1>5, <2>1, <2>2
<1>6. CASE stage[n] # "new" /\ stage[n] # "running"
  <2>1. /\ currEpoch[n] = conf.numEpochs /\ where[n] \in {"", "end"}
        /\ where[n] = "end" => entered[n] = Base(conf.numEpochs, Scatters) + 1
        /\ where[n] = "" /\ stage[n] = "halt" => entered[n] = Base(conf.numEpochs, Scatters)
    <3>1. (Finished(n) \/ StoppedEarly(n)) /\ where[n] \in {"", "end"}
      BY <1>1, <1>6 DEF Aligned
    <3>2. ~StoppedEarly(n)
      BY <1>1, <1>6, InStepFacts DEF Together
    <3> QED BY <3>1, <3>2 DEF Finished
  <2>2. stage[n] = "halt" \/ entered[n] = Base(conf.numEpochs, Scatters) + 1
    BY <1>1, <1>6 DEF Together, AlignInv, AlignTypes
  <2>3. Bar(n) = Base(conf.numEpochs, Scatters)
    BY <1>4, <1>6, <2>1 DEF Bar
  <2>4. (entered[n] = Bar(n) + 1) \/ (entered[n] = Bar(n) /\ where[n] = "")
    BY <2>1, <2>2, <2>3
  <2>5. (entered[n] = Bar(n) + 1) \/ (entered[n] = Bar(n) /\ Inside(n) = 0)
    BY <2>4 DEF Inside
  <2>6. Started(n) /\ Behind(n) /\ ~Popped(n)
    BY <1>4, <1>6 DEF Started
  <2> QED BY <1>1, <1>2, <2>5, <2>6
<1> QED BY <1>3, <1>5, <1>6

LEMMA PassedIs ==
  ASSUME AlignInv, NEW n \in Node
  PROVE  /\ Passed(n) \in Nat /\ Scatters \in Nat /\ Scatters > 1 /\ conf \in Confs
         /\ currEpoch[n] \in Nat /\ Gap(n) \in 0..Scatters
         /\ Passed(n) = RoundsOf(Scatters, currEpoch[n], Gap(n))
         /\ Bar(n) = BarsUpTo(Bars(1), currEpoch[n], Passed(n))
         /\ currEpoch[n] = 0 => Gap(n) = Scatters
         /\ currEpoch[n] = 0 /\ Gap(n) = Scatters => Passed(n) = 0
<1>1. GapOK(n) /\ conf \in Confs
  BY Gaps, AlignFacts DEF GapsOK
<1>2. Scatters \in Nat /\ Scatters > 1 /\ currEpoch[n] \in Nat /\ Gap(n) \in 0..Scatters
  BY <1>1, ScatterFacts DEF GapOK
<1>3. currEpoch[n] = 0 => Gap(n) = Scatters
  BY <1>1 DEF GapOK, Running
<1>4. Passed(n) = (currEpoch[n] - 1) * Scatters + Gap(n)
  BY DEF Passed
<1>5. currEpoch[n] = 0 => (currEpoch[n] - 1) * Scatters = -Scatters
  BY <1>2
<1>6. currEpoch[n] # 0 => (currEpoch[n] - 1) * Scatters \in Nat
  BY <1>2
<1>7. Passed(n) \in Nat /\ (currEpoch[n] = 0 => Passed(n) = 0)
  BY <1>2, <1>3, <1>4, <1>5, <1>6
<1>8. Bar(n) = 1 + currEpoch[n] + Bars(1) * Passed(n)
  BY <1>1, <1>2, <1>4, BasePassed DEF Bar
<1> QED BY <1>1, <1>2, <1>3, <1>4, <1>7, <1>8 DEF RoundsOf, BarsUpTo

LEMMA ClosingFacts ==
  ASSUME AlignInv, NEW n \in Node, Closing(n)
  PROVE  /\ Gap(n) < Scatters /\ stage[n] = "running"
         /\ \A i \in ChunkId : place[n][i] = "stash" /\ Begun(n, i) = Passed(n) + 1
<1>1. GapOK(n) /\ conf \in Confs /\ 0 \in ChunkId
  BY Gaps, AlignFacts, ConfFacts DEF GapsOK
<1>2. scatter[n] # "run"
  BY DEF Closing
<1>3. stage[n] = "running" /\ Running(n, Gap(n))
  BY <1>1, <1>2 DEF GapOK, Resting
<1>4. \A i \in ChunkId : place[n][i] = "stash"
  BY <1>2, <1>3 DEF Running, Blocking
<1>5. Gap(n) < Scatters
  BY <1>1, <1>4 DEF GapOK, ChunkAt, Scattered
<1> QED BY <1>3, <1>4, <1>5 DEF Begun, Scattered

\* A server in a barrier's wait says nothing new of the one that it waits for.
LEMMA TogetherFacts ==
  ASSUME Together, NEW n \in Node, NEW m \in Node
  PROVE  entered[n] >= entered[m] - Inside(m)
BY DEF Together, Inside

\* No server is a whole scatter phase ahead of another one that does not close it.
LEMMA InTurn ==
  ASSUME AlignInv, Together, NEW n \in Node, NEW m \in Node
  PROVE  /\ Passed(m) <= Passed(n) + 1 /\ (Closing(n) \/ Passed(m) <= Passed(n))
         /\ Popped(m) /\ ~Async => Passed(m) <= Passed(n)
<1>1. /\ Bars(1) \in {1, 2} /\ Bar(n) \in Int /\ entered[n] \in Int
      /\ entered[n] < Bar(n) + Bars(1) \/ (entered[n] <= Bar(n) + Bars(1) /\ Behind(n))
  BY EnteredFacts
<1>2. /\ Bar(m) \in Int /\ entered[m] \in Int /\ Inside(m) \in {0, 1}
      /\ Started(m) => entered[m] - Inside(m) >= Bar(m)
      /\ ~Started(m) => currEpoch[m] = 0 /\ Gap(m) = Scatters
      /\ Popped(m) /\ ~Async => entered[m] - Inside(m) >= Bar(m) + 1
  BY EnteredFacts
<1>3. entered[n] >= entered[m] - Inside(m)
  BY TogetherFacts
<1>4. /\ Passed(n) \in Nat /\ Scatters \in Nat /\ currEpoch[n] \in Nat /\ Gap(n) \in 0..Scatters
      /\ Passed(n) = RoundsOf(Scatters, currEpoch[n], Gap(n))
      /\ Bar(n) = BarsUpTo(Bars(1), currEpoch[n], Passed(n))
  BY PassedIs
<1>5. /\ Passed(m) \in Nat /\ currEpoch[m] \in Nat /\ Gap(m) \in 0..Scatters
      /\ Passed(m) = RoundsOf(Scatters, currEpoch[m], Gap(m))
      /\ Bar(m) = BarsUpTo(Bars(1), currEpoch[m], Passed(m))
      /\ currEpoch[m] = 0 /\ Gap(m) = Scatters => Passed(m) = 0
  BY PassedIs
<1>6. /\ Bar(m) < Bar(n) + Bars(1) => Passed(m) <= Passed(n)
      /\ Bar(m) <= Bar(n) + Bars(1) => Passed(m) <= Passed(n) + 1 /\ (Gap(n) = Scatters => Passed(m) <= Passed(n))
  <2>1. /\ BarsUpTo(Bars(1), currEpoch[m], Passed(m)) < BarsUpTo(Bars(1), currEpoch[n], Passed(n)) + Bars(1)
             => Passed(m) <= Passed(n)
        /\ BarsUpTo(Bars(1), currEpoch[m], Passed(m)) <= BarsUpTo(Bars(1), currEpoch[n], Passed(n)) + Bars(1)
             => Passed(m) <= Passed(n) + 1 /\ (Gap(n) = Scatters => Passed(m) <= Passed(n))
    <3>1. Passed(m) \in Int /\ Passed(n) \in Int
      BY <1>4, <1>5
    <3> QED BY <3>1, <1>1, <1>4, <1>5, BarrierOrder
  <2> QED BY <2>1, <1>4, <1>5
<1>7. CASE Started(m)
  <2>1. Bar(m) <= entered[n] /\ Bar(m) <= Bar(n) + Bars(1)
    BY <1>1, <1>2, <1>3, <1>7
  <2>2. Passed(m) <= Passed(n) + 1 /\ (Closing(n) \/ Passed(m) <= Passed(n))
    <3>1. CASE entered[n] < Bar(n) + Bars(1)
      BY <1>1, <1>2, <1>4, <1>5, <1>6, <2>1, <3>1
    <3>2. CASE Behind(n)
      BY <1>6, <2>1, <3>2 DEF Behind
    <3> QED BY <1>1, <3>1, <3>2
  <2>3. ASSUME Popped(m) /\ ~Async
        PROVE  Passed(m) <= Passed(n)
    <3>1. Bar(m) < Bar(n) + Bars(1)
      BY <1>1, <1>2, <1>3, <2>3
    <3> QED BY <1>6, <3>1
  <2> QED BY <2>2, <2>3
<1>8. CASE ~Started(m)
  <2>1. Passed(m) = 0
    BY <1>2, <1>5, <1>8
  <2> QED BY <1>4, <2>1
<1> QED BY <1>7, <1>8

LEMMA InExpected ==
  ASSUME AlignInv, Together, NEW n \in Node, NEW m \in Node
  PROVE  /\ Expected(n) \in Nat /\ Passed(m) \in Nat /\ Passed(m) + 1 <= Expected(n)
         /\ \A j \in ChunkId : Begun(m, j) \in Nat /\ Begun(m, j) <= Expected(n)
<1>1. Passed(n) \in Nat /\ Passed(m) \in Nat
  BY PassedIs
<1>2. Expected(n) = Passed(n) + 2 \/ (~Closing(n) /\ Expected(n) = Passed(n) + 1)
  BY DEF Expected
<1>3. Expected(n) \in Nat /\ Passed(m) + 1 <= Expected(n)
  BY <1>1, <1>2, InTurn
<1>4. \A j \in ChunkId : Begun(m, j) = Passed(m) \/ Begun(m, j) = Passed(m) + 1
  BY DEF Begun
<1> QED BY <1>1, <1>3, <1>4

\* The same round has one direction.
LEMMA SameRound ==
  ASSUME NEW S \in Nat, S > 0, NEW e \in Nat, NEW f \in Nat, NEW s \in 0..S, NEW t \in 0..S,
         RoundsOf(S, e, s) = RoundsOf(S, f, t)
  PROVE  s = t \/ (s = S /\ t = 0) \/ (s = 0 /\ t = S)
<1> DEFINE E == e - 1
           F == f - 1
<1>1. ASSUME NEW a \in Int, NEW b \in Int, NEW x \in 0..S, NEW y \in 0..S, a < b, a * S + x = b * S + y
      PROVE  x = S /\ y = 0
  <2>1. PICK d \in Nat : b = a + 1 + d
    <3>1. b - a - 1 \in Nat /\ b = a + 1 + (b - a - 1)
      BY <1>1
    <3> QED BY <3>1
  <2>2. b * S = a * S + S + d * S /\ d * S \in Nat /\ a * S \in Int
    BY <2>1
  <2> QED BY <1>1, <2>2
<1>2. E \in Int /\ F \in Int /\ E * S + s = F * S + t
  BY DEF RoundsOf
<1> HIDE DEF E, F
<1>3. CASE E < F
  BY <1>1, <1>2, <1>3
<1>4. CASE F < E
  BY <1>1, <1>2, <1>4
<1>5. CASE E = F
  <2>1. F * S \in Int
    BY <1>2
  <2> QED BY <1>2, <1>5, <2>1
<1> QED BY <1>2, <1>3, <1>4, <1>5

LEMMA AfterAgrees ==
  ASSUME AlignInv, NEW n \in Node, NEW m \in Node
  PROVE  /\ Passed(m) = Passed(n) => After(Gap(m)) = After(Gap(n))
         /\ Closing(n) /\ Passed(m) = Passed(n) + 1 => After(Gap(m)) = After(Gap(n) + 1)
<1>1. /\ Passed(n) \in Nat /\ Scatters \in Nat /\ Scatters > 1 /\ currEpoch[n] \in Nat /\ Gap(n) \in 0..Scatters
      /\ Passed(n) = RoundsOf(Scatters, currEpoch[n], Gap(n))
  BY PassedIs
<1>2. /\ Passed(m) \in Nat /\ currEpoch[m] \in Nat /\ Gap(m) \in 0..Scatters
      /\ Passed(m) = RoundsOf(Scatters, currEpoch[m], Gap(m))
  BY PassedIs
<1>3. ASSUME NEW s \in 0..Scatters,
             RoundsOf(Scatters, currEpoch[m], Gap(m)) = RoundsOf(Scatters, currEpoch[n], s)
      PROVE  After(Gap(m)) = After(s)
  <2>1. Gap(m) = s \/ (Gap(m) = Scatters /\ s = 0) \/ (Gap(m) = 0 /\ s = Scatters)
    BY <1>1, <1>2, <1>3, SameRound
  <2> QED BY <1>1, <2>1 DEF After
<1>4. ASSUME Passed(m) = Passed(n) PROVE After(Gap(m)) = After(Gap(n))
  BY <1>1, <1>2, <1>3, <1>4
<1>5. ASSUME Closing(n), Passed(m) = Passed(n) + 1 PROVE After(Gap(m)) = After(Gap(n) + 1)
  <2>1. Gap(n) < Scatters
    BY <1>5, ClosingFacts
  <2>2. Gap(n) + 1 \in 0..Scatters
    BY <1>1, <2>1
  <2>3. (currEpoch[n] - 1) * Scatters \in Int
    BY <1>1
  <2>4. RoundsOf(Scatters, currEpoch[n], Gap(n) + 1) = RoundsOf(Scatters, currEpoch[n], Gap(n)) + 1
    BY <1>1, <2>3 DEF RoundsOf
  <2>5. RoundsOf(Scatters, currEpoch[m], Gap(m)) = RoundsOf(Scatters, currEpoch[n], Gap(n) + 1)
    BY <1>1, <1>2, <1>5, <2>4
  <2> QED BY <1>3, <2>2, <2>5
<1> QED BY <1>4, <1>5

LEMMA DirAgrees ==
  ASSUME AlignInv, NEW n \in Node, NEW m \in Node, Expected(n) = Passed(m) + 1
  PROVE  ExpectedDir(n) = DirOf(After(Gap(m)))
<1>1. Passed(n) \in Nat /\ Passed(m) \in Nat
  BY PassedIs
<1>2. CASE Closing(n)
  <2>1. Passed(n) + 2 = Passed(m) + 1
    BY <1>2 DEF Expected
  <2>2. Passed(m) = Passed(n) + 1
    BY <1>1, <2>1
  <2> QED BY <1>2, <2>2, AfterAgrees DEF ExpectedDir
<1>3. CASE ~Closing(n)
  <2>1. Passed(n) + 1 = Passed(m) + 1
    BY <1>3 DEF Expected
  <2>2. Passed(m) = Passed(n)
    BY <1>1, <2>1
  <2> QED BY <1>3, <2>2, AfterAgrees DEF ExpectedDir
<1> QED BY <1>2, <1>3

-----------------------------------------------------------------------------
(* What a step leaves as it is.                                            *)

\* A receiver that expects what it did.
SameFor(n) == Expected(n)' = Expected(n) /\ ExpectedDir(n)' = ExpectedDir(n)

LEMMA HoldsSame ==
  ASSUME conf' = conf
  PROVE  \A m, j, v : Holds(m, j, v)' <=> Holds(m, j, v)
BY DEF Holds, Rows

LEMMA WantsSame ==
  ASSUME conf' = conf, NEW n, SameFor(n)
  PROVE  Wants(n)' = Wants(n) /\ \A m : Wanted(n, m)' = Wanted(n, m)
BY DEF Wants, Wanted, SameFor

LEMMA BatchKept ==
  ASSUME conf' = conf, NEW m \in Node, NEW j \in ChunkId, NEW b, BatchOK(m, j, b),
         SameFor(b.to), Passed(m)' = Passed(m)
  PROVE  BatchOK(m, j, b)'
<1>1. Node' = Node
  BY ConfSame
<1>2. b.to \in Node \ {m} /\ b.vtcs # {} /\ Expected(b.to) = Passed(m) + 1
  BY DEF BatchOK
<1>3. Expected(b.to)' = Passed(m)' + 1
  BY <1>2 DEF SameFor
<1>4. \A v \in b.vtcs : Wanted(b.to, m)' = Wanted(b.to, m) /\ (Holds(m, j, v)' <=> Holds(m, j, v))
  BY WantsSame, HoldsSame
<1>5. \A v \in b.vtcs : v \in Wanted(b.to, m) /\ Holds(m, j, v)
  BY DEF BatchOK
<1> QED BY <1>1, <1>2, <1>3, <1>4, <1>5 DEF BatchOK

LEMMA TodoKept ==
  ASSUME conf' = conf, NEW m \in Node, NEW j \in ChunkId, TodoAt(m, j), todo'[m][j] = todo[m][j],
         place'[m][j] \in {"send", "count"} \/ todo[m][j] = {},
         \A b \in todo[m][j] : SameFor(b.to) /\ Passed(m)' = Passed(m)
  PROVE  TodoAt(m, j)'
<1>1. \A b \in todo[m][j] : BatchOK(m, j, b)'
  BY BatchKept DEF TodoAt
<1> QED BY <1>1 DEF TodoAt

\* A message stays in time if its receiver expects what it did, the chunks that had its
\* values have begun what they had, and no batches have come to them.
InTimeSame(n, m, j) ==
  /\ Begun(m, j)' = Begun(m, j)
  /\ \A b \in todo'[m][j] : b.to = n => b \in todo[m][j]

Carried(msg, j) == \E x \in msg.rows : Holds(msg.from, j, x[1])

LEMMA InTimeKept ==
  ASSUME conf' = conf, NEW n \in Node, NEW msg, InTime(n, msg), SameFor(n),
         \A j \in ChunkId : Carried(msg, j) => InTimeSame(n, msg.from, j)
  PROVE  InTime(n, msg)'
<1>1. Node' = Node /\ ChunkId' = ChunkId
  BY ConfSame
<1>2. Wanted(n, msg.from)' = Wanted(n, msg.from)
  BY WantsSame
<1>3. \A j, v : Holds(msg.from, j, v)' <=> Holds(msg.from, j, v)
  BY HoldsSame
<1>4. \A x \in msg.rows : x[1] \in Wanted(n, msg.from)'
  BY <1>2 DEF InTime
<1>5. ASSUME NEW x \in msg.rows, NEW j \in ChunkId, Holds(msg.from, j, x[1])
      PROVE  /\ Begun(msg.from, j)' = Expected(n)'
             /\ \A b \in todo'[msg.from][j] : b.to = n => x[1] \notin b.vtcs
  <2>1. Begun(msg.from, j) = Expected(n) /\ \A b \in todo[msg.from][j] : b.to = n => x[1] \notin b.vtcs
    BY <1>5 DEF InTime
  <2>2. InTimeSame(n, msg.from, j)
    BY <1>5 DEF Carried
  <2> QED BY <2>1, <2>2 DEF InTimeSame, SameFor
<1> QED BY <1>1, <1>3, <1>4, <1>5 DEF InTime

\* All that m has for n stays.
SenderSame(n, m) == \A j \in ChunkId : InTimeSame(n, m, j)

LEMMA NetKept ==
  ASSUME conf' = conf, NEW m \in Node, NEW n \in Node, NetAt(m, n), net'[m][n] = net[m][n],
         \A k \in Places(net[m][n], "data") : InTime(n, net[m][n][k])'
  PROVE  NetAt(m, n)'
<1>1. SUFFICES ASSUME NEW k \in Places(net[m][n], "data")
               PROVE  /\ net'[m][n][k].from = m /\ InTime(n, net[m][n][k])'
                      /\ \A l \in Places(net[m][n], "data") : k # l => Apart(net'[m][n][k], net'[m][n][l])
  BY DEF NetAt
<1>2. PICK msg : msg = net[m][n][k]
  OBVIOUS
<1> QED BY DEF NetAt

LEMMA NetSame ==
  ASSUME conf' = conf, NEW m \in Node, NEW n \in Node, NetAt(m, n), net'[m][n] = net[m][n],
         SameFor(n), SenderSame(n, m)
  PROVE  NetAt(m, n)'
<1>1. ASSUME NEW k \in Places(net[m][n], "data")
      PROVE  InTime(n, net[m][n][k])'
  <2>1. PICK msg : msg = net[m][n][k]
    OBVIOUS
  <2>2. InTime(n, msg) /\ msg.from = m
    BY <2>1 DEF NetAt
  <2>3. InTime(n, msg)'
    BY <2>2, InTimeKept DEF SenderSame
  <2> QED BY <2>1, <2>3 DEF InTime
<1> QED BY <1>1, NetKept

LEMMA HandKept ==
  ASSUME NEW n \in Node, HandAt(n), hand'[n] = hand[n],
         \A msg \in hand[n] : InTime(n, msg)' /\ net'[msg.from][n] = net[msg.from][n]
  PROVE  HandAt(n)'
BY DEF HandAt

LEMMA HandSame ==
  ASSUME conf' = conf, NEW n \in Node, HandAt(n), hand'[n] = hand[n], SameFor(n),
         \A m \in Node : SenderSame(n, m) /\ net'[m][n] = net[m][n]
  PROVE  HandAt(n)'
<1>1. ASSUME NEW msg \in hand[n]
      PROVE  InTime(n, msg)' /\ net'[msg.from][n] = net[msg.from][n]
  <2>1. InTime(n, msg) /\ msg.from \in Node
    BY DEF HandAt, InTime
  <2> QED BY <2>1, InTimeKept DEF SenderSame
<1> QED BY <1>1, HandKept

LEMMA ClosedKept ==
  ASSUME conf' = conf, NEW n \in Node, ClosedAt(n),
         Closing(n)' => Closing(n) /\ Passed(n)' = Passed(n) /\ Gap(n)' = Gap(n),
         \A m \in Node, j \in ChunkId : Begun(m, j)' = Begun(m, j)
  PROVE  ClosedAt(n)'
<1>1. Node' = Node /\ ChunkId' = ChunkId
  BY ConfSame
<1>2. SUFFICES ASSUME Closing(n)', NEW m \in Node \ {n}, NEW j \in ChunkId,
                      Begun(m, j)' = Passed(n)', NEW v \in GhostMap(conf.graph, m, n, Final(n))'
               PROVE  ~Holds(m, j, v)'
  BY <1>1 DEF ClosedAt
<1>3. Closing(n) /\ Passed(n)' = Passed(n) /\ Gap(n)' = Gap(n) /\ Begun(m, j)' = Begun(m, j)
  BY <1>2
<1>4. Final(n)' = Final(n)
  BY <1>3 DEF Final, DirOf, Turn
<1>5. v \in GhostMap(conf.graph, m, n, Final(n))
  BY <1>2, <1>4
<1>6. ~Holds(m, j, v)
  BY <1>2, <1>3, <1>5 DEF ClosedAt
<1> QED BY <1>6, HoldsSame

LEMMA OwedKept ==
  ASSUME conf' = conf, NEW n \in Node, SameFor(n),
         \A v \in Wants(n) : InHand(n, v)' <=> InHand(n, v),
         \A m \in Node \ {n} : \A v \in Wants(n) :
            /\ OnNet(n, m, v)' <=> OnNet(n, m, v)
            /\ v \in Wanted(n, m) => (Unsent(n, m, v)' <=> Unsent(n, m, v))
  PROVE  Owed(n)' = Owed(n)
<1>1. Node' = Node
  BY ConfSame
<1>2. Wants(n)' = Wants(n) /\ \A m : Wanted(n, m)' = Wanted(n, m)
  BY WantsSame
<1> QED BY <1>1, <1>2 DEF Owed

LEMMA UnsentSame ==
  ASSUME conf' = conf, NEW n \in Node, NEW m \in Node, NEW v, SameFor(n),
         \A j \in ChunkId : Holds(m, j, v) => Begun(m, j)' = Begun(m, j) /\ todo'[m][j] = todo[m][j]
  PROVE  Unsent(n, m, v)' <=> Unsent(n, m, v)
<1>1. ChunkId' = ChunkId
  BY ConfSame
<1>2. \A j : Holds(m, j, v)' <=> Holds(m, j, v)
  BY HoldsSame
<1> QED BY <1>1, <1>2 DEF Unsent, SameFor

LEMMA OwedSame ==
  ASSUME conf' = conf, NEW n \in Node, SameFor(n), hand'[n] = hand[n],
         \A m \in Node : /\ net'[m][n] = net[m][n]
                         /\ \A j \in ChunkId : Begun(m, j)' = Begun(m, j) /\ todo'[m][j] = todo[m][j]
  PROVE  Owed(n)' = Owed(n)
<1>1. \A m \in Node, v \in Wants(n) : Unsent(n, m, v)' <=> Unsent(n, m, v)
  BY UnsentSame
<1>2. \A m \in Node, v \in Wants(n) : OnNet(n, m, v)' <=> OnNet(n, m, v)
  BY DEF OnNet
<1>3. \A v \in Wants(n) : InHand(n, v)' <=> InHand(n, v)
  BY DEF InHand
<1> QED BY <1>1, <1>2, <1>3, OwedKept

LEMMA CountKept ==
  ASSUME conf' = conf, NEW n \in Node, CountAt(n), SameFor(n), Owed(n)' = Owed(n),
         ghostVtcsRecvd'[n] = ghostVtcsRecvd[n],
         Closing(n)' <=> Closing(n), Closing(n) => Gap(n)' = Gap(n)
  PROVE  CountAt(n)'
<1>1. Wants(n)' = Wants(n)
  BY WantsSame
<1>2. Async' <=> Async
  BY DEF Async
<1>3. Closing(n) => Final(n)' = Final(n)
  BY DEF Final, DirOf, Turn
<1> QED BY <1>1, <1>2, <1>3 DEF CountAt

\* A server whose round and whose chunks' rounds a step leaves.
RoundSame(n) ==
  /\ Passed(n)' = Passed(n) /\ ExpectedDir(n)' = ExpectedDir(n)
  /\ Closing(n)' <=> Closing(n)
  /\ Closing(n) => Gap(n)' = Gap(n)
  /\ \A i \in ChunkId : Begun(n, i)' = Begun(n, i)

\* A receiver that a step leaves expecting and owed what it was.
Settled(n) == SameFor(n) /\ Owed(n)' = Owed(n)

\* A step that sends, stores and counts nothing and leaves all rounds.
Silent ==
  /\ conf' = conf /\ UNCHANGED <<todo, net, hand, ghostVtcsRecvd>>
  /\ \A n \in Node : RoundSame(n)
  /\ \A m \in Node, j \in ChunkId : place'[m][j] \in {"send", "count"} \/ todo[m][j] = {}

LEMMA SilentSettled == Silent => \A n \in Node : Settled(n)
<1>1. SUFFICES ASSUME Silent, NEW n \in Node PROVE Settled(n)
  OBVIOUS
<1>2. SameFor(n)
  BY <1>1 DEF Silent, SameFor, RoundSame, Expected
<1> QED BY <1>1, <1>2, OwedSame DEF Silent, RoundSame, Settled

LEMMA SendKept ==
  ASSUME SendInv, Silent
  PROVE  SendInv'
<1> USE DEF Silent
<1>1. Node' = Node /\ ChunkId' = ChunkId
  BY ConfSame
<1>2. \A n \in Node : SameFor(n) /\ Owed(n)' = Owed(n)
  BY SilentSettled DEF Settled
<1>3. \A n \in Node, m \in Node : SenderSame(n, m)
  BY DEF SenderSame, InTimeSame, RoundSame
<1>4. ASSUME NEW m \in Node, NEW j \in ChunkId
      PROVE  TodoAt(m, j)'
  <2>1. TodoAt(m, j) /\ \A b \in todo[m][j] : b.to \in Node
    BY DEF SendInv, TodoAt, BatchOK
  <2> QED BY <1>2, <2>1, TodoKept DEF RoundSame
<1>5. \A m \in Node, n \in Node : NetAt(m, n)'
  BY <1>2, <1>3, NetSame DEF SendInv
<1>6. \A n \in Node : HandAt(n)'
  BY <1>2, <1>3, HandSame DEF SendInv
<1>7. \A n \in Node : ClosedAt(n)'
  BY ClosedKept DEF SendInv, RoundSame
<1>8. \A n \in Node : CountAt(n)'
  BY <1>2, CountKept DEF SendInv, RoundSame
<1> QED BY <1>1, <1>4, <1>5, <1>6, <1>7, <1>8 DEF SendInv

LEMMA RoundStays ==
  ASSUME conf' = conf, NEW n \in Node, Gap(n)' = Gap(n), currEpoch'[n] = currEpoch[n],
         Closing(n)' <=> Closing(n),
         \A i \in ChunkId : place'[n][i] \in Scattered <=> place[n][i] \in Scattered
  PROVE  RoundSame(n)
<1>1. Scatters' = Scatters /\ ChunkId' = ChunkId
  BY ConfSame
<1>2. Passed(n)' = Passed(n)
  BY <1>1 DEF Passed
<1>3. ExpectedDir(n)' = ExpectedDir(n)
  <2>1. Closing(n) => ExpectedDir(n)' = ExpectedDir(n)
    BY <1>1 DEF ExpectedDir, DirOf, Turn, After
  <2>2. ~Closing(n) => ExpectedDir(n)' = ExpectedDir(n)
    BY <1>1 DEF ExpectedDir, DirOf, Turn, After
  <2> QED BY <2>1, <2>2
<1>4. \A i \in ChunkId : Begun(n, i)' = Begun(n, i)
  BY <1>2 DEF Begun, Scattered
<1> QED BY <1>2, <1>3, <1>4 DEF RoundSame

\* A step that leaves the chunks, and does not begin or end a closing.
LEMMA SilentStill ==
  ASSUME SendInv, AlignInv, AlignInv', conf' = conf,
         UNCHANGED <<chunk, place, todo, currEpoch, net, hand, ghostVtcsRecvd>>,
         \A n \in Node : Closing(n)' <=> Closing(n)
  PROVE  Silent
<1>1. \A n \in Node : RoundSame(n)
  BY GapSame, RoundStays
<1>2. \A m \in Node, j \in ChunkId : place'[m][j] \in {"send", "count"} \/ todo[m][j] = {}
  BY DEF SendInv, TodoAt
<1> QED BY <1>1, <1>2 DEF Silent

\* A step that moves one chunk of a running server, into the scatter phase or out of it.
LEMMA SilentMoved ==
  ASSUME SendInv, AlignInv, AlignInv', conf' = conf, Steady,
         UNCHANGED <<todo, net, hand, ghostVtcsRecvd>>,
         NEW n \in Node, NEW i \in ChunkId, NEW q \in Place, NEW c, InQueue(n, i, place[n][i]),
         Send(n, i, q, c), UNCHANGED entered,
         q \in Scattered <=> place[n][i] \in Scattered,
         q \in {"send", "count"} \/ todo[n][i] = {}
  PROVE  Silent
<1>1. chunk \in [Node -> [ChunkId -> Chunk]] /\ place \in [Node -> [ChunkId -> Place]]
  BY AlignFacts
<1>2. /\ \A m \in Node, j \in ChunkId : <<m, j>> # <<n, i>> => place'[m][j] = place[m][j]
      /\ \A m \in Node \ {n} : place'[m] = place[m] /\ chunk'[m] = chunk[m]
      /\ place'[n][i] = q
  BY <1>1 DEF Send
<1>3. stage[n] = "running" /\ stage' = stage
  BY DEF InQueue, Steady
<1>4. Gap(n)' = Gap(n)
  BY <1>3, GapStill DEF Steady
<1>5. \A m \in Node \ {n} : Gap(m)' = Gap(m)
  BY <1>2, GapSame DEF Steady
<1>6. \A m \in Node : Closing(m)' <=> Closing(m)
  BY DEF Steady, Closing
<1>7. \A m \in Node, j \in ChunkId : place'[m][j] \in Scattered <=> place[m][j] \in Scattered
  BY <1>2
<1>8. \A m \in Node : RoundSame(m)
  BY <1>4, <1>5, <1>6, <1>7, RoundStays DEF Steady
<1>9. \A m \in Node, j \in ChunkId : place'[m][j] \in {"send", "count"} \/ todo[m][j] = {}
  BY <1>2 DEF SendInv, TodoAt
<1> QED BY <1>8, <1>9 DEF Silent

-----------------------------------------------------------------------------
(* Together.                                                               *)

\* A server that has stopped stays so, in its last epoch.
LEMMA InStepStays ==
  ASSUME AlignInv, [Next]_vars, InStep'
  PROVE  InStep
<1> SUFFICES ASSUME NEW n \in Node, stage[n] \in {"halt", "done"}
             PROVE  stage'[n] \in {"halt", "done"} /\ currEpoch'[n] = currEpoch[n]
  BY ConfKept, ConfSame DEF InStep
<1>1. /\ stage \in [Node -> {"new", "running", "halt", "done"}] /\ Aligned(n)
      /\ currEpoch \in [Node -> 0..conf.numEpochs]
  BY DEF AlignInv, AlignTypes
<1>2. where[n] \in {"", "end"}
  BY <1>1 DEF Aligned
<1>3. CASE UNCHANGED <<stage, currEpoch>>
  BY <1>3
<1>4. ASSUME NEW m \in Node, Main(m)
      PROVE  stage'[n] \in {"halt", "done"} /\ currEpoch'[n] = currEpoch[n]
  <2>1. CASE LoadChunks(m)
    <3>1. m # n /\ stage' = [stage EXCEPT ![m] = "running"] /\ currEpoch' = currEpoch
      BY <1>2, <2>1 DEF LoadChunks, Leave, scheduler
    <3> QED BY <1>1, <3>1
  <2>2. CASE Done(m)
    <3>1. stage' = [stage EXCEPT ![m] = "done"] /\ currEpoch' = currEpoch
      BY <2>2 DEF Done, scheduler
    <3> QED BY <1>1, <3>1
  <2>3. CASE StartBarrier(m) \/ EndBarrier(m)
    BY <1>3, <2>3 DEF StartBarrier, EndBarrier, scheduler
  <2> QED BY <1>4, <2>1, <2>2, <2>3 DEF Main
<1>5. ASSUME NEW m \in Node, Schedule(m)
      PROVE  stage'[n] \in {"halt", "done"} /\ currEpoch'[n] = currEpoch[n]
  <2>1. CASE SchedHalt(m)
    <3>1. stage' = [stage EXCEPT ![m] = "halt"] /\ currEpoch' = currEpoch
      BY <2>1 DEF SchedHalt, scheduler
    <3> QED BY <1>1, <3>1
  <2>2. ASSUME NEW i \in ChunkId, SchedStart(m, i)
        PROVE  stage'[n] \in {"halt", "done"} /\ currEpoch'[n] = currEpoch[n]
    <3>1. /\ m # n /\ stage' = stage
          /\ currEpoch' = [currEpoch EXCEPT ![m] = @ + 1]
      BY <2>2 DEF SchedStart, Schedulable, InQueue, run
    <3> QED BY <1>1, <3>1
  <2>3. CASE SchedBarrier(m) \/ SchedUnblock(m) \/ \E i \in ChunkId : SchedPass(m, i)
    BY <1>3, <2>3 DEF SchedBarrier, SchedUnblock, SchedPass, run, scheduler
  <2> QED BY <1>5, <2>1, <2>2, <2>3 DEF Schedule
<1>6. ASSUME NEW m \in Node, Scatter(m)
      PROVE  UNCHANGED <<stage, currEpoch>>
  BY <1>6 DEF Scatter, ScatterWait, ScatterLeave, ScatterReset, BeginBarrier, BeginScatter,
              ScatterPop, VerticesPushOut, Count, ScatterStash, run, scheduler
<1>7. ASSUME NEW m \in Node, Receive(m)
      PROVE  UNCHANGED <<stage, currEpoch>>
  BY <1>7 DEF Receive, RecvValues, RecvAck, StoreValues, Check, run, scheduler
<1>8. ASSUME NEW m \in Node, NEW i \in ChunkId, Work(m, i)
      PROVE  UNCHANGED <<stage, currEpoch>>
  BY <1>8 DEF Work, Gather, ApplyVertex, ApplyEdge, run, scheduler
<1>9. CASE UNCHANGED kept
  BY <1>3, <1>9 DEF kept, run, scheduler
<1> QED BY <1>3, <1>4, <1>5, <1>6, <1>7, <1>8, <1>9, Steps

LEMMA TogetherSame ==
  ASSUME Together, InStep', conf' = conf, UNCHANGED <<where, entered>>,
         \A n \in Node : stage'[n] = "done" => stage[n] = "done"
  PROVE  Together'
<1>1. Node' = Node /\ Scatters' = Scatters /\ \A e, s : Base(e, s)' = Base(e, s)
  BY ConfSame
<1>2. Base(conf.numEpochs, Scatters)' = Base(conf.numEpochs, Scatters)
  BY DEF Base, BarsOfEpoch, Bars, Scatters
<1> QED BY <1>1, <1>2 DEF Together

LEMMA InsideBit == \A n \in Node : Inside(n) \in {0, 1} /\ Inside(n)' \in {0, 1}
BY DEF Inside

LEMMA EnterNumbers ==
  ASSUME Together, entered \in [Node -> Nat], NEW n \in Node,
         entered'[n] = entered[n] + 1, \A m \in Node \ {n} : entered'[m] = entered[m],
         Inside(n) = 0, Inside(n)' = 1, \A m \in Node \ {n} : Inside(m)' = Inside(m)
  PROVE  \A m \in Node, k \in Node : entered'[m] >= entered'[k] - Inside(k)'
<1>1. \A m \in Node, k \in Node : entered[m] >= entered[k] - Inside(k)
  BY TogetherFacts
<1>2. \A m \in Node : Inside(m) \in {0, 1} /\ Inside(m)' \in {0, 1}
  BY InsideBit
<1>3. entered'[n] >= entered[n] /\ entered'[n] \in Nat /\ entered'[n] - Inside(n)' = entered[n] - Inside(n)
  OBVIOUS
<1>4. \A k \in Node : entered'[k] - Inside(k)' = entered[k] - Inside(k)
  BY <1>3
<1>5. \A m \in Node : entered'[m] >= entered[m] /\ entered[m] \in Nat /\ entered'[m] \in Nat
  BY <1>3
<1> QED BY <1>1, <1>2, <1>4, <1>5

LEMMA LeaveNumbers ==
  ASSUME Together, entered \in [Node -> Nat], NEW n \in Node,
         \A m \in Node : entered[m] >= entered[n],
         Inside(n)' = 0, \A m \in Node \ {n} : Inside(m)' = Inside(m)
  PROVE  \A m \in Node, k \in Node : entered[m] >= entered[k] - Inside(k)'
<1>1. \A m \in Node, k \in Node : entered[m] >= entered[k] - Inside(k)
  BY TogetherFacts
<1>2. \A m \in Node : entered[m] \in Nat /\ entered[m] >= entered[n] - 0
  OBVIOUS
<1> QED BY <1>1, <1>2

LEMMA TogetherEnter ==
  ASSUME Together, InStep', AlignInv, conf' = conf, NEW n \in Node, NEW s, s # "", where[n] = "", Enter(n, s),
         stage[n] # "done", stage' = stage
  PROVE  Together'
<1>1. Node' = Node
  BY ConfSame
<1>2. Base(conf.numEpochs, Scatters)' = Base(conf.numEpochs, Scatters)
  BY DEF Base, BarsOfEpoch, Bars, Scatters
<1>3. entered \in [Node -> Nat] /\ where \in [Node -> Site]
  BY DEF AlignInv, AlignTypes
<1>4. /\ entered'[n] = entered[n] + 1 /\ \A m \in Node \ {n} : entered'[m] = entered[m]
      /\ where'[n] = s /\ \A m \in Node \ {n} : where'[m] = where[m]
  BY <1>3 DEF Enter
<1>5. Inside(n) = 0 /\ Inside(n)' = 1 /\ \A m \in Node \ {n} : Inside(m)' = Inside(m)
  BY <1>4 DEF Inside
<1>10. \A m \in Node, k \in Node : entered'[m] >= entered'[k] - Inside(k)'
  BY <1>3, <1>4, <1>5, EnterNumbers
<1>11. \A m \in Node : stage[m] = "done" => m # n
  OBVIOUS
<1> QED BY <1>1, <1>2, <1>4, <1>10, <1>11 DEF Together, Inside

LEMMA TogetherLeave ==
  ASSUME Together, InStep', AlignInv, conf' = conf, NEW n \in Node, NEW s, Leave(n, s),
         \A m \in Node : stage'[m] = "done" =>
           stage[m] = "done" \/ entered[m] = Base(conf.numEpochs, Scatters) + 1
  PROVE  Together'
<1>1. Node' = Node
  BY ConfSame
<1>2. Base(conf.numEpochs, Scatters)' = Base(conf.numEpochs, Scatters)
  BY DEF Base, BarsOfEpoch, Bars, Scatters
<1>3. entered \in [Node -> Nat] /\ where \in [Node -> Site]
  BY DEF AlignInv, AlignTypes
<1>4. /\ entered' = entered /\ where'[n] = "" /\ \A m \in Node \ {n} : where'[m] = where[m]
      /\ \A m \in Node : entered[m] >= entered[n]
  BY <1>3 DEF Leave
<1>5. Inside(n)' = 0 /\ \A m \in Node \ {n} : Inside(m)' = Inside(m)
  BY <1>4 DEF Inside
<1>7. \A m \in Node, k \in Node : entered[m] >= entered[k] - Inside(k)'
  BY <1>3, <1>4, <1>5, LeaveNumbers
<1>8. \A m \in Node : stage'[m] = "done" => entered[m] = Base(conf.numEpochs, Scatters) + 1
  BY DEF Together
<1> QED BY <1>1, <1>2, <1>4, <1>7, <1>8 DEF Together, Inside

LEMMA TogetherNext ==
  ASSUME Together, InStep', AlignInv, [Next]_vars
  PROVE  Together'
<1>0. conf' = conf
  BY ConfKept
<1>1. ASSUME UNCHANGED <<where, entered, stage>> PROVE Together'
  BY <1>0, <1>1, TogetherSame
<1>2. \A n \in Node : Aligned(n)
  BY AlignFacts
<1>3. \A n \in Node : stage[n] = "done" => where[n] \in {"", "end"}
  BY <1>2 DEF Aligned
<1>4. stage \in [Node -> {"new", "running", "halt", "done"}]
  BY DEF AlignInv, AlignTypes
<1>5. ASSUME NEW n \in Node, Main(n) PROVE Together'
  <2>1. CASE StartBarrier(n)
    <3>1. Enter(n, "start") /\ where[n] = "" /\ stage[n] # "done" /\ stage' = stage
      BY <2>1 DEF StartBarrier
    <3> QED BY <1>0, <3>1, TogetherEnter
  <2>2. CASE LoadChunks(n)
    <3>1. Leave(n, "start") /\ \A m \in Node : stage'[m] = "done" => stage[m] = "done"
      BY <1>4, <2>2 DEF LoadChunks
    <3> QED BY <1>0, <3>1, TogetherLeave
  <2>3. CASE EndBarrier(n)
    <3>1. Enter(n, "end") /\ where[n] = "" /\ stage[n] # "done" /\ stage' = stage
      BY <2>3 DEF EndBarrier
    <3> QED BY <1>0, <3>1, TogetherEnter
  <2>4. CASE Done(n)
    <3>1. Leave(n, "end") /\ \A m \in Node : stage'[m] = "done" => stage[m] = "done" \/ m = n
      BY <1>4, <2>4 DEF Done
    <3>2. where[n] = "end"
      BY <3>1 DEF Leave
    <3>3. stage[n] # "new"
      BY <1>2, <3>2 DEF Aligned
    <3>4. stage[n] # "running"
      BY <1>2, <3>2 DEF Aligned, Running, Blocking
    <3>5. entered[n] = Base(conf.numEpochs, Scatters) + 1
      <4>1. Finished(n) \/ StoppedEarly(n)
        BY <1>2, <3>3, <3>4 DEF Aligned
      <4>2. ~StoppedEarly(n)
        BY <3>3, <3>4, InStepFacts DEF Together
      <4> QED BY <3>2, <4>1, <4>2 DEF Finished
    <3> QED BY <1>0, <3>1, <3>5, TogetherLeave
  <2> QED BY <1>5, <2>1, <2>2, <2>3, <2>4 DEF Main
<1>6. ASSUME NEW n \in Node, Schedule(n) PROVE Together'
  <2>1. CASE SchedHalt(n)
    <3>1. UNCHANGED <<where, entered>> /\ \A m \in Node : stage'[m] = "done" => stage[m] = "done"
      BY <1>4, <2>1 DEF SchedHalt
    <3> QED BY <1>0, <3>1, TogetherSame
  <2>2. CASE SchedBarrier(n)
    <3>1. Enter(n, "epoch") /\ where[n] = "" /\ stage[n] # "done" /\ stage' = stage
      BY <2>2 DEF SchedBarrier, Schedulable, InQueue
    <3> QED BY <1>0, <3>1, TogetherEnter
  <2>3. CASE SchedUnblock(n)
    <3>1. Leave(n, "epoch") /\ stage' = stage
      BY <2>3 DEF SchedUnblock
    <3> QED BY <1>0, <3>1, TogetherLeave
  <2>4. ASSUME NEW i \in ChunkId, SchedStart(n, i) \/ SchedPass(n, i) PROVE Together'
    BY <1>1, <2>4 DEF SchedStart, SchedPass, run
  <2> QED BY <1>6, <2>1, <2>2, <2>3, <2>4 DEF Schedule
<1>7. ASSUME NEW n \in Node, Scatter(n) PROVE Together'
  <2>1. CASE ScatterWait(n)
    <3>1. CASE UNCHANGED <<where, entered>>
      BY <1>1, <2>1, <3>1 DEF ScatterWait
    <3>2. CASE Enter(n, "scatter")
      <4>1. where[n] = "" /\ stage' = stage /\ AllIn(n, "stash")
        BY <2>1 DEF ScatterWait
      <4>2. stage[n] # "done"
        BY <4>1, ConfFacts, AlignFacts DEF AllIn, InQueue
      <4> QED BY <1>0, <3>2, <4>1, <4>2, TogetherEnter
    <3> QED BY <2>1, <3>1, <3>2 DEF ScatterWait
  <2>2. CASE ScatterLeave(n)
    <3>1. Leave(n, "scatter") /\ stage' = stage
      BY <2>2 DEF ScatterLeave
    <3> QED BY <1>0, <3>1, TogetherLeave
  <2>3. CASE BeginBarrier(n)
    <3>1. Enter(n, "begin") /\ where[n] = "" /\ stage' = stage /\ AllIn(n, "SC")
      BY <2>3 DEF BeginBarrier
    <3>2. stage[n] # "done"
      BY <3>1, ConfFacts, AlignFacts DEF AllIn, InQueue
    <3> QED BY <1>0, <3>1, <3>2, TogetherEnter
  <2>4. CASE BeginScatter(n)
    <3>1. Leave(n, "begin") /\ stage' = stage
      BY <2>4 DEF BeginScatter
    <3> QED BY <1>0, <3>1, TogetherLeave
  <2>5. CASE ScatterReset(n) \/ \E i \in ChunkId :
               ScatterPop(n, i) \/ VerticesPushOut(n, i) \/ Count(n, i) \/ ScatterStash(n, i)
    BY <1>1, <2>5 DEF ScatterReset, ScatterPop, VerticesPushOut, Count, ScatterStash, run
  <2> QED BY <1>7, <2>1, <2>2, <2>3, <2>4, <2>5 DEF Scatter
<1>8. ASSUME NEW n \in Node, Receive(n) PROVE Together'
  BY <1>1, <1>8 DEF Receive, RecvValues, RecvAck, StoreValues, Check, run
<1>9. ASSUME NEW n \in Node, NEW i \in ChunkId, Work(n, i) PROVE Together'
  BY <1>1, <1>9 DEF Work, Gather, ApplyVertex, ApplyEdge, run
<1>10. CASE UNCHANGED kept
  BY <1>1, <1>10 DEF kept, run
<1> QED BY <1>5, <1>6, <1>7, <1>8, <1>9, <1>10, Steps

=============================================================================
