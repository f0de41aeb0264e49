------------------------------- MODULE Partition -------------------------------
(***************************************************************************)
(* The graph that each graph server loads: its local vertices, the ghosts  *)
(* it keeps of other servers' vertices, the lists of local vertices whose  *)
(* values the others keep, and the chunks (graph/dataloader.cpp,           *)
(* graph/graph.cpp, Engine::loadChunks).                                   *)
(*                                                                         *)
(* A graph is a record: part maps a global vertex id to its partition, that*)
(* is, to the server that owns it; edges is the content of the snap file;  *)
(* undirected is the command line flag.  Edge values are left out.         *)
(***************************************************************************)
EXTENDS Integers, FiniteSets

Vertices(g) == DOMAIN g.part

IsGraph(g) ==
  /\ Vertices(g) \subseteq Nat /\ IsFiniteSet(Vertices(g))
  /\ g.edges \subseteq Vertices(g) \X Vertices(g)
  /\ g.undirected \in BOOLEAN

Servers(g) == {g.part[v] : v \in Vertices(g)}

\* The edges that preprocess hands to processEdge; self-loops are skipped.
ReadEdges(g) == {e \in g.edges : e[1] # e[2]}
Arcs(g) == ReadEdges(g) \cup (IF g.undirected THEN {<<e[2], e[1]>> : e \in ReadEdges(g)} ELSE {})

\* readPartsFile: local ids are given in the order of the global ones.
Local(g, n) == {v \in Vertices(g) : g.part[v] = n}
LocalVtxCnt(g, n) == Cardinality(Local(g, n))
LocalId(g, n, v) == Cardinality({u \in Local(g, n) : u < v})

InNeighbours(g, v) == {e[1] : e \in {a \in Arcs(g) : a[2] = v}}
OutNeighbours(g, v) == {e[2] : e \in {a \in Arcs(g) : a[1] = v}}

\* processEdge: the ghosts at the other end of n's in-edges and out-edges.
InEdgeGhosts(g, n) ==
  {e[1] : e \in {a \in Arcs(g) : g.part[a[2]] = n /\ g.part[a[1]] # n}}
OutEdgeGhosts(g, n) ==
  {e[2] : e \in {a \in Arcs(g) : g.part[a[1]] = n /\ g.part[a[2]] # n}}

\* Mutant: the edges of an undirected graph are marked in one direction only.
ForwardDstsOneWay(g, n, p) ==
  {e[1] : e \in {a \in ReadEdges(g) : g.part[a[1]] = n /\ g.part[a[2]] = p /\ p # n}}

\* processEdge, forwardDstTables and backwardDstTables: the local vertices of n
\* that p keeps as ghosts.
ForwardDsts(g, n, p) ==
  {e[1] : e \in {a \in Arcs(g) : g.part[a[1]] = n /\ g.part[a[2]] = p /\ p # n}}
BackwardDsts(g, n, p) ==
  {e[2] : e \in {a \in Arcs(g) : g.part[a[2]] = n /\ g.part[a[1]] = p /\ p # n}}

\* srcGhostVtcs and dstGhostVtcs of a direction, and whom n's vertices are sent to.
Ghosts(g, n, dir) == IF dir = "FORWARD" THEN InEdgeGhosts(g, n) ELSE OutEdgeGhosts(g, n)
GhostMap(g, n, p, dir) == IF dir = "FORWARD" THEN ForwardDsts(g, n, p) ELSE BackwardDsts(g, n, p)

\* A ghost's row in the ghost tensors: its local id without those of n's vertices.
GhostRow(g, n, dir, v) == Cardinality({u \in Ghosts(g, n, dir) : u < v})

\* In-degrees, as the owner of a vertex counts them (setEdgeNormalizations) and
\* as the others do for their ghosts (findGhostDegrees).
NumInEdges(g, v) == Cardinality(InNeighbours(g, v))
GhostDegree(g, v) == Cardinality({e \in ReadEdges(g) : e[2] = v})

-----------------------------------------------------------------------------
(* loadChunks: num chunks of cnt local vertices.                           *)

ChunkSize(cnt, num) == (cnt + num - 1) \div num
LowBound(cnt, num, i) == i * ChunkSize(cnt, num)
UpBound(cnt, num, i) ==
  IF LowBound(cnt, num, i) + ChunkSize(cnt, num) < cnt
  THEN LowBound(cnt, num, i) + ChunkSize(cnt, num) ELSE cnt

ChunkRows(cnt, num, i) == {r \in 0..cnt - 1 : LowBound(cnt, num, i) <= r /\ r < UpBound(cnt, num, i)}

\* upBound - lowBound is unsigned: it must not be negative.
ProperChunks(cnt, num) == \A i \in 0..num - 1 : LowBound(cnt, num, i) <= UpBound(cnt, num, i)

-----------------------------------------------------------------------------
(* What the exchange of vertex values relies on.                           *)

\* Each ghost of p is sent by one server, its owner, and nothing else is.
GhostsServed(g) ==
  \A p \in Servers(g), dir \in {"FORWARD", "BACKWARD"} :
    /\ UNION {GhostMap(g, n, p, dir) : n \in Servers(g)} = Ghosts(g, p, dir)
    /\ \A n \in Servers(g), m \in Servers(g) :
         n # m => GhostMap(g, n, p, dir) \cap GhostMap(g, m, p, dir) = {}

\* Two ghosts never share a row, and the rows are those of the tensor.
GhostRowsApart(g) ==
  \A n \in Servers(g), dir \in {"FORWARD", "BACKWARD"} :
    {GhostRow(g, n, dir, v) : v \in Ghosts(g, n, dir)} = 0..Cardinality(Ghosts(g, n, dir)) - 1

\* Each neighbour of a local vertex is a local vertex or has a ghost row.
NeighboursKept(g) ==
  \A n \in Servers(g) : \A v \in Local(g, n) :
    /\ InNeighbours(g, v) \subseteq Local(g, n) \cup InEdgeGhosts(g, n)
    /\ OutNeighbours(g, v) \subseteq Local(g, n) \cup OutEdgeGhosts(g, n)

\* The chunks share out the rows.
ChunksCover(cnt, num) ==
  /\ UNION {ChunkRows(cnt, num, i) : i \in 0..num - 1} = 0..cnt - 1
  /\ \A i \in 0..num - 1, j \in 0..num - 1 :
       i # j => ChunkRows(cnt, num, i) \cap ChunkRows(cnt, num, j) = {}

=============================================================================
