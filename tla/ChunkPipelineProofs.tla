--------------------------- MODULE ChunkPipelineProofs ---------------------------
(***************************************************************************)
(* Theorems about ChunkPipeline, for any number of chunks, layers, epochs  *)
(* and lambdas: no chunk is lost or doubled (OnePlace), the pipeline stops *)
(* with all chunks done (AllDoneAtHalt), of the lambdas of a GCN phase at  *)
(* most one pushes a gradient (GradientOnce), the types (TypeOK), and the  *)
(* refinement of PhaseOrder (OrderSpec).                                   *)
(*                                                                         *)
(* The first three rest on the route of a chunk: Here says where it is, Hop*)
(* from where to where a step takes it, Route which chunks may be at a     *)
(* place.  The last two add what the scheduler counts: Spot is the place of*)
(* a chunk, DoneOf the epochs it has been counted for, FinOf the phases it *)
(* has finished, and EInv says that the ring of counters, the announced    *)
(* epochs and minEpoch agree with them.                                    *)
(***************************************************************************)
EXTENDS ChunkPipeline, FiniteSetTheorems, TLAPS

-----------------------------------------------------------------------------
(* The order of chunks, and how incLayer takes a chunk from each lambda    *)
(* phase to the next.                                                      *)

\* No chunk precedes itself, and operator< is transitive: the strict weak order
\* that std::map asks of its keys (timeoutTable) and std::priority_queue of its
\* elements.
THEOREM LessStrict ==
  /\ \A c \in Chunk : ~Less(c, c)
  /\ \A c, d, e \in Chunk : Less(c, d) /\ Less(d, e) => Less(c, e)
<1>1. ASSUME NEW c \in Chunk PROVE ~Less(c, c)
  BY SMT DEF Less, Chunk, PropType
<1>2. ASSUME NEW c \in Chunk, NEW d \in Chunk, NEW e \in Chunk, Less(c, d), Less(d, e)
      PROVE Less(c, e)
  <2>1. CASE c.epoch > d.epoch \/ d.epoch > e.epoch
    BY <1>2, <2>1, SMT DEF Less, Chunk
  <2>2. CASE c.epoch = d.epoch /\ d.epoch = e.epoch
    BY <1>2, <2>2, SMT DEF Less, Chunk, PropType
  <2> QED BY <1>2, <2>1, <2>2, SMT DEF Less, Chunk
<1> QED BY <1>1, <1>2

\* Two chunks that neither precede one another are the same chunk, so that no two
\* chunks share an entry of timeoutTable and every queue has one top.
THEOREM LessTotal ==
  \A c, d \in Chunk : Less(c, d) \/ Less(d, c) \/ c = d
<1> SUFFICES ASSUME NEW c \in Chunk, NEW d \in Chunk, ~Less(c, d), ~Less(d, c)
             PROVE c = d
  OBVIOUS
<1>1. c.epoch = d.epoch /\ c.dir = d.dir
  BY SMT DEF Less, Chunk, PropType
<1>2. c.layer = d.layer
  BY <1>1, SMT DEF Less, Chunk, PropType
<1>3. c.vertex = d.vertex
  BY <1>1, <1>2, SMT DEF Less, Chunk, PropType
<1>4. c.localId = d.localId
  BY <1>1, <1>2, <1>3, SMT DEF Less, Chunk, PropType
<1> QED BY <1>1, <1>2, <1>3, <1>4, SMT DEF Chunk

\* The one product in PhaseNumber, taken apart.
LEMMA NextEpochNumber ==
  ASSUME NEW e \in Nat \ {0}, NEW n \in Nat
  PROVE (e + 1 - 1) * n = (e - 1) * n + n
<1> DEFINE k == e - 1
<1>1. k \in Nat /\ e + 1 - 1 = k + 1
  OBVIOUS
<1>2. (k + 1) * n = k * n + n
  BY <1>1
<1> QED BY <1>1, <1>2

\* GCN: incLayer, applied in the callback (forward, and at the end of an epoch) or by
\* applyVertex (backward), takes a chunk to the next lambda phase; after the merged
\* last layer both apply it.
THEOREM IncLayerGCNNext ==
  ASSUME NEW L \in Nat, L >= 2, NEW c \in Chunk, c.epoch >= 1, c.layer < L
  PROVE /\ c.dir = "FORWARD" /\ c.layer # L - 1 =>
             PhaseNumber("GCN", L, IncLayer("GCN", L, c)) = PhaseNumber("GCN", L, c) + 1
        /\ c.dir = "FORWARD" /\ c.layer = L - 1 =>
             PhaseNumber("GCN", L, IncLayer("GCN", L, IncLayer("GCN", L, c)))
               = PhaseNumber("GCN", L, c) + 1
        /\ c.dir = "BACKWARD" /\ c.layer # L - 1 =>
             PhaseNumber("GCN", L, IncLayer("GCN", L, c)) = PhaseNumber("GCN", L, c) + 1
<1> DEFINE N == 2 * L - 1
           base == (c.epoch - 1) * N
<1>0. /\ N \in Nat /\ c.epoch \in Nat \ {0} /\ c.layer \in Nat
      /\ base \in Int /\ NumPhases("GCN", L) = N
  BY DEF Chunk, NumPhases
<1>1. (c.epoch + 1 - 1) * N = base + N
  BY <1>0, NextEpochNumber
<1> HIDE DEF base
<1>2. \A d \in Chunk : d.epoch = c.epoch =>
        PhaseNumber("GCN", L, d) = base + PhaseIndex("GCN", L, d)
  BY <1>0 DEF PhaseNumber, base
<1>3. CASE c.dir = "FORWARD" /\ c.layer # L - 1
  <2> DEFINE d == [c EXCEPT !.layer = @ + 1]
  <2>1. d \in Chunk /\ d.epoch = c.epoch /\ d.dir = "FORWARD" /\ d.layer = c.layer + 1
    BY <1>3 DEF Chunk
  <2>2. IncLayer("GCN", L, c) = d
    BY <1>3, <1>0 DEF IncLayer, IncLayerGCN
  <2>3. PhaseIndex("GCN", L, d) = PhaseIndex("GCN", L, c) + 1
    BY <1>3, <2>1 DEF PhaseIndex
  <2>4. PhaseIndex("GCN", L, c) = c.layer
    BY <1>3 DEF PhaseIndex
  <2>5. PhaseNumber("GCN", L, d) = PhaseNumber("GCN", L, c) + 1
    <3> HIDE DEF d
    <3> QED BY <1>0, <1>2, <2>1, <2>3, <2>4
  <2> QED BY <1>3, <2>2, <2>5
<1>4. CASE c.dir = "FORWARD" /\ c.layer = L - 1
  <2> DEFINE b == [c EXCEPT !.dir = "BACKWARD"]
             d == [b EXCEPT !.layer = @ - 1]
  <2>1. b \in Chunk /\ b.dir = "BACKWARD" /\ b.layer = L - 1 /\ b.layer # 0
    BY <1>4 DEF Chunk, PropType
  <2>2. d \in Chunk /\ d.epoch = c.epoch /\ d.dir = "BACKWARD" /\ d.layer = L - 2
    <3>1. b.epoch = c.epoch
      BY DEF Chunk
    <3> HIDE DEF b
    <3> QED BY <1>4, <2>1, <3>1 DEF Chunk
  <2>3. IncLayer("GCN", L, c) = b
    BY <1>4, <1>0 DEF IncLayer, IncLayerGCN
  <2>4. IncLayer("GCN", L, b) = d
    BY <2>1 DEF IncLayer, IncLayerGCN
  <2>5. PhaseIndex("GCN", L, d) = L /\ PhaseIndex("GCN", L, c) = L - 1
    BY <1>4, <2>2 DEF PhaseIndex
  <2>6. PhaseNumber("GCN", L, d) = PhaseNumber("GCN", L, c) + 1
    <3> HIDE DEF d
    <3> QED BY <1>0, <1>2, <2>2, <2>5
  <2> QED BY <1>4, <2>3, <2>4, <2>6
<1>5. CASE c.dir = "BACKWARD" /\ c.layer # L - 1 /\ c.layer # 0
  <2> DEFINE d == [c EXCEPT !.layer = @ - 1]
  <2>1. d \in Chunk /\ d.epoch = c.epoch /\ d.dir = "BACKWARD" /\ d.layer = c.layer - 1
    BY <1>5 DEF Chunk
  <2>2. IncLayer("GCN", L, c) = d
    BY <1>5 DEF IncLayer, IncLayerGCN
  <2>3. /\ PhaseIndex("GCN", L, d) = 2 * L - 2 - (c.layer - 1)
        /\ PhaseIndex("GCN", L, c) = 2 * L - 2 - c.layer
    BY <1>5, <2>1 DEF PhaseIndex
  <2>4. PhaseNumber("GCN", L, d) = PhaseNumber("GCN", L, c) + 1
    <3> HIDE DEF d
    <3> QED BY <1>0, <1>2, <2>1, <2>3
  <2> QED BY <1>5, <2>2, <2>4
<1>6. CASE c.dir = "BACKWARD" /\ c.layer # L - 1 /\ c.layer = 0
  <2> DEFINE d == NextEpoch(c)
  <2>1. d \in Chunk /\ d.epoch = c.epoch + 1 /\ d.dir = "FORWARD" /\ d.layer = 0
    <3> DEFINE b == [c EXCEPT !.dir = "FORWARD"]
    <3>1. b \in Chunk /\ b.dir = "FORWARD" /\ b.layer = 0 /\ b.epoch = c.epoch
      BY <1>6 DEF Chunk, PropType
    <3>2. d = [b EXCEPT !.epoch = @ + 1]
      BY DEF NextEpoch, Chunk
    <3> HIDE DEF b, d
    <3> QED BY <3>1, <3>2 DEF Chunk
  <2>2. IncLayer("GCN", L, c) = d
    BY <1>6 DEF IncLayer, IncLayerGCN
  <2>3. PhaseIndex("GCN", L, d) = 0 /\ PhaseIndex("GCN", L, c) = 2 * L - 2
    BY <1>6, <2>1 DEF PhaseIndex
  <2>4. PhaseNumber("GCN", L, d) = base + N
    BY <1>0, <1>1, <2>1, <2>3 DEF PhaseNumber
  <2>5. PhaseNumber("GCN", L, c) = base + N - 1
    BY <1>0, <1>2, <2>3
  <2> QED BY <1>0, <1>6, <2>2, <2>4, <2>5
<1>7. c.dir \in {"FORWARD", "BACKWARD"}
  BY DEF Chunk, PropType
<1> QED BY <1>3, <1>4, <1>5, <1>6, <1>7

-----------------------------------------------------------------------------
(* Where a chunk is.                                                       *)

Places == Queue \cup {"table"} \cup Slot

Carries(s, c) == InCallback(s) /\ lam[s].chunk = c

Here(p, c) ==
  \/ p \in Queue /\ c \in queue[p]
  \/ p = "table" /\ c \in timeoutTable
  \/ p \in Slot /\ Carries(p, c)

\* The chunk that applyVertexWorkFunc hands to NNCompute.
Applied(c) ==
  IF c.dir = "FORWARD" THEN [c EXCEPT !.vertex = TRUE] ELSE Inc([c EXCEPT !.vertex = TRUE])

IsTurn(c) == conf.gnn = "GAT" /\ c.dir = "FORWARD" /\ c.layer = conf.numLayers

\* Where a chunk goes next.
Hop(p, c, q, d) ==
  \/ p = "sch" /\ q = FirstQueue /\ d = c
  \/ p = "GA" /\ IsTurn(c) /\ q = "SC" /\ d = [c EXCEPT !.dir = "BACKWARD"]
  \/ p = "GA" /\ ~IsTurn(c) /\ q = "AV" /\ d = c
  \/ p = "AV" /\ q = "table" /\ d = Applied(c)
  \/ p = "SC" /\ q \in {"stash", "AE"} /\ d = c
  \/ p = "stash" /\ q = "AE" /\ d = c
  \/ p = "AE" /\ q = (IF conf.gnn = "GCN" THEN "GA" ELSE "table") /\ d = [c EXCEPT !.vertex = FALSE]
  \/ p = "table" /\ q \in Slot /\ d = c
  \/ p \in Slot /\ ~c.vertex /\ q = "GA" /\ d = c
  \/ p \in Slot /\ IsLastLayer(c) /\ q = "sch" /\ d = Inc(c)
  \/ p \in Slot /\ c.vertex /\ c.dir = "FORWARD" /\ q = "SC" /\ d = Inc(c)
  \/ p \in Slot /\ c.vertex /\ c.dir = "BACKWARD" /\ c.layer # 0 /\ q = "SC" /\ d = c

\* The layers of the chunks that may be at a place.
TopLayer == IF conf.gnn = "GCN" THEN conf.numLayers - 1 ELSE conf.numLayers

Route(p, c) ==
  CASE p = "sch" -> c.dir = "FORWARD" /\ c.layer = 0 /\ c.vertex
    [] p \in Queue \ {"sch"} ->
         IF c.dir = "FORWARD"
         THEN IF p = "AV" THEN c.layer <= TopLayer /\ c.layer < conf.numLayers
              ELSE c.layer \in (IF conf.gnn = "GCN" THEN 0 ELSE 1)..TopLayer
         ELSE c.layer \in 1..TopLayer
    [] OTHER ->
         IF c.vertex THEN c.layer < (IF c.dir = "FORWARD" THEN conf.numLayers ELSE TopLayer)
         ELSE conf.gnn = "GAT" /\ c.layer \in 1..TopLayer

\* The number of the lambda phase a chunk waits for, or has just finished.
PhaseAt(p, c) == IF p \in Slot THEN Number(c) ELSE Number(Awaited(p, c))

-----------------------------------------------------------------------------
(* The route.                                                              *)

LEMMA ConfOK ==
  ASSUME conf \in Confs
  PROVE  /\ conf.gnn \in {"GCN", "GAT"} /\ conf.numLayers \in Nat \ {0}
         /\ conf.gnn = "GCN" => conf.numLayers > 1
         /\ conf.numEpochs \in Nat /\ conf.staleness \in Nat /\ conf.async \in BOOLEAN
BY ChunkPipelineOK DEF Gnn

LEMMA PlacesApart ==
  /\ \A s \in Slot : s # "sch" /\ s # "GA" /\ s # "AV" /\ s # "SC" /\ s # "stash" /\ s # "AE" /\ s # "table"
  /\ Slot \cap Queue = {} /\ "table" \notin Queue
BY ChunkPipelineOK DEF Queue

\* What incLayer does to a chunk of the route.
LEMMA IncOf ==
  ASSUME conf \in Confs, NEW c \in Chunk, c.layer <= conf.numLayers,
         c.dir = "BACKWARD" /\ c.layer = 0 => c.vertex
  PROVE  /\ Inc(c) \in Chunk /\ Inc(c).localId = c.localId /\ Inc(c).vertex = c.vertex
         /\ c.dir = "BACKWARD" /\ c.layer = 0 =>
              Inc(c).dir = "FORWARD" /\ Inc(c).layer = 0 /\ Inc(c).epoch = c.epoch + 1
         /\ c.dir = "BACKWARD" /\ c.layer # 0 =>
              Inc(c).dir = "BACKWARD" /\ Inc(c).layer = c.layer - 1 /\ Inc(c).epoch = c.epoch
         /\ c.dir = "FORWARD" => Inc(c).epoch = c.epoch
         /\ c.dir = "FORWARD" /\ conf.gnn = "GCN" /\ c.layer = conf.numLayers - 1 =>
              Inc(c).dir = "BACKWARD" /\ Inc(c).layer = c.layer
         /\ c.dir = "FORWARD" /\ (conf.gnn = "GCN" => c.layer # conf.numLayers - 1) =>
              Inc(c).dir = "FORWARD" /\ Inc(c).layer = c.layer + 1
<1> DEFINE L == conf.numLayers
<1>1. /\ conf.gnn \in {"GCN", "GAT"} /\ L \in Nat \ {0}
      /\ c.localId \in Nat /\ c.layer \in Nat /\ c.epoch \in Nat
      /\ c.dir \in {"FORWARD", "BACKWARD"} /\ c.vertex \in BOOLEAN
  BY ConfOK DEF Chunk, PropType
<1> HIDE DEF L
<1>2. /\ \A l \in Nat : [c EXCEPT !.layer = l] \in Chunk
      /\ [c EXCEPT !.dir = "BACKWARD"] \in Chunk
      /\ NextEpoch(c) \in Chunk /\ [NextEpoch(c) EXCEPT !.vertex = TRUE] \in Chunk
  <2>1. \A l \in Nat : [c EXCEPT !.layer = l] \in Chunk
    BY DEF Chunk
  <2>2. [c EXCEPT !.dir = "BACKWARD"] \in Chunk
    BY DEF Chunk, PropType
  <2>3. NextEpoch(c) \in Chunk
    <3>1. c.epoch + 1 \in Nat
      BY <1>1
    <3>2. [c EXCEPT !.dir = "FORWARD", !.epoch = c.epoch + 1] \in Chunk
      BY <3>1 DEF Chunk, PropType
    <3> QED BY <3>2 DEF NextEpoch
  <2>4. [NextEpoch(c) EXCEPT !.vertex = TRUE] \in Chunk
    BY <2>3 DEF Chunk
  <2> QED BY <2>1, <2>2, <2>3, <2>4
<1>3. CASE c.dir = "FORWARD" /\ conf.gnn = "GCN" /\ c.layer = L - 1
  <2>1. Inc(c) = [c EXCEPT !.dir = "BACKWARD"]
    BY <1>1, <1>3 DEF Inc, IncLayer, IncLayerGCN, L
  <2> QED BY <1>1, <1>2, <1>3, <2>1 DEF Chunk, L
<1>4. CASE c.dir = "FORWARD" /\ (conf.gnn = "GCN" => c.layer # L - 1)
  <2>1. Inc(c) = [c EXCEPT !.layer = c.layer + 1]
    BY <1>1, <1>4 DEF Inc, IncLayer, IncLayerGCN, IncLayerGAT, L
  <2> QED BY <1>1, <1>2, <1>4, <2>1 DEF Chunk, L
<1>5. CASE c.dir = "BACKWARD" /\ c.layer # 0
  <2>1. Inc(c) = [c EXCEPT !.layer = c.layer - 1]
    BY <1>1, <1>5 DEF Inc, IncLayer, IncLayerGCN, IncLayerGAT
  <2> QED BY <1>1, <1>2, <1>5, <2>1 DEF Chunk
<1>6. CASE c.dir = "BACKWARD" /\ c.layer = 0
  <2>1. Inc(c) = NextEpoch(c) \/ Inc(c) = [NextEpoch(c) EXCEPT !.vertex = TRUE]
    BY <1>1, <1>6 DEF Inc, IncLayer, IncLayerGCN, IncLayerGAT
  <2> QED BY <1>1, <1>2, <1>6, <2>1 DEF Chunk, NextEpoch
<1> QED BY <1>1, <1>3, <1>4, <1>5, <1>6

LEMMA AppliedOf ==
  ASSUME conf \in Confs, NEW c \in Chunk, Route("AV", c)
  PROVE  /\ Applied(c) \in Chunk /\ Applied(c).localId = c.localId /\ Applied(c).vertex
         /\ Applied(c).epoch = c.epoch /\ Applied(c).dir = c.dir
         /\ c.dir = "FORWARD" => Applied(c).layer = c.layer
         /\ c.dir = "BACKWARD" => c.layer # 0 /\ Applied(c).layer = c.layer - 1
<1> DEFINE v == [c EXCEPT !.vertex = TRUE]
<1>1. /\ v \in Chunk /\ v.localId = c.localId /\ v.vertex
      /\ v.epoch = c.epoch /\ v.dir = c.dir /\ v.layer = c.layer
  BY DEF Chunk
<1>2. /\ c.dir \in {"FORWARD", "BACKWARD"} /\ c.layer \in Nat
      /\ c.dir = "BACKWARD" => c.layer # 0
      /\ c.layer <= conf.numLayers
  BY ConfOK DEF Route, TopLayer, Chunk, PropType, Queue
<1> HIDE DEF v
<1>3. CASE c.dir = "FORWARD"
  <2>1. Applied(c) = v
    BY <1>3 DEF Applied, v
  <2> QED BY <1>1, <1>3, <2>1
<1>4. CASE c.dir = "BACKWARD"
  <2>1. Applied(c) = Inc(v)
    BY <1>4 DEF Applied, v
  <2> QED BY <1>1, <1>2, <1>4, <2>1, IncOf
<1> QED BY <1>2, <1>3, <1>4

\* A hop keeps a chunk on the route; only the last one of an epoch begins the next.
LEMMA HopRoute ==
  ASSUME conf \in Confs, NEW p \in Places, NEW q \in Places, NEW c \in Chunk, NEW d,
         Route(p, c), Hop(p, c, q, d)
  PROVE  /\ d \in Chunk /\ d.localId = c.localId /\ Route(q, d)
         /\ IF p \in Slot /\ q = "sch" THEN d.epoch = c.epoch + 1 ELSE d.epoch = c.epoch
         /\ q = "sch" => p \in Slot
<1> DEFINE L == conf.numLayers
<1>0. /\ conf.gnn \in {"GCN", "GAT"} /\ L \in Nat \ {0} /\ (conf.gnn = "GCN" => L > 1)
      /\ TopLayer = (IF conf.gnn = "GCN" THEN L - 1 ELSE L)
      /\ c.localId \in Nat /\ c.layer \in Nat /\ c.epoch \in Nat
      /\ c.dir \in {"FORWARD", "BACKWARD"} /\ c.vertex \in BOOLEAN
  BY ConfOK DEF Chunk, PropType, TopLayer
<1>1. /\ \A x : Route("sch", x) <=> x.dir = "FORWARD" /\ x.layer = 0 /\ x.vertex
      /\ \A x : Route("AV", x) <=>
           IF x.dir = "FORWARD" THEN x.layer <= TopLayer /\ x.layer < L ELSE x.layer \in 1..TopLayer
      /\ \A x, r : r \in {"GA", "SC", "stash", "AE"} =>
           (Route(r, x) <=> x.layer \in (IF x.dir = "FORWARD" /\ conf.gnn = "GCN" THEN 0 ELSE 1)..TopLayer)
      /\ \A x, r : r \in Slot \cup {"table"} =>
           (Route(r, x) <=>
             IF x.vertex THEN x.layer < (IF x.dir = "FORWARD" THEN L ELSE TopLayer)
             ELSE conf.gnn = "GAT" /\ x.layer \in 1..TopLayer)
  BY PlacesApart DEF Route, Queue
<1>2. "GA" # "AV" /\ "GA" # "SC" /\ "GA" # "sch" /\ "GA" # "table" /\ "AV" # "table" /\ "AV" # "sch"
      /\ \A s \in Slot : s # "sch" /\ s # "GA" /\ s # "AV" /\ s # "SC" /\ s # "stash"
                         /\ s # "AE" /\ s # "table"
  BY PlacesApart
<1> HIDE DEF L
<1>3. CASE p = "sch" /\ q = FirstQueue /\ d = c
  <2>1. q = (IF conf.gnn = "GCN" THEN "GA" ELSE "AV") /\ q # "sch"
    BY <1>3 DEF FirstQueue
  <2>2. c.dir = "FORWARD" /\ c.layer = 0
    BY <1>1, <1>3
  <2>3. Route(q, c)
    BY <1>0, <1>1, <2>1, <2>2
  <2> QED BY <1>2, <1>3, <2>1, <2>3
<1>4. CASE p = "GA" /\ IsTurn(c) /\ q = "SC" /\ d = [c EXCEPT !.dir = "BACKWARD"]
  <2>1. conf.gnn = "GAT" /\ c.layer = L
    BY <1>4 DEF IsTurn, L
  <2>2. /\ d \in Chunk /\ d.localId = c.localId /\ d.epoch = c.epoch
        /\ d.dir = "BACKWARD" /\ d.layer = c.layer
    BY <1>4 DEF Chunk, PropType
  <2>3. Route("GA", c) /\ c.layer <= TopLayer
    BY <1>0, <1>4, <2>1
  <2>4. d.layer \in 1..TopLayer
    BY <1>0, <2>1, <2>2, <2>3
  <2>5. Route("SC", d)
    BY <1>1, <2>2, <2>4
  <2> QED BY <1>2, <1>4, <2>2, <2>5
<1>5. CASE p = "GA" /\ ~IsTurn(c) /\ q = "AV" /\ d = c
  <2>1. c.dir = "FORWARD" => c.layer < L
    BY <1>0, <1>1, <1>5 DEF IsTurn, L
  <2> QED BY <1>0, <1>1, <1>2, <1>5, <2>1
<1>6. CASE p = "AV" /\ q = "table" /\ d = Applied(c)
  <2>1. /\ d \in Chunk /\ d.localId = c.localId /\ d.vertex
        /\ d.epoch = c.epoch /\ d.dir = c.dir
        /\ c.dir = "FORWARD" => d.layer = c.layer
        /\ c.dir = "BACKWARD" => c.layer # 0 /\ d.layer = c.layer - 1
    BY <1>6, AppliedOf
  <2>2. Route("table", d) <=> d.layer < (IF d.dir = "FORWARD" THEN L ELSE TopLayer)
    BY <1>1, <2>1
  <2>3. IF c.dir = "FORWARD" THEN c.layer <= TopLayer /\ c.layer < L ELSE c.layer \in 1..TopLayer
    BY <1>1, <1>6
  <2>4. d.layer < (IF d.dir = "FORWARD" THEN L ELSE TopLayer)
    BY <1>0, <2>1, <2>3
  <2> QED BY <1>2, <1>6, <2>1, <2>2, <2>4
<1>7. CASE p \in {"SC", "stash"} /\ q \in {"stash", "AE"} /\ d = c
  BY <1>0, <1>1, <1>2, <1>7
<1>8. CASE p = "AE" /\ q = (IF conf.gnn = "GCN" THEN "GA" ELSE "table") /\ d = [c EXCEPT !.vertex = FALSE]
  <2>1. /\ d \in Chunk /\ d.localId = c.localId /\ d.epoch = c.epoch
        /\ d.dir = c.dir /\ d.layer = c.layer /\ ~d.vertex
    BY <1>8 DEF Chunk
  <2>2. c.layer \in (IF c.dir = "FORWARD" /\ conf.gnn = "GCN" THEN 0 ELSE 1)..TopLayer
    BY <1>1, <1>8
  <2>3. CASE conf.gnn = "GCN"
    <3>1. Route("GA", d)
      BY <1>1, <2>1, <2>2
    <3> QED BY <1>2, <1>8, <2>1, <2>3, <3>1
  <2>4. CASE conf.gnn # "GCN"
    <3>1. conf.gnn = "GAT" /\ d.layer \in 1..TopLayer
      BY <1>0, <2>1, <2>2, <2>4
    <3>2. Route("table", d)
      BY <1>1, <2>1, <3>1
    <3> QED BY <1>2, <1>8, <2>1, <2>4, <3>2
  <2> QED BY <2>3, <2>4
<1>9. CASE p = "table" /\ q \in Slot /\ d = c
  BY <1>0, <1>1, <1>2, <1>9
<1>10. CASE p \in Slot /\ ~c.vertex /\ q = "GA" /\ d = c
  BY <1>0, <1>1, <1>2, <1>10
<1>11. CASE p \in Slot /\ c.vertex /\ c.dir = "BACKWARD" /\ c.layer # 0 /\ q = "SC" /\ d = c
  BY <1>0, <1>1, <1>2, <1>11
<1>12. CASE p \in Slot /\ IsLastLayer(c) /\ q = "sch" /\ d = Inc(c)
  <2>1. c.dir = "BACKWARD" /\ c.layer = 0 /\ c.vertex
    BY <1>12 DEF IsLastLayer
  <2>2. c.layer <= conf.numLayers
    BY <1>0, <2>1 DEF L
  <2>3. /\ Inc(c) \in Chunk /\ Inc(c).localId = c.localId
        /\ Inc(c).dir = "FORWARD" /\ Inc(c).layer = 0 /\ Inc(c).epoch = c.epoch + 1
        /\ Inc(c).vertex
    BY <2>1, <2>2, IncOf
  <2> QED BY <1>1, <1>2, <1>12, <2>3
<1>13. CASE p \in Slot /\ c.vertex /\ c.dir = "FORWARD" /\ q = "SC" /\ d = Inc(c)
  <2>1. c.layer < L
    BY <1>1, <1>13
  <2>2. c.layer <= conf.numLayers
    BY <1>0, <2>1 DEF L
  <2>3. /\ d \in Chunk /\ d.localId = c.localId /\ d.epoch = c.epoch
        /\ conf.gnn = "GCN" /\ c.layer = L - 1 => d.dir = "BACKWARD" /\ d.layer = c.layer
        /\ (conf.gnn = "GCN" => c.layer # L - 1) => d.dir = "FORWARD" /\ d.layer = c.layer + 1
    BY <1>13, <2>2, IncOf DEF L
  <2>4. Route("SC", d)
    BY <1>0, <1>1, <2>1, <2>3
  <2> QED BY <1>2, <1>13, <2>3, <2>4
<1> QED BY <1>3, <1>4, <1>5, <1>6, <1>7, <1>8, <1>9, <1>10, <1>11, <1>12, <1>13 DEF Hop

LEMMA NumberInt ==
  ASSUME conf \in Confs, conf.gnn = "GCN", NEW c \in Chunk
  PROVE  Number(c) \in Int
<1>1. NumPhases("GCN", conf.numLayers) \in Int /\ c.epoch - 1 \in Int
  BY ConfOK DEF NumPhases, Chunk
<1>2. PhaseIndex("GCN", conf.numLayers, c) \in Int
  BY ConfOK DEF PhaseIndex, Chunk, PropType
<1>3. (c.epoch - 1) * NumPhases("GCN", conf.numLayers) \in Int
  BY <1>1
<1> QED BY <1>2, <1>3 DEF Number, PhaseNumber

\* A hop of a GCN chunk never takes it back to an earlier lambda phase, and the
\* callback takes it to the next one.
LEMMA HopPhase ==
  ASSUME conf \in Confs, conf.gnn = "GCN", NEW p \in Places, NEW q \in Places,
         NEW c \in Chunk, NEW d, c.epoch >= 1, Route(p, c), Hop(p, c, q, d)
  PROVE  /\ PhaseAt(p, c) \in Int /\ PhaseAt(q, d) \in Int
         /\ p \notin Slot => PhaseAt(q, d) = PhaseAt(p, c)
         /\ p \in Slot => PhaseAt(q, d) = PhaseAt(p, c) + 1
<1> DEFINE L == conf.numLayers
<1>0. /\ L \in Nat /\ L >= 2 /\ TopLayer = L - 1 /\ c.layer \in Nat
      /\ c.dir \in {"FORWARD", "BACKWARD"} /\ c.vertex \in BOOLEAN
  BY ConfOK DEF Chunk, PropType, TopLayer
<1>1. d \in Chunk
  BY HopRoute
<1>2. /\ \A x : PhaseAt("sch", x) = Number(x) /\ PhaseAt("table", x) = Number(x)
      /\ \A x, r : r \in Slot => PhaseAt(r, x) = Number(x)
      /\ \A x, r : r \in {"GA", "AV", "SC", "stash", "AE"} => PhaseAt(r, x) = Number(Applied(x))
  BY PlacesApart DEF PhaseAt, Awaited, Applied
<1>3. /\ \A x : PhaseNumber("GCN", L, x) = Number(x) /\ IncLayer("GCN", L, x) = Inc(x)
  BY DEF Number, Inc
<1> HIDE DEF L
<1>4. \A x \in Chunk : Number([x EXCEPT !.vertex = TRUE]) = Number(x)
  BY DEF Number, PhaseNumber, PhaseIndex, Chunk
<1>5. \A x \in Chunk : x.dir = "FORWARD" => Number(Applied(x)) = Number(x)
  BY <1>4 DEF Applied
<1>6. CASE p \in Slot
  <2>0. PhaseAt(p, c) = Number(c) /\ Number(c) \in Int
    BY <1>2, <1>6, NumberInt
  <2>1. c.vertex /\ c.layer < (IF c.dir = "FORWARD" THEN L ELSE TopLayer)
    BY <1>0, <1>6, PlacesApart DEF Route, L
  <2>2. /\ c.dir = "FORWARD" /\ c.layer # L - 1 => Number(Inc(c)) = Number(c) + 1
        /\ c.dir = "FORWARD" /\ c.layer = L - 1 => Number(Inc(Inc(c))) = Number(c) + 1
        /\ c.dir = "BACKWARD" /\ c.layer # L - 1 => Number(Inc(c)) = Number(c) + 1
    <3>1. c.layer < L
      BY <1>0, <2>1
    <3> QED BY <1>0, <1>3, <3>1, IncLayerGCNNext
  <2>3. c.layer <= conf.numLayers /\ (c.dir = "BACKWARD" /\ c.layer = 0 => c.vertex)
    BY <1>0, <2>1 DEF L
  <2>4. CASE IsLastLayer(c) /\ q = "sch" /\ d = Inc(c)
    <3>1. c.dir = "BACKWARD" /\ c.layer # L - 1
      BY <1>0, <2>4 DEF IsLastLayer
    <3> QED BY <1>2, <1>6, <2>0, <2>2, <2>4, <3>1
  <2>5. CASE c.dir = "FORWARD" /\ c.layer # L - 1 /\ q = "SC" /\ d = Inc(c)
    <3>1. d.dir = "FORWARD"
      BY <2>3, <2>5, IncOf DEF L
    <3>2. PhaseAt(q, d) = Number(d)
      BY <1>1, <1>2, <1>5, <2>5, <3>1
    <3> QED BY <1>6, <2>0, <2>2, <2>5, <3>2
  <2>6. CASE c.dir = "FORWARD" /\ c.layer = L - 1 /\ q = "SC" /\ d = Inc(c)
    <3>1. d.dir = "BACKWARD" /\ d.vertex = TRUE
      BY <2>1, <2>3, <2>6, IncOf DEF L
    <3>2. [d EXCEPT !.vertex = TRUE] = d
      BY <1>1, <3>1 DEF Chunk
    <3>3. Applied(d) = Inc(d)
      BY <3>1, <3>2 DEF Applied
    <3> QED BY <1>2, <1>6, <2>0, <2>2, <2>6, <3>3
  <2>7. CASE c.dir = "BACKWARD" /\ c.layer # 0 /\ q = "SC" /\ d = c
    <3>1. [c EXCEPT !.vertex = TRUE] = c
      BY <1>0, <2>1 DEF Chunk
    <3>2. c.layer # L - 1
      <4>1. c.layer < TopLayer
        BY <2>1, <2>7
      <4> QED BY <1>0, <4>1
    <3>3. Applied(d) = Inc([c EXCEPT !.vertex = TRUE])
      BY <2>7 DEF Applied
    <3>4. Applied(d) = Inc(c)
      BY <3>1, <3>3
    <3> QED BY <1>2, <1>6, <2>0, <2>2, <2>7, <3>2, <3>4
  <2> QED BY <1>0, <1>6, <2>1, <2>4, <2>5, <2>6, <2>7, PlacesApart DEF Hop
<1>7. CASE p \notin Slot
  <2>1. PhaseAt(p, c) \in Int
    <3>1. CASE p \in {"sch", "table"}
      BY <1>2, <3>1, NumberInt
    <3>2. CASE p \in {"GA", "AV", "SC", "stash", "AE"}
      <4>1. Applied(c) \in Chunk
        <5>1. c.dir = "BACKWARD" => c.layer \in 1..TopLayer
          BY <3>2 DEF Route, Queue
        <5>2. [c EXCEPT !.vertex = TRUE] \in Chunk
          BY DEF Chunk
        <5>3. c.dir = "BACKWARD" => Inc([c EXCEPT !.vertex = TRUE]) \in Chunk
          <6> DEFINE v == [c EXCEPT !.vertex = TRUE]
          <6>1. v \in Chunk /\ v.layer = c.layer /\ v.vertex
            BY DEF Chunk
          <6> HIDE DEF v
          <6> SUFFICES ASSUME c.dir = "BACKWARD" PROVE Inc(v) \in Chunk
            BY DEF v
          <6>2. v.layer <= conf.numLayers
            BY <1>0, <5>1, <6>1 DEF L
          <6> QED BY <6>1, <6>2, IncOf
        <5> QED BY <1>0, <5>2, <5>3 DEF Applied
      <4> QED BY <1>2, <3>2, <4>1, NumberInt
    <3> QED BY <1>7, <3>1, <3>2 DEF Places, Queue
  <2>2. PhaseAt(q, d) = PhaseAt(p, c)
    <3>1. CASE p = "sch" /\ q = FirstQueue /\ d = c
      <4>1. c.dir = "FORWARD" /\ q = "GA"
        BY <3>1 DEF Route, FirstQueue
      <4> QED BY <1>2, <1>5, <3>1, <4>1
    <3>2. CASE p = "GA" /\ ~IsTurn(c) /\ q = "AV" /\ d = c
      BY <1>2, <3>2
    <3>3. CASE p = "AV" /\ q = "table" /\ d = Applied(c)
      BY <1>2, <3>3
    <3>4. CASE p \in {"SC", "stash"} /\ q \in {"stash", "AE"} /\ d = c
      BY <1>2, <3>4
    <3>5. CASE p = "AE" /\ q = "GA" /\ d = [c EXCEPT !.vertex = FALSE]
      <4>1. [d EXCEPT !.vertex = TRUE] = [c EXCEPT !.vertex = TRUE] /\ d.dir = c.dir
        BY <3>5 DEF Chunk
      <4>2. Applied(d) = Applied(c)
        BY <4>1 DEF Applied
      <4> QED BY <1>2, <3>5, <4>2
    <3>6. CASE p = "table" /\ q \in Slot /\ d = c
      BY <1>2, <3>6
    <3> QED BY <1>7, <3>1, <3>2, <3>3, <3>4, <3>5, <3>6 DEF Hop, IsTurn
  <2> QED BY <1>7, <2>1, <2>2
<1> QED BY <1>6, <1>7

-----------------------------------------------------------------------------
(* The inductive invariant, and what a step does to the chunks' places.    *)

Types ==
  /\ conf \in Confs
  /\ queue \in [Queue -> SUBSET Chunk]
  /\ timeoutTable \in SUBSET Chunk /\ pushed \in SUBSET Chunk
  /\ lam \in [Slot -> [st : LambdaStates, chunk : Chunk]]
  /\ currEpoch \in 0..conf.numEpochs /\ pipelineHalt \in BOOLEAN

\* A chunk is on its route, in an epoch the scheduler has let it start.
Kept ==
  \A p \in Places, c \in Chunk : Here(p, c) =>
    /\ c.localId \in Id /\ Route(p, c)
    /\ c.epoch \in 1..(IF p = "sch" THEN currEpoch + 1 ELSE currEpoch)

Single ==
  \A p, q \in Places : \A c, d \in Chunk :
    Here(p, c) /\ Here(q, d) /\ c.localId = d.localId => p = q /\ c = d

Everyone == \A i \in Id : \E p \in Places, c \in Chunk : Here(p, c) /\ c.localId = i

PlacesOK == Types /\ Kept /\ Single /\ Everyone

\* One chunk is moved, no chunk is, or all stashed chunks are.
Moved(p, c, q, d) ==
  \A r \in Places, e \in Chunk :
    Here(r, e)' <=> \/ Here(r, e) /\ (r # p \/ e # c)
                    \/ r = q /\ e = d

Unmoved == \A r \in Places, e \in Chunk : Here(r, e)' <=> Here(r, e)

StashMoved ==
  \A r \in Places, e \in Chunk :
    Here(r, e)' <=> \/ Here(r, e) /\ r # "stash"
                    \/ r = "AE" /\ Here("stash", e)

Travels(p, c, q, d) ==
  /\ Here(p, c) /\ Hop(p, c, q, d) /\ Moved(p, c, q, d)
  /\ IF p = "sch" THEN c.epoch <= currEpoch' /\ currEpoch' \in {currEpoch, currEpoch + 1}
     ELSE currEpoch' = currEpoch

LEMMA TravelsKeeps ==
  ASSUME PlacesOK, Types', conf' = conf,
         NEW p \in Places, NEW q \in Places, NEW c \in Chunk, NEW d, Travels(p, c, q, d)
  PROVE  PlacesOK'
<1>1. /\ Here(p, c) /\ Hop(p, c, q, d) /\ conf \in Confs
      /\ Route(p, c) /\ c.localId \in Id
      /\ c.epoch \in 1..(IF p = "sch" THEN currEpoch + 1 ELSE currEpoch)
  BY DEF PlacesOK, Kept, Travels, Types
<1>2. /\ d \in Chunk /\ d.localId = c.localId /\ Route(q, d)
      /\ IF p \in Slot /\ q = "sch" THEN d.epoch = c.epoch + 1 ELSE d.epoch = c.epoch
      /\ q = "sch" => p \in Slot
  BY <1>1, HopRoute
<1>3. \A r \in Places, e \in Chunk :
        Here(r, e)' <=> (Here(r, e) /\ (r # p \/ e # c)) \/ (r = q /\ e = d)
  BY DEF Travels, Moved
<1>4. /\ currEpoch \in Nat /\ currEpoch' \in Nat /\ currEpoch' >= currEpoch
      /\ c.epoch <= currEpoch' /\ (p # "sch" => currEpoch' = currEpoch)
  <2>1. currEpoch \in Nat /\ currEpoch' \in Nat
    BY ConfOK DEF PlacesOK, Types
  <2> QED BY <1>1, <2>1 DEF Travels
<1>5. \A r, e : Route(r, e)' <=> Route(r, e)
  BY DEF Route, TopLayer
<1>6. Kept'
  <2> SUFFICES ASSUME NEW r \in Places, NEW e \in Chunk, Here(r, e)'
               PROVE  /\ e.localId \in Id /\ Route(r, e)
                      /\ e.epoch \in 1..(IF r = "sch" THEN currEpoch' + 1 ELSE currEpoch')
    BY <1>5 DEF Kept
  <2>1. CASE Here(r, e)
    <3>1. /\ e.localId \in Id /\ Route(r, e)
          /\ e.epoch \in 1..(IF r = "sch" THEN currEpoch + 1 ELSE currEpoch)
      BY <2>1 DEF PlacesOK, Kept
    <3> QED BY <1>4, <3>1
  <2>2. CASE r = q /\ e = d
    <3>1. c.epoch \in Nat /\ (p \in Slot => p # "sch")
      BY <1>1, PlacesApart DEF Chunk
    <3>2. e.epoch \in 1..(IF r = "sch" THEN currEpoch' + 1 ELSE currEpoch')
      BY <1>1, <1>2, <1>4, <2>2, <3>1 DEF Chunk
    <3> QED BY <1>1, <1>2, <2>2, <3>2
  <2> QED BY <1>3, <2>1, <2>2
<1>7. Single'
  <2> SUFFICES ASSUME NEW r \in Places, NEW s \in Places, NEW e \in Chunk, NEW f \in Chunk,
                      Here(r, e)', Here(s, f)', e.localId = f.localId
               PROVE  r = s /\ e = f
    BY DEF Single
  <2>1. \A t \in Places, x \in Chunk : Here(t, x) /\ x.localId = c.localId => t = p /\ x = c
    BY <1>1 DEF PlacesOK, Single
  <2>2. CASE Here(r, e) /\ (r # p \/ e # c)
    <3>1. e.localId # c.localId
      BY <2>1, <2>2
    <3>2. Here(s, f)
      BY <1>2, <1>3, <3>1
    <3> QED BY <2>2, <3>2 DEF PlacesOK, Single
  <2>3. CASE r = q /\ e = d
    <3>1. ~(Here(s, f) /\ (s # p \/ f # c))
      BY <1>2, <2>1, <2>3
    <3> QED BY <1>3, <2>3, <3>1
  <2> QED BY <1>3, <2>2, <2>3
<1>8. Everyone'
  <2> SUFFICES ASSUME NEW i \in Id
               PROVE  \E r \in Places, e \in Chunk : Here(r, e)' /\ e.localId = i
    BY DEF Everyone
  <2>1. PICK r \in Places, e \in Chunk : Here(r, e) /\ e.localId = i
    BY DEF PlacesOK, Everyone
  <2>2. CASE r # p \/ e # c
    BY <1>3, <2>1, <2>2
  <2>3. CASE r = p /\ e = c
    BY <1>2, <1>3, <2>1, <2>3
  <2> QED BY <2>2, <2>3
<1> QED BY <1>6, <1>7, <1>8 DEF PlacesOK

LEMMA UnmovedKeeps ==
  ASSUME PlacesOK, Types', conf' = conf, currEpoch' = currEpoch, Unmoved
  PROVE  PlacesOK'
<1>1. \A r \in Places, e \in Chunk : Here(r, e)' <=> Here(r, e)
  BY DEF Unmoved
<1>2. \A r, e : Route(r, e)' <=> Route(r, e)
  BY DEF Route, TopLayer
<1>3. Kept'
  BY <1>1, <1>2 DEF PlacesOK, Kept
<1>4. Single'
  BY <1>1 DEF PlacesOK, Single
<1>5. Everyone'
  BY <1>1 DEF PlacesOK, Everyone
<1> QED BY <1>3, <1>4, <1>5 DEF PlacesOK

LEMMA StashMovedKeeps ==
  ASSUME PlacesOK, Types', conf' = conf, currEpoch' = currEpoch, StashMoved
  PROVE  PlacesOK'
<1>1. \A r \in Places, e \in Chunk :
        Here(r, e)' <=> (Here(r, e) /\ r # "stash") \/ (r = "AE" /\ Here("stash", e))
  BY DEF StashMoved
<1>2. \A r, e : Route(r, e)' <=> Route(r, e)
  BY DEF Route, TopLayer
<1>3. "stash" \in Places /\ "AE" \in Places /\ \A e : Route("stash", e) <=> Route("AE", e)
  BY DEF Places, Queue, Route
<1>4. Kept'
  <2> SUFFICES ASSUME NEW r \in Places, NEW e \in Chunk, Here(r, e)'
               PROVE  /\ e.localId \in Id /\ Route(r, e)
                      /\ e.epoch \in 1..(IF r = "sch" THEN currEpoch + 1 ELSE currEpoch)
    BY <1>2 DEF Kept
  <2>1. CASE Here(r, e)
    BY <2>1 DEF PlacesOK, Kept
  <2>2. CASE r = "AE" /\ Here("stash", e)
    <3>1. e.localId \in Id /\ Route("stash", e) /\ e.epoch \in 1..currEpoch
      BY <1>3, <2>2 DEF PlacesOK, Kept
    <3> QED BY <1>3, <2>2, <3>1
  <2> QED BY <1>1, <2>1, <2>2
<1>5. Single'
  <2> SUFFICES ASSUME NEW r \in Places, NEW s \in Places, NEW e \in Chunk, NEW f \in Chunk,
                      Here(r, e)', Here(s, f)', e.localId = f.localId
               PROVE  r = s /\ e = f
    BY DEF Single
  <2>1. \A t, u \in Places, x, y \in Chunk :
          Here(t, x) /\ Here(u, y) /\ x.localId = y.localId => t = u /\ x = y
    BY DEF PlacesOK, Single
  <2> QED BY <1>1, <1>3, <2>1
<1>6. Everyone'
  <2> SUFFICES ASSUME NEW i \in Id
               PROVE  \E r \in Places, e \in Chunk : Here(r, e)' /\ e.localId = i
    BY DEF Everyone
  <2>1. PICK r \in Places, e \in Chunk : Here(r, e) /\ e.localId = i
    BY DEF PlacesOK, Everyone
  <2> QED BY <1>1, <1>3, <2>1
<1> QED BY <1>4, <1>5, <1>6 DEF PlacesOK

-----------------------------------------------------------------------------
(* The steps of the lambdas.                                               *)

Becomes(s, st, c) ==
  /\ lam' \in [Slot -> [st : LambdaStates, chunk : Chunk]]
  /\ \A t \in Slot \ {s} : lam'[t] = lam[t]
  /\ lam'[s].st = st /\ lam'[s].chunk = c

LEMMA LamBecomes ==
  ASSUME Types, NEW s \in Slot
  PROVE  /\ \A st \in LambdaStates : Goto(s, st) => Becomes(s, st, lam[s].chunk)
         /\ End(s) => Becomes(s, "none", NoChunk)
         /\ \A c \in Chunk : Invoke(s, c) => Becomes(s, "start", c) /\ lam[s].st = "none"
<1>1. lam \in [Slot -> [st : LambdaStates, chunk : Chunk]]
  BY DEF Types
<1>2. NoChunk \in Chunk /\ "none" \in LambdaStates /\ "start" \in LambdaStates
  BY DEF NoChunk, Chunk, PropType, LambdaStates
<1>3. ASSUME NEW st \in LambdaStates, Goto(s, st)
      PROVE  Becomes(s, st, lam[s].chunk)
  BY <1>1, <1>3 DEF Becomes, Goto
<1>4. ASSUME End(s) PROVE Becomes(s, "none", NoChunk)
  BY <1>1, <1>2, <1>4 DEF Becomes, End, Idle
<1>5. ASSUME NEW c \in Chunk, Invoke(s, c)
      PROVE  Becomes(s, "start", c) /\ lam[s].st = "none"
  BY <1>1, <1>2, <1>5 DEF Becomes, Invoke, Idle
<1> QED BY <1>3, <1>4, <1>5

\* The pushes: none, a new one to come for a chunk that is sent on, or one done.
Quiet ==
  /\ pushed' = pushed
  /\ \A s \in Slot : Pushing(s)' => Pushing(s) /\ lam'[s].chunk = lam[s].chunk

Told(s) ==
  /\ pushed' = pushed
  /\ lam'[s].chunk = lam[s].chunk
  /\ \A t \in Slot \ {s} : lam'[t] = lam[t]

Pushes(s) ==
  /\ Pushing(s) /\ pushed' = pushed \cup {lam[s].chunk} /\ ~Pushing(s)'
  /\ \A t \in Slot \ {s} : lam'[t] = lam[t]

\* The slots that do not change hold what they held.
LEMMA OthersCarry ==
  ASSUME NEW s \in Slot, NEW st, NEW c, Becomes(s, st, c)
  PROVE  \A t \in Slot \ {s} : \A e : (Carries(t, e)' <=> Carries(t, e)) /\ (Pushing(t)' <=> Pushing(t))
BY DEF Becomes, Carries, InCallback, Pushing

\* A lambda that is invoked, refused, or still being served, moves no chunk.
LEMMA LamUnmoved ==
  ASSUME NEW s \in Slot, NEW st, NEW c, Becomes(s, st, c), UNCHANGED <<queue, timeoutTable>>,
         \/ ~InCallback(s) /\ st \notin {"callback", "announce", "enqueue"}
         \/ InCallback(s) /\ st \in {"callback", "announce", "enqueue"} /\ c = lam[s].chunk
  PROVE  Unmoved
<1>1. \A e : Carries(s, e)' <=> Carries(s, e)
  BY DEF Becomes, Carries, InCallback
<1>2. \A t \in Slot, e \in Chunk : Carries(t, e)' <=> Carries(t, e)
  BY <1>1, OthersCarry
<1> QED BY <1>2 DEF Unmoved, Here

LEMMA LamQuiet ==
  ASSUME NEW s \in Slot, NEW st, NEW c, Becomes(s, st, c), pushed' = pushed,
         \/ st \notin {"ok", "refused"}
         \/ Pushing(s) /\ c = lam[s].chunk
  PROVE  Quiet
BY DEF Quiet, Becomes, Pushing

\* Answer ends a lambda or lets it push; in GCN only a lambda that was accepted.
LEMMA AnswerBecomes ==
  ASSUME Types, NEW s \in Slot, NEW st \in {"ok", "refused"}, Answer(s, st)
  PROVE  \/ Becomes(s, "none", NoChunk)
         \/ Becomes(s, st, lam[s].chunk) /\ (conf.gnn = "GCN" => st = "ok")
<1>1. st \in LambdaStates
  BY DEF LambdaStates
<1>2. \/ End(s)
      \/ Goto(s, st) /\ (conf.gnn = "GCN" => st = "ok")
  BY DEF Answer
<1> QED BY <1>1, <1>2, LamBecomes

StepOK ==
  /\ Types' /\ conf' = conf
  /\ \/ Unmoved /\ currEpoch' = currEpoch
     \/ StashMoved /\ ~pipelineHalt /\ currEpoch' = currEpoch
     \/ \E p, q \in Places : \E c, d \in Chunk :
          Travels(p, c, q, d) /\ (p \in Queue => ~pipelineHalt)
  /\ conf.gnn = "GCN" =>
       \/ Quiet
       \/ \E s \in Slot : Pushes(s)
       \/ \E s \in Slot, q \in Places, d \in Chunk : Told(s) /\ Travels(s, lam[s].chunk, q, d)

\* pipelineHalt is set when all chunks wait for an epoch there is not.
Halts ==
  /\ Unmoved
  /\ Cardinality(queue["sch"]) = NumLambdas
  /\ \A d \in queue["sch"] : d.epoch > conf.numEpochs

LEMMA PullStep ==
  ASSUME Types, NEW s \in Slot, Pull(s)
  PROVE  StepOK /\ pipelineHalt' = pipelineHalt
<1>1. \/ Becomes(s, "got", lam[s].chunk)
      \/ Becomes(s, "none", NoChunk)
  BY LamBecomes DEF Pull, LambdaStates
<1>2. /\ UNCHANGED <<conf, queue, currEpoch, pipelineHalt, timeoutTable, pushed>>
      /\ ~InCallback(s)
  BY DEF Pull, engine, At, InCallback
<1>3. Unmoved /\ Quiet
  BY <1>1, <1>2, LamUnmoved, LamQuiet
<1>4. Types'
  BY <1>1, <1>2 DEF Types, Becomes
<1> QED BY <1>2, <1>3, <1>4 DEF StepOK

LEMMA CheckExistStep ==
  ASSUME Types, NEW s \in Slot, CheckExist(s)
  PROVE  StepOK /\ pipelineHalt' = pipelineHalt
<1>1. \/ Becomes(s, "recv", lam[s].chunk)
      \/ Becomes(s, "none", NoChunk)
      \/ Becomes(s, "refused", lam[s].chunk) /\ conf.gnn # "GCN"
  BY LamBecomes, AnswerBecomes DEF CheckExist, LambdaStates
<1>2. /\ UNCHANGED <<conf, queue, currEpoch, pipelineHalt, timeoutTable, pushed>>
      /\ ~InCallback(s)
  BY DEF CheckExist, engine, At, InCallback
<1>3. Unmoved /\ (conf.gnn = "GCN" => Quiet)
  BY <1>1, <1>2, LamUnmoved, LamQuiet
<1>4. Types'
  BY <1>1, <1>2 DEF Types, Becomes
<1> QED BY <1>2, <1>3, <1>4 DEF StepOK

LEMMA FailStep ==
  ASSUME Types, NEW s \in Slot, Fail(s)
  PROVE  StepOK /\ pipelineHalt' = pipelineHalt
<1>1. Becomes(s, "none", NoChunk)
  BY LamBecomes DEF Fail
<1>2. /\ UNCHANGED <<conf, queue, currEpoch, pipelineHalt, timeoutTable, pushed>>
      /\ ~InCallback(s)
  BY DEF Fail, engine, InCallback
<1>3. Unmoved /\ Quiet
  BY <1>1, <1>2, LamUnmoved, LamQuiet
<1>4. Types'
  BY <1>1, <1>2 DEF Types, Becomes
<1> QED BY <1>2, <1>3, <1>4 DEF StepOK

LEMMA PushGradientStep ==
  ASSUME Types, NEW s \in Slot, PushGradient(s)
  PROVE  StepOK /\ pipelineHalt' = pipelineHalt
<1>1. Becomes(s, "none", NoChunk)
  BY LamBecomes DEF PushGradient
<1>2. /\ UNCHANGED <<conf, queue, currEpoch, pipelineHalt, timeoutTable>>
      /\ ~InCallback(s) /\ Pushing(s) /\ pushed' = pushed \cup {lam[s].chunk}
  BY DEF PushGradient, engine, InCallback, Pushing
<1>3. Unmoved /\ Pushes(s)
  BY <1>1, <1>2, LamUnmoved DEF Pushes, Becomes, Pushing
<1>4. Types'
  BY <1>1, <1>2 DEF Types, Becomes
<1> QED BY <1>2, <1>3, <1>4 DEF StepOK

LEMMA AnnounceStep ==
  ASSUME Types, NEW s \in Slot, Announce(s)
  PROVE  StepOK /\ pipelineHalt' = pipelineHalt
<1>1. Becomes(s, "enqueue", lam[s].chunk)
  BY LamBecomes DEF Announce, LambdaStates
<1>2. /\ UNCHANGED <<conf, queue, currEpoch, pipelineHalt, timeoutTable, pushed>>
      /\ InCallback(s)
  BY DEF Announce, engine, lambdas, At, InCallback
<1>3. Unmoved /\ Quiet
  BY <1>1, <1>2, LamUnmoved, LamQuiet
<1>4. Types'
  BY <1>1, <1>2 DEF Types, Becomes
<1> QED BY <1>2, <1>3, <1>4 DEF StepOK

\* NNRecv: the chunk leaves timeoutTable, into the hands of the worker.
LEMMA NNRecvStep ==
  ASSUME Types, NEW s \in Slot, NNRecv(s)
  PROVE  StepOK /\ pipelineHalt' = pipelineHalt
<1> DEFINE c == lam[s].chunk
<1>1. /\ UNCHANGED <<conf, queue, currEpoch, pipelineHalt, pushed>>
      /\ ~InCallback(s)
  BY DEF NNRecv, engine, At, InCallback
<1>2. CASE ~Expected(s) /\ Answer(s, "refused") /\ UNCHANGED timeoutTable
  <2>1. \/ Becomes(s, "none", NoChunk)
        \/ Becomes(s, "refused", c) /\ conf.gnn # "GCN"
    BY <1>2, AnswerBecomes
  <2>2. Unmoved /\ (conf.gnn = "GCN" => Quiet)
    BY <1>1, <1>2, <2>1, LamUnmoved, LamQuiet
  <2>3. Types'
    BY <1>1, <1>2, <2>1 DEF Types, Becomes
  <2> QED BY <1>1, <2>2, <2>3 DEF StepOK
<1>3. CASE Expected(s) /\ Accept(s)
  <2>1. Becomes(s, "callback", c)
    BY <1>3, LamBecomes DEF Accept, LambdaStates
  <2>2. c \in timeoutTable /\ timeoutTable' = timeoutTable \ {c} /\ c \in Chunk
    BY <1>3 DEF Expected, Accept, Types
  <2>3. Types' /\ Quiet
    BY <1>1, <2>1, <2>2, LamQuiet DEF Types, Becomes
  <2>4. \A e : (Carries(s, e)' <=> e = c) /\ ~Carries(s, e)
    BY <1>1, <2>1 DEF Becomes, Carries, InCallback
  <2>5. \A t \in Slot \ {s} : \A e : Carries(t, e)' <=> Carries(t, e)
    BY <2>1, OthersCarry
  <2> HIDE DEF c
  <2>6. Moved("table", c, s, c)
    <3> SUFFICES ASSUME NEW r \in Places, NEW e \in Chunk
                 PROVE  Here(r, e)' <=> (Here(r, e) /\ (r # "table" \/ e # c)) \/ (r = s /\ e = c)
      BY DEF Moved
    <3>1. CASE r \in Queue
      BY <1>1, <3>1, PlacesApart DEF Here
    <3>2. CASE r = "table"
      BY <2>2, <3>2, PlacesApart DEF Here
    <3>3. CASE r = s
      BY <2>4, <3>3, PlacesApart DEF Here
    <3>4. CASE r \in Slot \ {s}
      BY <2>5, <3>4, PlacesApart DEF Here
    <3> QED BY <3>1, <3>2, <3>3, <3>4 DEF Places
  <2>7. Travels("table", c, s, c)
    BY <1>1, <2>2, <2>6 DEF Travels, Here, Hop
  <2>8. "table" \in Places /\ s \in Places /\ "table" \notin Queue
    BY PlacesApart DEF Places
  <2> QED BY <1>1, <2>2, <2>3, <2>7, <2>8 DEF StepOK
<1> QED BY <1>2, <1>3 DEF NNRecv

\* The end of the callback: the chunk is sent on and the lambda gets its answer.
LEMMA SendOnStep ==
  ASSUME PlacesOK, NEW s \in Slot, InCallback(s), SendOn(lam[s].chunk), Answer(s, "ok"),
         UNCHANGED <<conf, currEpoch, pipelineHalt, timeoutTable, pushed>>
  PROVE  StepOK
<1> DEFINE c == lam[s].chunk
<1>1. c \in Chunk /\ Here(s, c) /\ s \in Places /\ Types
  BY DEF PlacesOK, Types, Here, Carries, Places
<1>2. Route(s, c) /\ conf \in Confs
  BY <1>1 DEF PlacesOK, Kept, Types
<1>3. \E q \in Queue : \E d : Hop(s, c, q, d) /\ queue' = [queue EXCEPT ![q] = @ \cup {d}]
  <2>1. c.dir \in {"FORWARD", "BACKWARD"}
    BY <1>1 DEF Chunk, PropType
  <2>2. CASE ~c.vertex
    BY <2>2 DEF SendOn, Push, Hop, Queue
  <2>3. CASE IsLastLayer(c)
    BY <2>3 DEF SendOn, Push, Hop, Queue, IsLastLayer
  <2>4. CASE c.vertex /\ c.dir = "FORWARD"
    BY <2>4 DEF SendOn, Push, Hop, Queue, IsLastLayer
  <2>5. CASE c.vertex /\ c.dir = "BACKWARD" /\ c.layer # 0
    BY <2>5 DEF SendOn, Push, Hop, Queue, IsLastLayer
  <2> QED BY <2>1, <2>2, <2>3, <2>4, <2>5 DEF IsLastLayer
<1>13. PICK q \in Queue : \E d : Hop(s, c, q, d) /\ queue' = [queue EXCEPT ![q] = @ \cup {d}]
  BY <1>3
<1>14. PICK d : Hop(s, c, q, d) /\ queue' = [queue EXCEPT ![q] = @ \cup {d}]
  BY <1>13
<1>4. q \in Places /\ d \in Chunk
  BY <1>1, <1>2, <1>14, HopRoute DEF Places
<1>5. \/ Becomes(s, "none", NoChunk)
      \/ Becomes(s, "ok", c)
  BY <1>1, AnswerBecomes
<1>6. Types'
  BY <1>1, <1>14, <1>4, <1>5 DEF Types, Becomes
<1>7. \/ Quiet
      \/ Told(s)
  BY <1>5, LamQuiet DEF Told, Becomes
<1>8. \A e : ~Carries(s, e)' /\ (Carries(s, e) <=> e = c)
  BY <1>5 DEF Becomes, Carries, InCallback
<1>9. \A t \in Slot \ {s} : \A e : Carries(t, e)' <=> Carries(t, e)
  BY <1>5, OthersCarry
<1> HIDE DEF c
<1>10. Moved(s, c, q, d)
  <2> SUFFICES ASSUME NEW r \in Places, NEW e \in Chunk
               PROVE  Here(r, e)' <=> (Here(r, e) /\ (r # s \/ e # c)) \/ (r = q /\ e = d)
    BY DEF Moved
  <2>1. CASE r \in Queue
    <3>1. queue'[r] = IF r = q THEN queue[r] \cup {d} ELSE queue[r]
      BY <1>1, <1>14, <2>1 DEF Types
    <3> QED BY <2>1, <3>1, PlacesApart DEF Here
  <2>2. CASE r = "table"
    BY <1>14, <2>2, PlacesApart DEF Here
  <2>3. CASE r = s
    BY <1>14, <1>8, <2>3, PlacesApart DEF Here
  <2>4. CASE r \in Slot \ {s}
    BY <1>14, <1>9, <2>4, PlacesApart DEF Here
  <2> QED BY <2>1, <2>2, <2>3, <2>4 DEF Places
<1>11. Travels(s, c, q, d)
  BY <1>1, <1>14, <1>10, PlacesApart DEF Travels
<1>12. s \notin Queue
  BY PlacesApart
<1> QED BY <1>1, <1>4, <1>6, <1>7, <1>11, <1>12 DEF StepOK, c

LEMMA CallbackStep ==
  ASSUME PlacesOK, NEW s \in Slot, Callback(s)
  PROVE  StepOK /\ pipelineHalt' = pipelineHalt
<1> DEFINE c == lam[s].chunk
           all == Counted(c) /\ numFinishedEpoch[Ring(c.epoch)] + 1 = NumLambdas
<1>1. /\ UNCHANGED <<conf, currEpoch, pipelineHalt, timeoutTable, pushed>>
      /\ InCallback(s) /\ Types
      /\ IF all THEN Goto(s, "announce") /\ UNCHANGED queue
         ELSE Answer(s, "ok") /\ SendOn(c)
  BY DEF Callback, engine, At, InCallback, PlacesOK
<1> HIDE DEF all
<1>2. CASE all
  <2>1. Becomes(s, "announce", c)
    BY <1>1, <1>2, LamBecomes DEF LambdaStates
  <2>2. Unmoved /\ Quiet
    BY <1>1, <1>2, <2>1, LamUnmoved, LamQuiet
  <2>3. Types'
    BY <1>1, <1>2, <2>1 DEF Types, Becomes
  <2> QED BY <1>1, <2>2, <2>3 DEF StepOK
<1>3. CASE ~all
  BY <1>1, <1>3, SendOnStep
<1> QED BY <1>2, <1>3

LEMMA EnqueueStep ==
  ASSUME PlacesOK, NEW s \in Slot, Enqueue(s)
  PROVE  StepOK /\ pipelineHalt' = pipelineHalt
<1>1. /\ UNCHANGED <<conf, currEpoch, pipelineHalt, timeoutTable, pushed>>
      /\ InCallback(s) /\ Answer(s, "ok") /\ SendOn(lam[s].chunk)
  BY DEF Enqueue, engine, At, InCallback
<1> QED BY <1>1, SendOnStep

LEMMA RelaunchStep ==
  ASSUME Types, NEW i \in Id, Relaunch(i)
  PROVE  StepOK /\ pipelineHalt' = pipelineHalt
<1>1. /\ UNCHANGED <<conf, queue, currEpoch, pipelineHalt, timeoutTable, pushed>>
      /\ \E c \in timeoutTable, s \in Slot : Invoke(s, c)
  BY DEF Relaunch, RelaunchLambda, RelaunchOther, engine
<1>2. PICK c \in timeoutTable, s \in Slot : Invoke(s, c)
  BY <1>1
<1>3. Becomes(s, "start", c) /\ lam[s].st = "none"
  BY <1>2, LamBecomes DEF Types
<1>4. Unmoved /\ Quiet
  BY <1>1, <1>3, LamUnmoved, LamQuiet DEF InCallback
<1>5. Types'
  BY <1>1, <1>3 DEF Types, Becomes
<1> QED BY <1>1, <1>4, <1>5 DEF StepOK

-----------------------------------------------------------------------------
(* The steps of the engine.                                                *)

LEMMA AllQuiet ==
  ASSUME UNCHANGED <<lam, pushed>>
  PROVE  Quiet /\ \A t \in Slot : \A e : Carries(t, e)' <=> Carries(t, e)
BY DEF Quiet, Pushing, Carries, InCallback

\* A chunk goes from one queue to another.
LEMMA QueueStep ==
  ASSUME PlacesOK, ~pipelineHalt, NEW from \in Queue, NEW to \in Queue, from # to,
         NEW c \in queue[from], NEW d, Hop(from, c, to, d), Move(from, c, to, d),
         UNCHANGED <<conf, timeoutTable, lam, pushed>>, pipelineHalt' \in BOOLEAN,
         currEpoch' \in 0..conf.numEpochs,
         IF from = "sch" THEN c.epoch <= currEpoch' /\ currEpoch' \in {currEpoch, currEpoch + 1}
         ELSE currEpoch' = currEpoch
  PROVE  StepOK
<1>1. c \in Chunk /\ Here(from, c) /\ Types /\ from \in Places /\ to \in Places
  BY DEF PlacesOK, Types, Here, Places
<1>2. d \in Chunk
  BY <1>1, HopRoute DEF PlacesOK, Kept, Types
<1>3. queue' = [queue EXCEPT ![from] = @ \ {c}, ![to] = @ \cup {d}]
  BY DEF Move
<1>4. \A r \in Queue : queue'[r] = IF r = from THEN queue[r] \ {c}
                                   ELSE IF r = to THEN queue[r] \cup {d} ELSE queue[r]
  BY <1>1, <1>3 DEF Types
<1>5. Types'
  <2>1. queue' \in [Queue -> SUBSET Chunk]
    BY <1>1, <1>2, <1>3 DEF Types
  <2> QED BY <1>1, <2>1 DEF Types
<1>6. Quiet /\ \A t \in Slot : \A e : Carries(t, e)' <=> Carries(t, e)
  BY AllQuiet
<1>7. Moved(from, c, to, d)
  <2> SUFFICES ASSUME NEW r \in Places, NEW e \in Chunk
               PROVE  Here(r, e)' <=> (Here(r, e) /\ (r # from \/ e # c)) \/ (r = to /\ e = d)
    BY DEF Moved
  <2>1. CASE r \in Queue
    BY <1>4, <2>1, PlacesApart DEF Here
  <2>2. CASE r = "table"
    BY <2>2, PlacesApart DEF Here
  <2>3. CASE r \in Slot
    BY <1>6, <2>3, PlacesApart DEF Here
  <2> QED BY <2>1, <2>2, <2>3 DEF Places
<1>8. Travels(from, c, to, d)
  BY <1>1, <1>7 DEF Travels
<1> QED BY <1>1, <1>2, <1>5, <1>6, <1>8 DEF StepOK

\* A chunk leaves its queue for a lambda phase.  No phase of this chunk is in
\* timeoutTable, so that NNCompute does not drop it.
LEMMA TableStep ==
  ASSUME PlacesOK, ~pipelineHalt, NEW q \in Queue \ {"sch"}, NEW c \in queue[q], NEW d,
         Hop(q, c, "table", d), Pop(q, c), NNCompute(d),
         UNCHANGED <<conf, currEpoch, pipelineHalt>>
  PROVE  StepOK
<1>1. c \in Chunk /\ Here(q, c) /\ Types /\ q \in Places /\ "table" \in Places
  BY DEF PlacesOK, Types, Here, Places
<1>2. d \in Chunk /\ d.localId = c.localId
  BY <1>1, HopRoute DEF PlacesOK, Kept, Types
<1>3. d \notin timeoutTable
  <2>1. d \in timeoutTable => Here("table", d)
    BY DEF Here
  <2>2. q # "table"
    BY PlacesApart
  <2> QED BY <1>1, <1>2, <2>1, <2>2 DEF PlacesOK, Single
<1>4. /\ timeoutTable' = timeoutTable \cup {d} /\ pushed' = pushed
      /\ \E s \in Slot : Invoke(s, d)
  BY <1>3 DEF NNCompute
<1>5. PICK s \in Slot : Invoke(s, d)
  BY <1>4
<1>6. Becomes(s, "start", d) /\ lam[s].st = "none"
  BY <1>1, <1>2, <1>5, LamBecomes
<1>7. \A r \in Queue : queue'[r] = IF r = q THEN queue[r] \ {c} ELSE queue[r]
  BY <1>1 DEF Types, Pop
<1>8. queue' \in [Queue -> SUBSET Chunk]
  BY <1>1 DEF Types, Pop
<1>9. Types'
  BY <1>1, <1>2, <1>4, <1>6, <1>8 DEF Types, Becomes
<1>10. Quiet
  BY <1>4, <1>6, LamQuiet
<1>11. \A t \in Slot : \A e : Carries(t, e)' <=> Carries(t, e)
  <2>1. \A e : ~Carries(s, e)' /\ ~Carries(s, e)
    BY <1>6 DEF Becomes, Carries, InCallback
  <2> QED BY <1>6, <2>1, OthersCarry
<1>12. Moved(q, c, "table", d)
  <2> SUFFICES ASSUME NEW r \in Places, NEW e \in Chunk
               PROVE  Here(r, e)' <=> (Here(r, e) /\ (r # q \/ e # c)) \/ (r = "table" /\ e = d)
    BY DEF Moved
  <2>1. CASE r \in Queue
    BY <1>7, <2>1, PlacesApart DEF Here
  <2>2. CASE r = "table"
    BY <1>4, <2>2, PlacesApart DEF Here
  <2>3. CASE r \in Slot
    BY <1>11, <2>3, PlacesApart DEF Here
  <2> QED BY <2>1, <2>2, <2>3 DEF Places
<1>13. Travels(q, c, "table", d)
  BY <1>1, <1>12 DEF Travels
<1> QED BY <1>1, <1>2, <1>9, <1>10, <1>13 DEF StepOK

LEMMA ScheduleStep ==
  ASSUME PlacesOK, Schedule
  PROVE  StepOK /\ (pipelineHalt' = pipelineHalt \/ Halts)
<1>0. /\ ~pipelineHalt /\ UNCHANGED <<conf, timeoutTable, lam, pushed>>
      /\ Types /\ conf.numEpochs \in Nat /\ currEpoch \in Nat
  BY ConfOK DEF Schedule, lambdas, PlacesOK, Types
<1>1. PICK c \in queue["sch"] : /\ IsTop("sch", c)
                                /\ SchedHalt(c) \/ SchedBarrier(c) \/ SchedStart(c) \/ SchedPass(c)
  BY DEF Schedule
<1>2. c \in Chunk /\ c.epoch \in Nat /\ c.epoch <= currEpoch + 1
  <2>1. "sch" \in Queue /\ "sch" \in Places
    BY DEF Queue, Places
  <2>2. c \in Chunk /\ Here("sch", c)
    BY <1>0, <2>1 DEF Types, Here
  <2>3. c.epoch \in 1..currEpoch + 1
    BY <2>1, <2>2 DEF PlacesOK, Kept
  <2> QED BY <1>0, <2>2, <2>3
<1>3. FirstQueue \in Queue /\ FirstQueue # "sch" /\ "sch" \in Queue /\ Hop("sch", c, FirstQueue, c)
  BY DEF FirstQueue, Queue, Hop
<1>8. \A d \in queue["sch"] : ~Less(c, d)
  <2>1. IsTop("sch", c)
    BY <1>1
  <2> QED BY <2>1 DEF IsTop
<1>4. CASE SchedHalt(c)
  <2>1. UNCHANGED <<queue, currEpoch>> /\ pipelineHalt' \in BOOLEAN
    BY <1>4 DEF SchedHalt
  <2>2. Unmoved
    BY <1>0, <2>1, AllQuiet DEF Unmoved, Here
  <2>3. Types'
    BY <1>0, <2>1 DEF Types
  <2>4. Halts
    <3>1. ASSUME NEW d \in queue["sch"] PROVE d.epoch > conf.numEpochs
      <4>1. d \in Chunk /\ d.epoch \in Nat
        BY <1>0, <1>3 DEF Types, Chunk
      <4>2. ~(c.epoch > d.epoch)
        <5>1. c.epoch > d.epoch => Less(c, d)
          BY DEF Less
        <5> QED BY <1>8, <5>1
      <4> QED BY <1>0, <1>2, <1>4, <4>1, <4>2 DEF SchedHalt
    <3> QED BY <1>4, <2>2, <3>1 DEF SchedHalt, Halts
  <2> QED BY <1>0, <2>1, <2>2, <2>3, <2>4, AllQuiet DEF StepOK
<1>5. CASE SchedBarrier(c)
  <2>1. UNCHANGED <<queue, currEpoch, pipelineHalt>>
    BY <1>5 DEF SchedBarrier
  <2>2. Unmoved
    BY <1>0, <2>1, AllQuiet DEF Unmoved, Here
  <2>3. Types'
    BY <1>0, <2>1 DEF Types
  <2> QED BY <1>0, <2>1, <2>2, <2>3, AllQuiet DEF StepOK
<1>6. CASE SchedStart(c)
  <2>1. /\ Move("sch", c, FirstQueue, c) /\ pipelineHalt' = pipelineHalt
        /\ currEpoch' = currEpoch + 1 /\ c.epoch <= conf.numEpochs /\ c.epoch > currEpoch
    BY <1>6 DEF SchedStart
  <2>2. currEpoch' \in 0..conf.numEpochs /\ c.epoch <= currEpoch'
    BY <1>0, <1>2, <2>1
  <2>3. pipelineHalt' \in BOOLEAN
    BY <1>0, <2>1 DEF Types
  <2> QED BY <1>0, <1>3, <2>1, <2>2, <2>3, QueueStep
<1>7. CASE SchedPass(c)
  <2>1. /\ Move("sch", c, FirstQueue, c) /\ pipelineHalt' = pipelineHalt
        /\ currEpoch' = currEpoch /\ c.epoch <= currEpoch
    BY <1>7 DEF SchedPass, engine
  <2>2. currEpoch' \in 0..conf.numEpochs /\ pipelineHalt' \in BOOLEAN
    BY <1>0, <2>1 DEF Types
  <2> QED BY <1>0, <1>3, <2>1, <2>2, QueueStep
<1> QED BY <1>1, <1>4, <1>5, <1>6, <1>7

LEMMA WorkStep ==
  ASSUME PlacesOK, Gather \/ ApplyVertex \/ Scatter \/ ApplyEdge
  PROVE  StepOK /\ pipelineHalt' = pipelineHalt
<1>0. /\ ~pipelineHalt /\ UNCHANGED <<conf, currEpoch, pipelineHalt>>
      /\ currEpoch' \in 0..conf.numEpochs /\ pipelineHalt' \in BOOLEAN
      /\ Types
  BY DEF Gather, ApplyVertex, Scatter, ApplyEdge, engine, PlacesOK, Types
<1>1. {"GA", "AV", "SC", "stash", "AE"} \subseteq Queue \ {"sch"}
  BY DEF Queue
<1>2. CASE Gather
  <2>1. UNCHANGED <<timeoutTable, lam, pushed>>
    BY <1>2 DEF Gather, lambdas
  <2>2. PICK c \in queue["GA"] :
          \/ IsTurn(c) /\ Move("GA", c, "SC", [c EXCEPT !.dir = "BACKWARD"])
          \/ ~IsTurn(c) /\ Move("GA", c, "AV", c)
    BY <1>2 DEF Gather, IsTurn
  <2>3. CASE IsTurn(c) /\ Move("GA", c, "SC", [c EXCEPT !.dir = "BACKWARD"])
    <3>1. Hop("GA", c, "SC", [c EXCEPT !.dir = "BACKWARD"])
      BY <2>3 DEF Hop
    <3> QED BY <1>0, <1>1, <2>1, <2>3, <3>1, QueueStep
  <2>4. CASE ~IsTurn(c) /\ Move("GA", c, "AV", c)
    <3>1. Hop("GA", c, "AV", c)
      BY <2>4 DEF Hop
    <3> QED BY <1>0, <1>1, <2>1, <2>4, <3>1, QueueStep
  <2> QED BY <2>2, <2>3, <2>4
<1>3. CASE ApplyVertex
  <2>1. PICK c \in queue["AV"] :
          LET d == [c EXCEPT !.vertex = TRUE] IN
          Pop("AV", c) /\ NNCompute(IF d.dir = "FORWARD" THEN d ELSE Inc(d))
    BY <1>3 DEF ApplyVertex
  <2>2. c \in Chunk
    BY <1>0, <1>1 DEF Types
  <2>3. [c EXCEPT !.vertex = TRUE].dir = c.dir
    BY <2>2 DEF Chunk
  <2>4. Pop("AV", c) /\ NNCompute(Applied(c))
    BY <2>1, <2>3 DEF Applied
  <2>5. Hop("AV", c, "table", Applied(c))
    BY DEF Hop
  <2> QED BY <1>0, <1>1, <2>4, <2>5, TableStep
<1>4. CASE Scatter
  <2>1. UNCHANGED <<timeoutTable, lam, pushed>>
    BY <1>4 DEF Scatter, lambdas
  <2>2. PICK c \in queue["SC"], q \in {"stash", "AE"} : Move("SC", c, q, c)
    BY <1>4 DEF Scatter
  <2>3. Hop("SC", c, q, c)
    BY DEF Hop
  <2> QED BY <1>0, <1>1, <2>1, <2>2, <2>3, QueueStep
<1>5. CASE ApplyEdge
  <2>1. PICK c \in queue["AE"] :
          \/ /\ conf.gnn = "GCN" /\ Move("AE", c, "GA", [c EXCEPT !.vertex = FALSE])
             /\ UNCHANGED <<timeoutTable, lambdas>>
          \/ /\ conf.gnn = "GAT" /\ Pop("AE", c) /\ NNCompute([c EXCEPT !.vertex = FALSE])
    BY <1>5 DEF ApplyEdge
  <2>2. Hop("AE", c, IF conf.gnn = "GCN" THEN "GA" ELSE "table", [c EXCEPT !.vertex = FALSE])
    BY DEF Hop
  <2>3. CASE /\ conf.gnn = "GCN" /\ Move("AE", c, "GA", [c EXCEPT !.vertex = FALSE])
             /\ UNCHANGED <<timeoutTable, lambdas>>
    <3>1. UNCHANGED <<timeoutTable, lam, pushed>>
      BY <2>3 DEF lambdas
    <3>2. Hop("AE", c, "GA", [c EXCEPT !.vertex = FALSE])
      BY <2>2, <2>3
    <3> QED BY <1>0, <1>1, <2>3, <3>1, <3>2, QueueStep
  <2>4. CASE conf.gnn = "GAT" /\ Pop("AE", c) /\ NNCompute([c EXCEPT !.vertex = FALSE])
    <3>1. Hop("AE", c, "table", [c EXCEPT !.vertex = FALSE])
      BY <2>2, <2>4
    <3> QED BY <1>0, <1>1, <2>4, <3>1, TableStep
  <2> QED BY <2>1, <2>3, <2>4
<1> QED BY <1>0, <1>2, <1>3, <1>4, <1>5

LEMMA ScatterAllStep ==
  ASSUME PlacesOK, ScatterAll
  PROVE  StepOK /\ pipelineHalt' = pipelineHalt
<1>0. /\ ~pipelineHalt /\ UNCHANGED <<conf, currEpoch, pipelineHalt, timeoutTable, lam, pushed>>
      /\ queue' = [queue EXCEPT !["stash"] = {}, !["AE"] = @ \cup queue["stash"]]
      /\ queue \in [Queue -> SUBSET Chunk] /\ Types
  BY DEF ScatterAll, engine, lambdas, PlacesOK, Types
<1>1. "stash" \in Queue /\ "AE" \in Queue
  BY DEF Queue
<1>2. \A r \in Queue : queue'[r] = IF r = "stash" THEN {}
                                   ELSE IF r = "AE" THEN queue[r] \cup queue["stash"] ELSE queue[r]
  BY <1>0
<1>3. queue' \in [Queue -> SUBSET Chunk]
  BY <1>0, <1>1
<1>4. Types'
  BY <1>0, <1>3 DEF Types
<1>5. Quiet /\ \A t \in Slot : \A e : Carries(t, e)' <=> Carries(t, e)
  BY <1>0, AllQuiet
<1>6. StashMoved
  <2> SUFFICES ASSUME NEW r \in Places, NEW e \in Chunk
               PROVE  Here(r, e)' <=> (Here(r, e) /\ r # "stash") \/ (r = "AE" /\ Here("stash", e))
    BY DEF StashMoved
  <2>0. Here("stash", e) <=> e \in queue["stash"]
    BY <1>1, PlacesApart DEF Here
  <2>1. CASE r \in Queue
    BY <1>2, <2>0, <2>1, PlacesApart DEF Here
  <2>2. CASE r = "table"
    BY <1>0, <2>2, PlacesApart DEF Here
  <2>3. CASE r \in Slot
    BY <1>0, <1>5, <2>3, PlacesApart DEF Here
  <2> QED BY <2>1, <2>2, <2>3 DEF Places
<1> QED BY <1>0, <1>4, <1>5, <1>6 DEF StepOK

\* Nothing that the invariant is about changes.
LEMMA IdleStep ==
  ASSUME PlacesOK, UNCHANGED <<conf, queue, currEpoch, pipelineHalt, timeoutTable, lam, pushed>>
  PROVE  StepOK
<1>1. Types'
  BY DEF PlacesOK, Types
<1>2. Unmoved
  BY AllQuiet DEF Unmoved, Here
<1> QED BY <1>1, <1>2, AllQuiet DEF StepOK

LEMMA NextStep ==
  ASSUME PlacesOK, [Next]_vars
  PROVE  StepOK /\ (pipelineHalt' = pipelineHalt \/ Halts)
<1>1. CASE UNCHANGED vars
  BY <1>1, IdleStep DEF vars, engine, lambdas
<1>2. CASE ReadEpochUpdates
  BY <1>2, IdleStep DEF ReadEpochUpdates, engine, lambdas
<1>3. CASE Schedule
  BY <1>3, ScheduleStep
<1>4. CASE Gather \/ ApplyVertex \/ Scatter \/ ApplyEdge
  BY <1>4, WorkStep
<1>5. CASE ScatterAll
  BY <1>5, ScatterAllStep
<1>6. ASSUME NEW i \in Id, Relaunch(i)
      PROVE  StepOK /\ pipelineHalt' = pipelineHalt
  BY <1>6, RelaunchStep DEF PlacesOK
<1>7. ASSUME NEW s \in Slot, LambdaStep(s) \/ Fail(s)
      PROVE  StepOK /\ pipelineHalt' = pipelineHalt
  BY <1>7, PullStep, CheckExistStep, NNRecvStep, CallbackStep, AnnounceStep, EnqueueStep,
     PushGradientStep, FailStep DEF LambdaStep, PlacesOK
<1> QED BY <1>1, <1>2, <1>3, <1>4, <1>5, <1>6, <1>7 DEF Next

-----------------------------------------------------------------------------
(* Chunks are neither lost nor doubled.                                    *)

LEMMA PlacesInit ==
  ASSUME Init
  PROVE  PlacesOK
<1> DEFINE first(i) == [localId |-> i, layer |-> 0, dir |-> "FORWARD", epoch |-> 1, vertex |-> TRUE]
<1>1. \A i \in Id : first(i) \in Chunk /\ first(i).localId = i
  BY ChunkPipelineOK DEF Chunk, PropType
<1>2. /\ queue["sch"] = {first(i) : i \in Id}
      /\ \A q \in Queue \ {"sch"} : queue[q] = {}
  BY DEF Init, Queue
<1>3. /\ conf \in Confs /\ currEpoch = 0 /\ pipelineHalt = FALSE
      /\ timeoutTable = {} /\ pushed = {} /\ lam = [s \in Slot |-> Idle]
  BY DEF Init
<1>4. Types
  <2>1. queue \in [Queue -> SUBSET Chunk]
    BY <1>1 DEF Init
  <2>2. Idle \in [st : LambdaStates, chunk : Chunk]
    BY DEF Idle, NoChunk, Chunk, PropType, LambdaStates
  <2>3. currEpoch \in 0..conf.numEpochs
    BY <1>3, ConfOK
  <2> QED BY <1>3, <2>1, <2>2, <2>3 DEF Types
<1>5. \A p \in Places : \A c : Here(p, c) <=> p = "sch" /\ \E i \in Id : c = first(i)
  <2>1. \A s \in Slot : ~InCallback(s)
    BY <1>3 DEF InCallback, Idle
  <2> QED BY <1>2, <1>3, <2>1, PlacesApart DEF Here, Carries, Places, Queue
<1>6. Kept
  <2>1. \A i \in Id : Route("sch", first(i)) /\ first(i).epoch = 1
    BY DEF Route
  <2> QED BY <1>1, <1>3, <1>5, <2>1 DEF Kept
<1> HIDE DEF first
<1>7. Single
  BY <1>1, <1>5 DEF Single
<1>8. Everyone
  <2>1. "sch" \in Places
    BY DEF Places, Queue
  <2> QED BY <1>1, <1>5, <2>1 DEF Everyone
<1> QED BY <1>4, <1>6, <1>7, <1>8 DEF PlacesOK

LEMMA PlacesKept ==
  ASSUME PlacesOK, StepOK
  PROVE  PlacesOK'
<1>1. Types' /\ conf' = conf
  BY DEF StepOK
<1>2. CASE Unmoved /\ currEpoch' = currEpoch
  BY <1>1, <1>2, UnmovedKeeps
<1>3. CASE StashMoved /\ currEpoch' = currEpoch
  BY <1>1, <1>3, StashMovedKeeps
<1>4. CASE \E p, q \in Places : \E c, d \in Chunk : Travels(p, c, q, d)
  BY <1>1, <1>4, TravelsKeeps
<1> QED BY <1>2, <1>3, <1>4 DEF StepOK

QueuePlaces(q) == {<<q, c>> : c \in queue[q]}

\* Held lists the places of the chunks, and has one for each.
LEMMA HeldIsHere ==
  ASSUME Types
  PROVE  Held = {h \in Places \X Chunk : Here(h[1], h[2])}
<1>1. Held = InQueues \cup InTable \cup InWorkers
  BY DEF Held
<1>2. \A q \in Queue : queue[q] \subseteq Chunk
  BY DEF Types
<1>3. \A s \in Slot : lam[s].chunk \in Chunk
  BY DEF Types
<1>4. \A h : h \in InTable <=> h \in Places \X Chunk /\ h[1] = "table" /\ h[2] \in timeoutTable
  BY DEF Types, Places, InTable
<1>5. \A h : h \in InWorkers <=> h \in Places \X Chunk /\ h[1] \in Slot /\ Carries(h[1], h[2])
  BY <1>3 DEF Carries, Places, InWorkers
<1>6. \A q \in Queue : \A h :
        h \in QueuePlaces(q) <=> h \in Places \X Chunk /\ h[1] = q /\ h[2] \in queue[q]
  BY <1>2 DEF Places, QueuePlaces
<1>7. ASSUME NEW h
      PROVE  h \in Held <=> h \in Places \X Chunk /\ Here(h[1], h[2])
  <2>1. h \in Held <=> (\E q \in Queue : h \in QueuePlaces(q)) \/ h \in InTable \/ h \in InWorkers
    <3>1. h \in InQueues <=> \E q \in Queue : h \in {<<q, c>> : c \in queue[q]}
      BY Zenon DEF InQueues
    <3> QED BY <1>1, <3>1 DEF QueuePlaces
  <2>2. (\E q \in Queue : h \in QueuePlaces(q)) <=>
           h \in Places \X Chunk /\ h[1] \in Queue /\ h[2] \in queue[h[1]]
    BY <1>6
  <2> QED BY <1>4, <1>5, <2>1, <2>2 DEF Here
<1> QED BY <1>7

LEMMA OnePlaceHolds ==
  ASSUME PlacesOK
  PROVE  OnePlace
<1>1. Held = {h \in Places \X Chunk : Here(h[1], h[2])}
  BY HeldIsHere DEF PlacesOK
<1> DEFINE f == [h \in Held |-> h[2].localId]
<1>2. \A h \in Held : h[2].localId \in Id
  BY <1>1 DEF PlacesOK, Kept
<1>3. \A h, g \in Held : h[2].localId = g[2].localId => h = g
  BY <1>1 DEF PlacesOK, Single
<1>4. \A i \in Id : \E h \in Held : h[2].localId = i
  <2> SUFFICES ASSUME NEW i \in Id PROVE \E h \in Held : h[2].localId = i
    OBVIOUS
  <2>1. PICK p \in Places, c \in Chunk : Here(p, c) /\ c.localId = i
    BY DEF PlacesOK, Everyone
  <2>2. <<p, c>> \in Held
    BY <1>1, <2>1
  <2> QED BY <2>1, <2>2
<1>5. f \in Injection(Held, Id) /\ f \in Surjection(Held, Id)
  BY <1>2, <1>3, <1>4 DEF Injection, Surjection, IsInjective
<1>6. Cardinality(Held) = Cardinality(Id)
  BY <1>5, FS_Injection, ChunkPipelineOK
<1> QED BY <1>2, <1>4, <1>6 DEF OnePlace, NumLambdas

\* For any number of chunks, layers, epochs and lambdas: however many lambdas are
\* launched for a chunk, relaunched or die, the chunk is at one place: in a queue, in
\* timeoutTable, or with the worker that accepted its result (lambda_comm.cpp:61).
THEOREM ChunksKept == Spec => []OnePlace
<1>1. Init => PlacesOK
  BY PlacesInit
<1>2. PlacesOK /\ [Next]_vars => PlacesOK'
  BY NextStep, PlacesKept
<1>3. PlacesOK => OnePlace
  BY OnePlaceHolds
<1> QED BY <1>1, <1>2, <1>3, PTL DEF Spec

-----------------------------------------------------------------------------
(* The end of the pipeline.                                                *)

Halted ==
  pipelineHalt =>
    \A p \in Places, c \in Chunk : Here(p, c) => p = "sch" /\ c.epoch = conf.numEpochs + 1

\* If as many chunks as there are wait in schQueue, no chunk is elsewhere.
LEMMA AllScheduled ==
  ASSUME PlacesOK, Cardinality(queue["sch"]) = NumLambdas
  PROVE  \A p \in Places, c \in Chunk : Here(p, c) => p = "sch"
<1> DEFINE S == queue["sch"]
           f == [c \in S |-> c.localId]
<1>1. "sch" \in Queue /\ "sch" \in Places /\ S \subseteq Chunk
  BY DEF Queue, Places, PlacesOK, Types
<1>2. \A c \in S : Here("sch", c)
  BY <1>1 DEF Here
<1> HIDE DEF S
<1>3. \A c \in S : c.localId \in Id
  BY <1>1, <1>2 DEF PlacesOK, Kept
<1>4. \A c, d \in S : c.localId = d.localId => c = d
  BY <1>1, <1>2 DEF PlacesOK, Single
<1>5. f \in Injection(S, Id)
  BY <1>3, <1>4 DEF Injection, IsInjective
<1>6. f \in Surjection(S, Id)
  BY <1>5, FS_Injection, ChunkPipelineOK DEF NumLambdas, S
<1>7. \A i \in Id : \E c \in S : c.localId = i
  BY <1>6 DEF Surjection
<1> SUFFICES ASSUME NEW p \in Places, NEW c \in Chunk, Here(p, c) PROVE p = "sch"
  OBVIOUS
<1>8. PICK d \in S : d.localId = c.localId
  BY <1>7 DEF PlacesOK, Kept
<1> QED BY <1>1, <1>2, <1>8 DEF PlacesOK, Single

LEMMA HaltedKept ==
  ASSUME PlacesOK, PlacesOK', Halted, StepOK, pipelineHalt' = pipelineHalt \/ Halts
  PROVE  Halted'
<1> SUFFICES ASSUME pipelineHalt', NEW r \in Places, NEW e \in Chunk, Here(r, e)'
             PROVE  r = "sch" /\ e.epoch = conf.numEpochs + 1
  BY DEF Halted, StepOK
<1>0. conf' = conf /\ conf.numEpochs \in Nat /\ currEpoch' \in 0..conf.numEpochs
  BY ConfOK DEF StepOK, PlacesOK, Types
<1>1. CASE Halts
  <2>1. /\ Here(r, e) /\ Cardinality(queue["sch"]) = NumLambdas
        /\ \A d \in queue["sch"] : d.epoch > conf.numEpochs
    BY <1>1 DEF Halts, Unmoved
  <2>2. r = "sch"
    BY <2>1, AllScheduled
  <2>3. e.epoch \in 1..currEpoch' + 1
    BY <2>2 DEF PlacesOK, Kept
  <2>4. e \in queue["sch"]
    BY <2>1, <2>2, PlacesApart DEF Here
  <2>5. e.epoch > conf.numEpochs /\ e.epoch \in Nat
    BY <2>1, <2>4 DEF Chunk
  <2> QED BY <1>0, <2>2, <2>3, <2>5
<1>2. CASE pipelineHalt' = pipelineHalt
  <2>1. pipelineHalt /\ \A p \in Places, c \in Chunk : Here(p, c) => p = "sch" /\ c.epoch = conf.numEpochs + 1
    BY <1>2 DEF Halted
  <2>2. Unmoved
    <3>1. ASSUME NEW p \in Places, NEW q \in Places, NEW c \in Chunk, NEW d \in Chunk,
                 Travels(p, c, q, d), p \in Queue => ~pipelineHalt
          PROVE  FALSE
      BY <2>1, <3>1 DEF Travels, Queue
    <3> QED BY <2>1, <3>1 DEF StepOK
  <2> QED BY <2>1, <2>2 DEF Unmoved
<1> QED BY <1>1, <1>2

LEMMA HaltedIsDone ==
  ASSUME PlacesOK, Halted
  PROVE  AllDoneAtHalt
<1> SUFFICES ASSUME pipelineHalt
             PROVE  /\ Cardinality(queue["sch"]) = NumLambdas
                    /\ \A c \in queue["sch"] : c.epoch = conf.numEpochs + 1
                    /\ \A s \in Slot : ~InCallback(s)
  BY DEF AllDoneAtHalt
<1> DEFINE S == queue["sch"]
           f == [c \in S |-> c.localId]
<1>1. "sch" \in Queue /\ "sch" \in Places /\ S \subseteq Chunk
  BY DEF Queue, Places, PlacesOK, Types
<1>2. \A c \in Chunk : Here("sch", c) <=> c \in S
  BY <1>1, PlacesApart DEF Here
<1> HIDE DEF S
<1>3. \A c \in S : c.epoch = conf.numEpochs + 1 /\ c.localId \in Id
  BY <1>1, <1>2 DEF Halted, PlacesOK, Kept
<1>4. \A i \in Id : \E c \in S : c.localId = i
  <2> SUFFICES ASSUME NEW i \in Id PROVE \E c \in S : c.localId = i
    OBVIOUS
  <2>1. PICK p \in Places, c \in Chunk : Here(p, c) /\ c.localId = i
    BY DEF PlacesOK, Everyone
  <2> QED BY <1>2, <2>1 DEF Halted
<1>5. \A c, d \in S : c.localId = d.localId => c = d
  BY <1>1, <1>2 DEF PlacesOK, Single
<1>6. f \in Injection(S, Id) /\ f \in Surjection(S, Id)
  BY <1>3, <1>4, <1>5 DEF Injection, Surjection, IsInjective
<1>7. Cardinality(S) = NumLambdas
  BY <1>6, FS_Injection, ChunkPipelineOK DEF NumLambdas
<1>8. ASSUME NEW s \in Slot, InCallback(s)
      PROVE  FALSE
  <2>1. Here(s, lam[s].chunk) /\ lam[s].chunk \in Chunk /\ s \in Places
    BY <1>8 DEF Here, Carries, PlacesOK, Types, Places
  <2> QED BY <2>1, PlacesApart DEF Halted
<1> QED BY <1>3, <1>7, <1>8 DEF S

\* For any number of chunks, layers, epochs and lambdas: when the scheduler stops the
\* pipeline, and ever after, every chunk has finished the last epoch and no other one,
\* and no worker is about to send one on (pipeline.cpp:34).
THEOREM StopsDone == Spec => []AllDoneAtHalt
<1>1. Init => PlacesOK /\ Halted
  <2>1. Init => Halted
    BY DEF Init, Halted
  <2> QED BY <2>1, PlacesInit
<1>2. PlacesOK /\ Halted /\ [Next]_vars => PlacesOK' /\ Halted'
  BY NextStep, PlacesKept, HaltedKept
<1>3. PlacesOK /\ Halted => AllDoneAtHalt
  BY HaltedIsDone
<1> QED BY <1>1, <1>2, <1>3, PTL DEF Spec

-----------------------------------------------------------------------------
(* One gradient for each lambda phase.                                     *)

\* The phases whose gradient was pushed, or is going to be.
Emitted(x) == x \in pushed \/ \E s \in Slot : Pushing(s) /\ lam[s].chunk = x

\* They are behind the chunk.
Past ==
  conf.gnn = "GCN" =>
    \A p \in Places : \A c, x \in Chunk :
      Here(p, c) /\ Emitted(x) /\ x.localId = c.localId => Number(x) < PhaseAt(p, c)

LEMMA PastKept ==
  ASSUME PlacesOK, PlacesOK', Past, StepOK
  PROVE  Past'
<1> SUFFICES ASSUME conf.gnn = "GCN", NEW r \in Places, NEW e \in Chunk, NEW x \in Chunk,
                    Here(r, e)', Emitted(x)', x.localId = e.localId
             PROVE  Number(x) < PhaseAt(r, e)
  <2>1. conf' = conf
    BY DEF StepOK
  <2>2. \A y : Number(y)' = Number(y) /\ Inc(y)' = Inc(y)
    BY <2>1 DEF Number, Inc
  <2>3. \A p, y : Awaited(p, y)' = Awaited(p, y)
    BY <2>1, <2>2 DEF Awaited
  <2>4. \A p, y : PhaseAt(p, y)' = PhaseAt(p, y)
    BY <2>1, <2>2, <2>3 DEF PhaseAt, Number
  <2> QED BY <2>1, <2>2, <2>4 DEF Past
<1>0. conf \in Confs /\ Number(x) \in Int
  BY NumberInt DEF PlacesOK, Types
<1>1. \A p, q \in Places, c, d \in Chunk : Travels(p, c, q, d) =>
        /\ Here(p, c) /\ d.localId = c.localId
        /\ PhaseAt(p, c) \in Int /\ PhaseAt(q, d) \in Int
        /\ PhaseAt(p, c) <= PhaseAt(q, d)
        /\ p \in Slot => PhaseAt(p, c) = Number(c) /\ PhaseAt(q, d) = Number(c) + 1
  <2> SUFFICES ASSUME NEW p \in Places, NEW q \in Places, NEW c \in Chunk, NEW d \in Chunk,
                      Travels(p, c, q, d)
               PROVE  /\ Here(p, c) /\ d.localId = c.localId
                      /\ PhaseAt(p, c) \in Int /\ PhaseAt(q, d) \in Int
                      /\ PhaseAt(p, c) <= PhaseAt(q, d)
                      /\ p \in Slot => PhaseAt(p, c) = Number(c) /\ PhaseAt(q, d) = Number(c) + 1
    OBVIOUS
  <2>1. Here(p, c) /\ Hop(p, c, q, d)
    BY DEF Travels
  <2>2. Route(p, c) /\ c.epoch >= 1
    <3>1. c.epoch \in 1..(IF p = "sch" THEN currEpoch + 1 ELSE currEpoch)
      BY <2>1 DEF PlacesOK, Kept
    <3>2. currEpoch \in Nat
      BY ConfOK DEF PlacesOK, Types
    <3> QED BY <2>1, <3>1, <3>2 DEF PlacesOK, Kept
  <2>3. d.localId = c.localId
    BY <1>0, <2>1, <2>2, HopRoute
  <2>4. /\ PhaseAt(p, c) \in Int /\ PhaseAt(q, d) \in Int
        /\ p \notin Slot => PhaseAt(q, d) = PhaseAt(p, c)
        /\ p \in Slot => PhaseAt(q, d) = PhaseAt(p, c) + 1
    BY <1>0, <2>1, <2>2, HopPhase
  <2>5. p \in Slot => PhaseAt(p, c) = Number(c)
    BY DEF PhaseAt
  <2>6. PhaseAt(p, c) <= PhaseAt(q, d)
    BY <2>4
  <2> QED BY <2>1, <2>3, <2>4, <2>5, <2>6
<1>2. CASE Emitted(x)
  <2>1. \A p \in Places, c \in Chunk :
          Here(p, c) /\ x.localId = c.localId => Number(x) < PhaseAt(p, c)
    BY <1>2 DEF Past
  <2>2. CASE Unmoved
    BY <2>1, <2>2 DEF Unmoved
  <2>3. CASE StashMoved
    <3>1. PhaseAt("AE", e) = PhaseAt("stash", e) /\ "stash" \in Places
      BY PlacesApart DEF PhaseAt, Awaited, Places, Queue
    <3> QED BY <2>1, <2>3, <3>1 DEF StashMoved
  <2>4. CASE \E p, q \in Places : \E c, d \in Chunk : Travels(p, c, q, d)
    <3>1. PICK p \in Places, q \in Places, c \in Chunk, d \in Chunk : Travels(p, c, q, d)
      BY <2>4
    <3>2. Here(r, e) \/ (r = q /\ e = d)
      BY <3>1 DEF Travels, Moved
    <3>3. CASE r = q /\ e = d
      <4>1. Number(x) < PhaseAt(p, c)
        BY <1>1, <2>1, <3>1, <3>3
      <4> QED BY <1>0, <1>1, <3>1, <3>3, <4>1
    <3> QED BY <2>1, <3>2, <3>3
  <2> QED BY <2>2, <2>3, <2>4 DEF StepOK
<1>3. CASE ~Emitted(x)
  <2>1. ~Quiet
    BY <1>3 DEF Quiet, Emitted
  <2>2. \A s \in Slot : ~Pushes(s)
    BY <1>3 DEF Pushes, Emitted, Pushing
  <2>3. PICK s \in Slot, q \in Places, d \in Chunk : Told(s) /\ Travels(s, lam[s].chunk, q, d)
    BY <2>1, <2>2 DEF StepOK
  <2>4. x = lam[s].chunk
    BY <1>3, <2>3 DEF Told, Emitted, Pushing
  <2>5. s \in Places /\ Here(q, d)'
    BY <2>3 DEF Places, Travels, Moved
  <2>6. d.localId = x.localId /\ PhaseAt(q, d) = Number(x) + 1
    BY <1>1, <2>3, <2>4, <2>5
  <2>7. r = q /\ e = d
    BY <2>5, <2>6 DEF PlacesOK, Single
  <2> QED BY <1>0, <2>6, <2>7
<1> QED BY <1>2, <1>3

LEMMA GradientOnceKept ==
  ASSUME PlacesOK, Past, GradientOnce, StepOK
  PROVE  GradientOnce'
<1> SUFFICES ASSUME conf.gnn = "GCN", NEW t \in Slot, Pushing(t)'
             PROVE  /\ lam'[t].chunk \notin pushed'
                    /\ \A u \in Slot \ {t} : Pushing(u)' => lam'[u].chunk # lam'[t].chunk
  BY DEF GradientOnce, StepOK
<1>1. \A s \in Slot : Pushing(s) =>
        /\ lam[s].chunk \notin pushed
        /\ \A u \in Slot \ {s} : Pushing(u) => lam[u].chunk # lam[s].chunk
  BY DEF GradientOnce
<1>2. CASE Quiet
  BY <1>1, <1>2 DEF Quiet
<1>3. CASE \E s \in Slot : Pushes(s)
  BY <1>1, <1>3 DEF Pushes, Pushing
<1>4. CASE \E s \in Slot, q \in Places, d \in Chunk : Told(s) /\ Travels(s, lam[s].chunk, q, d)
  <2>1. PICK s \in Slot, q \in Places, d \in Chunk : Told(s) /\ Travels(s, lam[s].chunk, q, d)
    BY <1>4
  <2> DEFINE c == lam[s].chunk
  <2>2. c \in Chunk /\ s \in Places /\ Here(s, c) /\ conf \in Confs
    BY <2>1 DEF PlacesOK, Types, Places, Travels
  <2>3. Number(c) \in Int /\ PhaseAt(s, c) = Number(c)
    BY <2>2, NumberInt DEF PhaseAt
  <2>4. ~Emitted(c)
    BY <2>2, <2>3 DEF Past
  <2>5. /\ pushed' = pushed /\ lam'[s].chunk = c
        /\ \A u \in Slot \ {s} : lam'[u] = lam[u]
    BY <2>1 DEF Told
  <2> HIDE DEF c
  <2>6. c \notin pushed /\ \A u \in Slot : Pushing(u) => lam[u].chunk # c
    BY <2>4 DEF Emitted
  <2>7. \A u \in Slot \ {s} : Pushing(u)' => Pushing(u) /\ lam'[u].chunk = lam[u].chunk
    BY <2>5 DEF Pushing
  <2> QED BY <1>1, <2>5, <2>6, <2>7
<1> QED BY <1>2, <1>3, <1>4 DEF StepOK

\* For any number of chunks, layers, epochs and lambdas: of all lambdas of a GCN phase,
\* relaunched ones included, at most one pushes its gradient (gcn/main.cpp:118 and 199).
THEOREM OneGradient == Spec => []GradientOnce
<1> DEFINE Inv == PlacesOK /\ Past /\ GradientOnce
<1>1. Init => Inv
  <2> SUFFICES ASSUME Init PROVE Past /\ GradientOnce
    BY PlacesInit
  <2>1. pushed = {} /\ \A s \in Slot : ~Pushing(s)
    BY DEF Init, Pushing, Idle
  <2> QED BY <2>1 DEF Past, Emitted, GradientOnce
<1>2. Inv /\ [Next]_vars => Inv'
  BY NextStep, PlacesKept, PastKept, GradientOnceKept
<1> QED BY <1>1, <1>2, PTL DEF Spec

-----------------------------------------------------------------------------
(* Phases of the epochs.                                                   *)

\* The lambda phase a chunk waits for, or has just finished, and its index in the epoch.
Phase(p, c) == IF p \in Slot THEN c ELSE Awaited(p, c)
Idx(p, c) == PhaseIndex(conf.gnn, conf.numLayers, Phase(p, c))
Phases == NumPhases(conf.gnn, conf.numLayers)

LEMMA IdxGCN ==
  ASSUME conf \in Confs, conf.gnn = "GCN", NEW p \in Places, NEW c \in Chunk, Route(p, c)
  PROVE  /\ Phase(p, c).epoch = c.epoch
         /\ Idx(p, c) \in 0..Phases - 1
         /\ p \in Slot /\ IsLastLayer(c) => Idx(p, c) = Phases - 1
<1> DEFINE L == conf.numLayers
           x == Phase(p, c)
<1>0. /\ L \in Nat /\ L >= 2 /\ TopLayer = L - 1 /\ Phases = 2 * L - 1
      /\ c.layer \in Nat /\ c.dir \in {"FORWARD", "BACKWARD"} /\ c.vertex \in BOOLEAN
  BY ConfOK DEF Chunk, PropType, TopLayer, Phases, NumPhases
<1>1. Idx(p, c) = IF x.dir = "FORWARD" THEN x.layer ELSE 2 * L - 2 - x.layer
  <2>1. x.dir \in {"FORWARD", "BACKWARD"}
    <3>1. CASE p \in {"GA", "AV", "SC", "stash", "AE"}
      <4>1. x = Applied(c)
        BY <3>1, PlacesApart DEF Phase, Awaited, Applied
      <4>2. Applied(c).dir = c.dir
        <5>1. c.layer <= L - 1 /\ (c.dir = "BACKWARD" => c.layer # 0)
          BY <1>0, <3>1 DEF Route, Queue
        <5>2. c.layer < L
          BY <1>0, <5>1
        <5>3. Route("AV", c)
          BY <1>0, <5>1, <5>2 DEF Route, Queue
        <5> QED BY <5>3, AppliedOf
      <4> QED BY <1>0, <4>1, <4>2
    <3>2. CASE p \in {"sch", "table"} \cup Slot
      <4>1. x = c
        BY <3>2, PlacesApart DEF Phase, Awaited
      <4> QED BY <1>0, <4>1
    <3> QED BY <3>1, <3>2 DEF Places, Queue
  <2> QED BY <2>1 DEF Idx, PhaseIndex
<1> HIDE DEF L
<1>2. CASE p \in {"GA", "AV", "SC", "stash", "AE"}
  <2>1. x = Applied(c)
    BY <1>2, PlacesApart DEF Phase, Awaited, Applied
  <2>2. c.layer <= L - 1 /\ (c.dir = "BACKWARD" => c.layer # 0)
    BY <1>0, <1>2 DEF Route, Queue
  <2>3. Route("AV", c)
    BY <1>0, <2>2 DEF Route, Queue, L
  <2>4. /\ x.dir = c.dir /\ x.epoch = c.epoch
        /\ c.dir = "FORWARD" => x.layer = c.layer
        /\ c.dir = "BACKWARD" => x.layer = c.layer - 1
    BY <2>1, <2>3, AppliedOf
  <2>5. Idx(p, c) \in 0..Phases - 1
    BY <1>0, <1>1, <2>2, <2>4
  <2> QED BY <1>2, <2>4, <2>5, PlacesApart
<1>3. CASE p \in {"sch", "table"} \cup Slot
  <2>1. x = c
    BY <1>3, PlacesApart DEF Phase, Awaited
  <2>2. c.layer <= L - 1
    <3>1. CASE p = "sch"
      BY <1>0, <3>1 DEF Route
    <3>2. CASE p # "sch"
      <4>1. c.layer < (IF c.dir = "FORWARD" THEN L ELSE TopLayer)
        BY <1>3, <3>2, PlacesApart DEF Route, L
      <4> QED BY <1>0, <4>1
    <3> QED BY <3>1, <3>2
  <2>3. Idx(p, c) \in 0..Phases - 1
    BY <1>0, <1>1, <2>1, <2>2
  <2>4. IsLastLayer(c) => Idx(p, c) = Phases - 1
    BY <1>0, <1>1, <2>1 DEF IsLastLayer
  <2> QED BY <2>1, <2>3, <2>4
<1> QED BY <1>2, <1>3 DEF Places, Queue

\* The phases of GAT: vertices and edges take turns.
LEMMA IdxGAT ==
  ASSUME conf \in Confs, conf.gnn = "GAT", NEW p \in Places, NEW c \in Chunk, Route(p, c)
  PROVE  /\ Phase(p, c).epoch = c.epoch
         /\ p = "sch" => Idx(p, c) = 0
         /\ p = "AV" \/ (p = "GA" /\ ~IsTurn(c)) =>
              Idx(p, c) = IF c.dir = "FORWARD" THEN 2 * c.layer
                          ELSE 4 * conf.numLayers + 1 - 2 * c.layer
         /\ p = "GA" /\ IsTurn(c) => Idx(p, c) = 2 * conf.numLayers
         /\ p \in {"SC", "stash", "AE"} =>
              Idx(p, c) = IF c.dir = "FORWARD" THEN 2 * c.layer - 1
                          ELSE 4 * conf.numLayers - 2 * c.layer
         /\ p \in Slot \cup {"table"} =>
              Idx(p, c) = IF c.vertex
                          THEN IF c.dir = "FORWARD" THEN 2 * c.layer
                               ELSE 4 * conf.numLayers - 1 - 2 * c.layer
                          ELSE IF c.dir = "FORWARD" THEN 2 * c.layer - 1
                               ELSE 4 * conf.numLayers - 2 * c.layer
<1> DEFINE L == conf.numLayers
           x == Phase(p, c)
           v == [c EXCEPT !.vertex = TRUE]
           e == [c EXCEPT !.vertex = FALSE]
<1>0. /\ L \in Nat \ {0} /\ TopLayer = L
      /\ c.layer \in Nat /\ c.dir \in {"FORWARD", "BACKWARD"} /\ c.vertex \in BOOLEAN
  BY ConfOK DEF Chunk, PropType, TopLayer
<1>1. \A y \in Chunk :
        PhaseIndex("GAT", L, y) = IF y.vertex
                          THEN IF y.dir = "FORWARD" THEN 2 * y.layer
                               ELSE 4 * L - 1 - 2 * y.layer
                          ELSE IF y.dir = "FORWARD" THEN 2 * y.layer - 1
                               ELSE 4 * L - 2 * y.layer
  BY DEF PhaseIndex, Chunk, PropType
<1>2. Idx(p, c) = PhaseIndex("GAT", L, x)
  BY DEF Idx
<1>3. v \in Chunk /\ v.vertex /\ v.dir = c.dir /\ v.layer = c.layer /\ v.epoch = c.epoch
  BY DEF Chunk
<1>4. e \in Chunk /\ ~e.vertex /\ e.dir = c.dir /\ e.layer = c.layer /\ e.epoch = c.epoch
  BY DEF Chunk
<1>5. CASE p \in {"sch", "table"} \cup Slot
  <2>1. x = c
    BY <1>5, PlacesApart DEF Phase, Awaited
  <2>2. p = "sch" => c.dir = "FORWARD" /\ c.layer = 0 /\ c.vertex
    BY DEF Route
  <2>3. p # "AV" /\ p # "GA" /\ p \notin {"SC", "stash", "AE"}
    BY <1>5, PlacesApart
  <2> HIDE DEF x, v, e, L
  <2>4. p = "sch" => Idx(p, c) = 0
    BY <1>0, <1>1, <1>2, <2>1, <2>2
  <2> QED BY <1>0, <1>1, <1>2, <2>1, <2>3, <2>4 DEF L, x
<1>6. CASE p = "AV" \/ (p = "GA" /\ ~IsTurn(c))
  <2>1. c.layer <= L /\ (c.dir = "BACKWARD" => c.layer # 0) /\ (p = "AV" => ~IsTurn(c))
    BY <1>0, <1>6 DEF Route, Queue, IsTurn
  <2>2. c.layer <= L /\ (c.dir = "FORWARD" => c.layer < L)
    BY <1>0, <1>6, <2>1 DEF IsTurn
  <2>3. Route("AV", c)
    BY <1>0, <2>1, <2>2 DEF Route, Queue
  <2>4. x = Applied(c)
    BY <1>6, <2>1, PlacesApart DEF Phase, Awaited, Applied, IsTurn
  <2>5. /\ x \in Chunk /\ x.vertex /\ x.dir = c.dir /\ x.epoch = c.epoch
        /\ c.dir = "FORWARD" => x.layer = c.layer
        /\ c.dir = "BACKWARD" => x.layer = c.layer - 1
    BY <2>3, <2>4, AppliedOf
  <2>6. p \notin Slot /\ p # "sch" /\ p # "table" /\ p \notin {"SC", "stash", "AE"} /\ ~(p = "GA" /\ IsTurn(c))
    BY <1>6, PlacesApart, <2>1
  <2> HIDE DEF x, v, e, L
  <2>7. Idx(p, c) = IF c.dir = "FORWARD" THEN 2 * c.layer ELSE 4 * L + 1 - 2 * c.layer
    BY <1>0, <1>1, <1>2, <2>1, <2>5
  <2> QED BY <2>5, <2>6, <2>7 DEF L, x
<1>7. CASE p = "GA" /\ IsTurn(c)
  <2> DEFINE b == [e EXCEPT !.dir = "BACKWARD"]
  <2>1. x = b /\ c.layer = L
    BY <1>7, PlacesApart DEF Phase, Awaited, IsTurn
  <2>2. b \in Chunk /\ ~b.vertex /\ b.dir = "BACKWARD" /\ b.layer = c.layer /\ b.epoch = c.epoch
    BY <1>4 DEF Chunk, PropType
  <2>3. p \notin Slot /\ p # "sch" /\ p # "table" /\ p \notin {"SC", "stash", "AE", "AV"}
    BY <1>7, PlacesApart
  <2> HIDE DEF x, v, e, L, b
  <2>4. Idx(p, c) = 2 * L
    BY <1>0, <1>1, <1>2, <2>1, <2>2
  <2> QED BY <1>7, <2>1, <2>2, <2>3, <2>4 DEF L, x
<1>8. CASE p \in {"SC", "stash", "AE"}
  <2>1. x = e
    BY <1>8, PlacesApart DEF Phase, Awaited
  <2>2. p \notin Slot /\ p # "sch" /\ p # "table" /\ p # "AV" /\ p # "GA"
    BY <1>8, PlacesApart
  <2> HIDE DEF x, v, e, L
  <2>3. Idx(p, c) = IF c.dir = "FORWARD" THEN 2 * c.layer - 1 ELSE 4 * L - 2 * c.layer
    BY <1>0, <1>1, <1>2, <1>4, <2>1
  <2> QED BY <1>4, <1>8, <2>1, <2>2, <2>3 DEF L, x
<1> QED BY <1>5, <1>6, <1>7, <1>8 DEF Places, Queue

\* In both networks the phase is one of the epoch the chunk is in.
LEMMA IdxOf ==
  ASSUME conf \in Confs, NEW p \in Places, NEW c \in Chunk, Route(p, c)
  PROVE  /\ Phase(p, c).epoch = c.epoch
         /\ Phases \in Nat \ {0}
         /\ Idx(p, c) \in 0..Phases - 1
         /\ p \in Slot /\ IsLastLayer(c) => Idx(p, c) = Phases - 1
         /\ PhaseAt(p, c) = (c.epoch - 1) * Phases + Idx(p, c)
<1> DEFINE L == conf.numLayers
<1>0. /\ conf.gnn \in {"GCN", "GAT"} /\ L \in Nat \ {0} /\ (conf.gnn = "GCN" => L > 1)
      /\ c.layer \in Nat /\ c.dir \in {"FORWARD", "BACKWARD"} /\ c.vertex \in BOOLEAN
  BY ConfOK DEF Chunk, PropType
<1>1. Phases = (IF conf.gnn = "GCN" THEN 2 * L - 1 ELSE 4 * L) /\ Phases \in Nat \ {0}
  BY <1>0 DEF Phases, NumPhases
<1>2. /\ Phase(p, c).epoch = c.epoch
      /\ Idx(p, c) \in 0..Phases - 1
      /\ p \in Slot /\ IsLastLayer(c) => Idx(p, c) = Phases - 1
  <2>1. CASE conf.gnn = "GCN"
    BY <2>1, IdxGCN
  <2>2. CASE conf.gnn = "GAT"
    <3>1. Phases = 4 * L /\ TopLayer = L
      BY <1>1, <2>2 DEF TopLayer
    <3> HIDE DEF L
    <3>2. CASE p = "sch"
      <4>1. Idx(p, c) = 0 /\ p \notin Slot
        BY <2>2, <3>2, IdxGAT, PlacesApart
      <4> QED BY <1>0, <2>2, <3>1, <4>1, IdxGAT
    <3>3. CASE p = "GA" /\ IsTurn(c)
      <4>1. Idx(p, c) = 2 * L /\ p \notin Slot
        BY <2>2, <3>3, IdxGAT, PlacesApart DEF L
      <4> QED BY <1>0, <2>2, <3>1, <4>1, IdxGAT
    <3>4. CASE p = "AV" \/ (p = "GA" /\ ~IsTurn(c))
      <4>1. Idx(p, c) = (IF c.dir = "FORWARD" THEN 2 * c.layer ELSE 4 * L + 1 - 2 * c.layer) /\ p \notin Slot
        BY <2>2, <3>4, IdxGAT, PlacesApart DEF L
      <4>2. c.layer <= L /\ (c.dir = "BACKWARD" => c.layer # 0)
        BY <1>0, <3>1, <3>4 DEF Route, Queue
      <4>3. Idx(p, c) \in 0..Phases - 1
        BY <1>0, <3>1, <4>1, <4>2
      <4> QED BY <2>2, <4>1, <4>3, IdxGAT
    <3>5. CASE p \in {"SC", "stash", "AE"}
      <4>1. Idx(p, c) = (IF c.dir = "FORWARD" THEN 2 * c.layer - 1 ELSE 4 * L - 2 * c.layer) /\ p \notin Slot
        BY <2>2, <3>5, IdxGAT, PlacesApart DEF L
      <4>2. c.layer \in 1..L
        BY <1>0, <2>2, <3>1, <3>5 DEF Route, Queue
      <4>3. Idx(p, c) \in 0..Phases - 1
        BY <1>0, <3>1, <4>1, <4>2
      <4> QED BY <2>2, <4>1, <4>3, IdxGAT
    <3>6. CASE p \in Slot \cup {"table"}
      <4>1. Idx(p, c) = IF c.vertex
                        THEN IF c.dir = "FORWARD" THEN 2 * c.layer ELSE 4 * L - 1 - 2 * c.layer
                        ELSE IF c.dir = "FORWARD" THEN 2 * c.layer - 1 ELSE 4 * L - 2 * c.layer
        BY <2>2, <3>6, IdxGAT DEF L
      <4>2. IF c.vertex THEN c.layer < L ELSE c.layer \in 1..L
        BY <3>1, <3>6, PlacesApart DEF Route, Queue, L
      <4>3. Idx(p, c) \in 0..Phases - 1
        BY <1>0, <3>1, <4>1, <4>2
      <4>4. IsLastLayer(c) => Idx(p, c) = Phases - 1
        BY <1>0, <3>1, <4>1 DEF IsLastLayer
      <4> QED BY <2>2, <4>3, <4>4, IdxGAT
    <3> QED BY <3>2, <3>3, <3>4, <3>5, <3>6 DEF Places, Queue
  <2> QED BY <1>0, <2>1, <2>2
<1>3. PhaseAt(p, c) = (c.epoch - 1) * Phases + Idx(p, c)
  <2>1. PhaseAt(p, c) = Number(Phase(p, c))
    BY DEF PhaseAt, Phase
  <2> QED BY <1>2, <2>1 DEF Number, PhaseNumber, Phases, Idx
<1> QED BY <1>1, <1>2, <1>3

\* A hop of a GAT chunk, in indices.
LEMMA HopGAT ==
  ASSUME conf \in Confs, conf.gnn = "GAT", NEW p \in Places, NEW q \in Places,
         NEW c \in Chunk, NEW d, Route(p, c), Hop(p, c, q, d)
  PROVE  /\ p \notin Slot => Idx(q, d) = Idx(p, c)
         /\ p \in Slot /\ q # "sch" => Idx(q, d) = Idx(p, c) + 1
         /\ p \in Slot /\ q = "sch" => Idx(p, c) = Phases - 1 /\ Idx(q, d) = 0
<1> DEFINE L == conf.numLayers
<1>0. /\ L \in Nat \ {0} /\ TopLayer = L /\ Phases = 4 * L
      /\ c.layer \in Nat /\ c.dir \in {"FORWARD", "BACKWARD"} /\ c.vertex \in BOOLEAN
  BY ConfOK DEF Chunk, PropType, TopLayer, Phases, NumPhases
<1>1. d \in Chunk /\ Route(q, d)
  BY HopRoute
<1>2. /\ d.layer \in Nat /\ d.dir \in {"FORWARD", "BACKWARD"} /\ d.vertex \in BOOLEAN
  BY <1>1 DEF Chunk, PropType
<1> DEFINE Formula(r, e) ==
         /\ r = "sch" => Idx(r, e) = 0
         /\ r = "AV" \/ (r = "GA" /\ ~IsTurn(e)) =>
              Idx(r, e) = IF e.dir = "FORWARD" THEN 2 * e.layer ELSE 4 * L + 1 - 2 * e.layer
         /\ r = "GA" /\ IsTurn(e) => Idx(r, e) = 2 * L
         /\ r \in {"SC", "stash", "AE"} =>
              Idx(r, e) = IF e.dir = "FORWARD" THEN 2 * e.layer - 1 ELSE 4 * L - 2 * e.layer
         /\ r \in Slot \cup {"table"} =>
              Idx(r, e) = IF e.vertex
                          THEN IF e.dir = "FORWARD" THEN 2 * e.layer ELSE 4 * L - 1 - 2 * e.layer
                          ELSE IF e.dir = "FORWARD" THEN 2 * e.layer - 1 ELSE 4 * L - 2 * e.layer
<1>3. Formula(p, c)
  BY IdxGAT
<1>4. Formula(q, d)
  BY <1>1, IdxGAT
<1>5. \A e \in Chunk : IsTurn(e) <=> e.dir = "FORWARD" /\ e.layer = L
  BY DEF IsTurn
<1>6. \A s \in Slot : s # "sch" /\ s # "GA" /\ s # "AV" /\ s # "SC" /\ s # "stash" /\ s # "AE" /\ s # "table"
  BY PlacesApart
<1> HIDE DEF L
<1>7. CASE p = "sch" /\ q = FirstQueue /\ d = c
  <2>1. q = "AV" /\ c.dir = "FORWARD" /\ c.layer = 0
    BY <1>7 DEF FirstQueue, Route
  <2>2. Idx(p, c) = 0 /\ Idx(q, c) = 2 * c.layer
    BY <1>3, <1>4, <1>7, <2>1
  <2> QED BY <1>6, <1>7, <2>1, <2>2
<1>8. CASE p = "GA" /\ IsTurn(c) /\ q = "SC" /\ d = [c EXCEPT !.dir = "BACKWARD"]
  <2>1. d.dir = "BACKWARD" /\ d.layer = L
    BY <1>5, <1>8 DEF Chunk
  <2>2. Idx(p, c) = 2 * L /\ Idx(q, d) = 4 * L - 2 * d.layer
    BY <1>3, <1>4, <1>8, <2>1
  <2> QED BY <1>0, <1>6, <1>8, <2>1, <2>2
<1>9. CASE p = "GA" /\ ~IsTurn(c) /\ q = "AV" /\ d = c
  BY <1>3, <1>4, <1>6, <1>9
<1>10. CASE p = "AV" /\ q = "table" /\ d = Applied(c)
  <2>1. /\ d.vertex /\ d.dir = c.dir
        /\ c.dir = "FORWARD" => d.layer = c.layer
        /\ c.dir = "BACKWARD" => c.layer # 0 /\ d.layer = c.layer - 1
    BY <1>10, AppliedOf
  <2>2. Idx(p, c) = IF c.dir = "FORWARD" THEN 2 * c.layer ELSE 4 * L + 1 - 2 * c.layer
    BY <1>3, <1>10
  <2>3. Idx(q, d) = IF d.dir = "FORWARD" THEN 2 * d.layer ELSE 4 * L - 1 - 2 * d.layer
    BY <1>4, <1>10, <2>1
  <2>4. Idx(p, c) = Idx(q, d)
    BY <1>0, <1>2, <2>1, <2>2, <2>3
  <2> QED BY <1>6, <1>10, <2>4
<1>11. CASE p \in {"SC", "stash"} /\ q \in {"stash", "AE"} /\ d = c
  BY <1>3, <1>4, <1>6, <1>11
<1>12. CASE p = "AE" /\ q = "table" /\ d = [c EXCEPT !.vertex = FALSE]
  <2>1. ~d.vertex /\ d.dir = c.dir /\ d.layer = c.layer
    BY <1>12 DEF Chunk
  <2>2. Idx(q, d) = IF d.dir = "FORWARD" THEN 2 * d.layer - 1 ELSE 4 * L - 2 * d.layer
    BY <1>4, <1>12, <2>1
  <2>3. Idx(p, c) = IF c.dir = "FORWARD" THEN 2 * c.layer - 1 ELSE 4 * L - 2 * c.layer
    BY <1>3, <1>12
  <2> QED BY <1>6, <1>12, <2>1, <2>2, <2>3
<1>13. CASE p = "table" /\ q \in Slot /\ d = c
  BY <1>3, <1>4, <1>6, <1>13
<1>14. CASE p \in Slot /\ ~c.vertex /\ q = "GA" /\ d = c
  <2>1. Idx(p, c) = IF c.dir = "FORWARD" THEN 2 * c.layer - 1 ELSE 4 * L - 2 * c.layer
    BY <1>3, <1>14
  <2>2. CASE IsTurn(c)
    <3>1. Idx(q, c) = 2 * L /\ c.dir = "FORWARD" /\ c.layer = L
      BY <1>4, <1>5, <1>14, <2>2
    <3> QED BY <1>0, <1>14, <2>1, <3>1
  <2>3. CASE ~IsTurn(c)
    <3>1. Idx(q, c) = IF c.dir = "FORWARD" THEN 2 * c.layer ELSE 4 * L + 1 - 2 * c.layer
      BY <1>4, <1>14, <2>3
    <3> QED BY <1>0, <1>14, <2>1, <3>1
  <2> QED BY <2>2, <2>3
<1>15. CASE p \in Slot /\ IsLastLayer(c) /\ q = "sch" /\ d = Inc(c)
  <2>1. Idx(q, d) = 0
    BY <1>4, <1>15
  <2>2. Idx(p, c) = Phases - 1
    BY <1>15, IdxOf
  <2> QED BY <1>15, <2>1, <2>2
<1>16. CASE p \in Slot /\ c.vertex /\ c.dir = "FORWARD" /\ q = "SC" /\ d = Inc(c)
  <2>1. c.layer <= conf.numLayers
    <3>1. c.layer < L
      BY <1>6, <1>16 DEF Route, Queue, L
    <3> QED BY <1>0, <3>1 DEF L
  <2>2. d.dir = "FORWARD" /\ d.layer = c.layer + 1
    <3>1. ~(c.dir = "BACKWARD" /\ c.layer = 0) /\ conf.gnn # "GCN"
      BY <1>16
    <3> QED BY <1>16, <2>1, <3>1, IncOf
  <2>3. Idx(p, c) = 2 * c.layer /\ Idx(q, d) = 2 * d.layer - 1
    BY <1>3, <1>4, <1>16, <2>2
  <2>4. Idx(q, d) = Idx(p, c) + 1
    BY <1>0, <2>2, <2>3
  <2> QED BY <1>16, <2>4
<1>17. CASE p \in Slot /\ c.vertex /\ c.dir = "BACKWARD" /\ c.layer # 0 /\ q = "SC" /\ d = c
  <2>1. Idx(p, c) = 4 * L - 1 - 2 * c.layer /\ Idx(q, c) = 4 * L - 2 * c.layer
    BY <1>3, <1>4, <1>17
  <2> QED BY <1>0, <1>17, <2>1
<1> QED BY <1>7, <1>8, <1>9, <1>10, <1>11, <1>12, <1>13, <1>14, <1>15, <1>16, <1>17 DEF Hop

\* The number of phases a chunk at a place has finished.
FinAt(p, c) == IF p \in Slot THEN PhaseAt(p, c) + 1 ELSE PhaseAt(p, c)

\* A chunk finishes a phase when its result is accepted, and at no other step.
LEMMA HopFinishes ==
  ASSUME conf \in Confs, NEW p \in Places, NEW q \in Places, NEW c \in Chunk, NEW d,
         c.epoch >= 1, Route(p, c), Hop(p, c, q, d)
  PROVE  /\ FinAt(p, c) \in Int
         /\ FinAt(q, d) = IF q \in Slot THEN FinAt(p, c) + 1 ELSE FinAt(p, c)
<1>1. /\ d \in Chunk /\ Route(q, d)
      /\ IF p \in Slot /\ q = "sch" THEN d.epoch = c.epoch + 1 ELSE d.epoch = c.epoch
      /\ q = "sch" => p \in Slot
  BY HopRoute
<1>2. /\ Phases \in Nat \ {0} /\ Idx(p, c) \in Int /\ Idx(q, d) \in Int
      /\ PhaseAt(p, c) = (c.epoch - 1) * Phases + Idx(p, c)
      /\ PhaseAt(q, d) = (d.epoch - 1) * Phases + Idx(q, d)
      /\ c.epoch \in Nat
  BY <1>1, IdxOf DEF Chunk
<1>3. q \in Slot => p \notin Slot
  BY PlacesApart DEF Hop
<1>4. /\ PhaseAt(p, c) \in Int /\ PhaseAt(q, d) \in Int
      /\ p \notin Slot => PhaseAt(q, d) = PhaseAt(p, c)
      /\ p \in Slot => PhaseAt(q, d) = PhaseAt(p, c) + 1
  <2>1. CASE conf.gnn = "GCN"
    BY <2>1, HopPhase
  <2>2. CASE conf.gnn = "GAT"
    <3> DEFINE base == (c.epoch - 1) * Phases
    <3>1. base \in Int
      BY <1>2
    <3>2. (c.epoch + 1 - 1) * Phases = base + Phases
      BY <1>2, NextEpochNumber
    <3> HIDE DEF base
    <3>3. /\ p \notin Slot => Idx(q, d) = Idx(p, c)
          /\ p \in Slot /\ q # "sch" => Idx(q, d) = Idx(p, c) + 1
          /\ p \in Slot /\ q = "sch" => Idx(p, c) = Phases - 1 /\ Idx(q, d) = 0
      BY <2>2, HopGAT
    <3>4. PhaseAt(p, c) = base + Idx(p, c)
      BY <1>2 DEF base
    <3>5. CASE p \in Slot /\ q = "sch"
      <4>1. PhaseAt(q, d) = base + Phases + Idx(q, d)
        BY <1>1, <1>2, <3>2, <3>5
      <4> QED BY <1>2, <3>1, <3>3, <3>4, <3>5, <4>1
    <3>6. CASE ~(p \in Slot /\ q = "sch")
      <4>1. PhaseAt(q, d) = base + Idx(q, d)
        BY <1>1, <1>2, <3>6 DEF base
      <4> QED BY <1>1, <1>2, <3>1, <3>3, <3>4, <3>6, <4>1
    <3> QED BY <3>5, <3>6
  <2> QED BY <2>1, <2>2, ConfOK
<1> QED BY <1>3, <1>4 DEF FinAt

-----------------------------------------------------------------------------
(* Where each chunk is, and what a step does to it.                        *)

\* The place of a chunk.
Spot(i) == CHOOSE h \in Places \X Chunk : Here(h[1], h[2]) /\ h[2].localId = i

Spots ==
  /\ \A i \in Id : /\ Spot(i) \in Places \X Chunk
                   /\ Here(Spot(i)[1], Spot(i)[2]) /\ Spot(i)[2].localId = i
  /\ \A p \in Places, c \in Chunk : Here(p, c) => Spot(c.localId) = <<p, c>>

LEMMA SpotOf == PlacesOK => Spots
<1> SUFFICES ASSUME PlacesOK PROVE Spots
  OBVIOUS
<1>1. ASSUME NEW i \in Id
      PROVE  /\ Spot(i) \in Places \X Chunk
             /\ Here(Spot(i)[1], Spot(i)[2]) /\ Spot(i)[2].localId = i
  <2>1. PICK p \in Places, c \in Chunk : Here(p, c) /\ c.localId = i
    BY DEF PlacesOK, Everyone
  <2>2. \E h \in Places \X Chunk : Here(h[1], h[2]) /\ h[2].localId = i
    <3>1. <<p, c>> \in Places \X Chunk /\ <<p, c>>[1] = p /\ <<p, c>>[2] = c
      OBVIOUS
    <3> QED BY <2>1, <3>1
  <2> QED BY <2>2 DEF Spot
<1>2. ASSUME NEW p \in Places, NEW c \in Chunk, Here(p, c)
      PROVE  Spot(c.localId) = <<p, c>>
  <2>1. c.localId \in Id
    BY <1>2 DEF PlacesOK, Kept
  <2> DEFINE h == Spot(c.localId)
  <2>2. h \in Places \X Chunk /\ Here(h[1], h[2]) /\ h[2].localId = c.localId
    BY <1>1, <2>1
  <2> HIDE DEF h
  <2>3. h[1] = p /\ h[2] = c
    BY <1>2, <2>2 DEF PlacesOK, Single
  <2>4. h = <<p, c>>
    BY <2>2, <2>3
  <2> QED BY <2>4 DEF h
<1> QED BY <1>1, <1>2 DEF Spots

LEMMA SpotOfNext == PlacesOK' => Spots'
BY SpotOf, PTL

\* The worker has counted the chunk's epoch and not sent the chunk on yet.
Busy(s) == lam[s].st \in {"announce", "enqueue"}

\* The epochs of a chunk that have been counted.
Done(p, c) == IF p \in Slot /\ Busy(p) THEN c.epoch ELSE c.epoch - 1

EpochIn(i) == Spot(i)[2].epoch
DoneOf(i) == Done(Spot(i)[1], Spot(i)[2])
FinOf(i) == FinAt(Spot(i)[1], Spot(i)[2])

Same(i) == EpochIn(i)' = EpochIn(i) /\ DoneOf(i)' = DoneOf(i) /\ FinOf(i)' = FinOf(i)

LEMMA FinKept ==
  ASSUME conf' = conf
  PROVE  \A p, c : FinAt(p, c)' = FinAt(p, c)
<1>1. \A y : Number(y)' = Number(y) /\ Inc(y)' = Inc(y)
  BY DEF Number, Inc
<1>2. \A p, y : Awaited(p, y)' = Awaited(p, y)
  BY <1>1 DEF Awaited
<1>3. \A p, y : PhaseAt(p, y)' = PhaseAt(p, y)
  BY <1>1, <1>2 DEF PhaseAt, Number
<1> QED BY <1>3 DEF FinAt

LEMMA SpotNext ==
  ASSUME PlacesOK', NEW q \in Places, NEW d \in Chunk, Here(q, d)', conf' = conf
  PROVE  /\ Spot(d.localId)' = <<q, d>> /\ EpochIn(d.localId)' = d.epoch
         /\ DoneOf(d.localId)' = Done(q, d)' /\ FinOf(d.localId)' = FinAt(q, d)
<1>1. Spots'
  BY SpotOfNext
<1>2. Spot(d.localId)' = <<q, d>>
  BY <1>1 DEF Spots
<1>3. <<q, d>>[1] = q /\ <<q, d>>[2] = d
  OBVIOUS
<1>4. EpochIn(d.localId)' = d.epoch
  BY <1>2, <1>3 DEF EpochIn
<1>5. DoneOf(d.localId)' = Done(q, d)'
  BY <1>2, <1>3 DEF DoneOf, Done
<1>6. FinOf(d.localId)' = FinAt(q, d)'
  BY <1>2, <1>3 DEF FinOf, FinAt, PhaseAt
<1> QED BY <1>2, <1>4, <1>5, <1>6, FinKept

LEMMA SpotNow ==
  ASSUME PlacesOK, NEW p \in Places, NEW c \in Chunk, Here(p, c)
  PROVE  /\ c.localId \in Id
         /\ Spot(c.localId) = <<p, c>> /\ EpochIn(c.localId) = c.epoch
         /\ DoneOf(c.localId) = Done(p, c) /\ FinOf(c.localId) = FinAt(p, c)
<1>1. Spots
  BY SpotOf
<1>2. Spot(c.localId) = <<p, c>>
  BY <1>1 DEF Spots
<1>3. <<p, c>>[1] = p /\ <<p, c>>[2] = c
  OBVIOUS
<1>4. c.localId \in Id
  BY DEF PlacesOK, Kept
<1> QED BY <1>2, <1>3, <1>4 DEF EpochIn, DoneOf, FinOf

LEMMA SpotPick ==
  ASSUME PlacesOK, NEW i \in Id
  PROVE  \E p \in Places, c \in Chunk : Here(p, c) /\ c.localId = i
BY DEF PlacesOK, Everyone

LEMMA TravelEpoch ==
  ASSUME PlacesOK, NEW p \in Places, NEW q \in Places, NEW c \in Chunk, NEW d \in Chunk,
         Travels(p, c, q, d)
  PROVE  /\ d.localId = c.localId /\ c.epoch \in Nat \ {0}
         /\ IF p \in Slot /\ q = "sch" THEN d.epoch = c.epoch + 1 ELSE d.epoch = c.epoch
         /\ FinAt(p, c) \in Int
         /\ FinAt(q, d) = IF q \in Slot THEN FinAt(p, c) + 1 ELSE FinAt(p, c)
<1>1. Here(p, c) /\ Hop(p, c, q, d)
  BY DEF Travels
<1>2. conf \in Confs /\ currEpoch \in Nat
  BY ConfOK DEF PlacesOK, Types
<1>3. Route(p, c) /\ c.epoch \in 1..(IF p = "sch" THEN currEpoch + 1 ELSE currEpoch)
  BY <1>1 DEF PlacesOK, Kept
<1>4. c.epoch \in Nat \ {0} /\ c.epoch >= 1
  BY <1>2, <1>3
<1> QED BY <1>1, <1>2, <1>3, <1>4, HopRoute, HopFinishes

\* One chunk travels, and the slots it does not touch are left alone.
LEMMA TravelSpots ==
  ASSUME PlacesOK, PlacesOK', conf' = conf,
         NEW p \in Places, NEW q \in Places, NEW c \in Chunk, NEW d \in Chunk,
         Travels(p, c, q, d), \A t \in Slot : t # p /\ t # q => lam'[t] = lam[t]
  PROVE  /\ \A i \in Id \ {c.localId} : Same(i)
         /\ Here(p, c) /\ Here(q, d)' /\ d.localId = c.localId
<1>1. Here(p, c) /\ Here(q, d)' /\ d.localId = c.localId
  BY TravelEpoch DEF Travels, Moved
<1>2. ASSUME NEW i \in Id \ {c.localId}
      PROVE  Same(i)
  <2>1. PICK r \in Places, e \in Chunk : Here(r, e) /\ e.localId = i
    BY SpotPick
  <2>2. Here(r, e)' /\ e # c /\ e # d
    BY <1>1, <1>2, <2>1 DEF Travels, Moved
  <2>3. r \in Slot => r # p /\ r # q
    <3>1. r \in Slot => lam[r].chunk = e /\ lam'[r].chunk = e
      BY <2>1, <2>2, PlacesApart DEF Here, Carries
    <3>2. p \in Slot => lam[p].chunk = c
      BY <1>1, PlacesApart DEF Here, Carries
    <3>3. q \in Slot => lam'[q].chunk = d
      BY <1>1, PlacesApart DEF Here, Carries
    <3> QED BY <2>2, <3>1, <3>2, <3>3
  <2>4. Done(r, e)' = Done(r, e)
    BY <2>3 DEF Done, Busy
  <2>5. EpochIn(i) = e.epoch /\ DoneOf(i) = Done(r, e) /\ FinOf(i) = FinAt(r, e)
    BY <2>1, SpotNow
  <2>6. EpochIn(i)' = e.epoch /\ DoneOf(i)' = Done(r, e)' /\ FinOf(i)' = FinAt(r, e)
    BY <2>1, <2>2, SpotNext
  <2> QED BY <2>4, <2>5, <2>6 DEF Same
<1> QED BY <1>1, <1>2

\* No slot takes or gives back a chunk, or counts it.
Settled ==
  \A s \in Slot : /\ InCallback(s)' <=> InCallback(s)
                  /\ Busy(s)' <=> Busy(s)
                  /\ InCallback(s) => lam'[s].chunk = lam[s].chunk

LEMMA SettledSpots ==
  ASSUME PlacesOK, PlacesOK', StepOK, Settled
  PROVE  \A i \in Id : Same(i)
<1> SUFFICES ASSUME NEW i \in Id PROVE Same(i)
  OBVIOUS
<1>0. conf' = conf
  BY DEF StepOK
<1>1. PICK p \in Places, c \in Chunk : Here(p, c) /\ c.localId = i
  BY SpotPick
<1>2. EpochIn(i) = c.epoch /\ DoneOf(i) = Done(p, c) /\ FinOf(i) = FinAt(p, c)
  BY <1>1, SpotNow
<1>3. \A s \in Slot : \A e : Carries(s, e)' <=> Carries(s, e)
  BY DEF Settled, Carries
<1>4. \A s \in Slot : \A e \in Chunk : Here(s, e)' <=> Here(s, e)
  BY <1>3, PlacesApart DEF Here
<1>5. CASE Here(p, c)'
  <2>1. Done(p, c)' = Done(p, c)
    BY DEF Done, Settled
  <2>2. EpochIn(i)' = c.epoch /\ DoneOf(i)' = Done(p, c)' /\ FinOf(i)' = FinAt(p, c)
    BY <1>0, <1>1, <1>5, SpotNext
  <2> QED BY <1>2, <2>1, <2>2 DEF Same
<1>6. CASE ~Here(p, c)'
  <2>1. p \notin Slot
    BY <1>1, <1>4, <1>6
  <2>2. \E q \in Places \ Slot, d \in Chunk :
          /\ Here(q, d)' /\ d.localId = i /\ d.epoch = c.epoch /\ FinAt(q, d) = FinAt(p, c)
    <3>1. CASE Unmoved
      BY <1>1, <1>6, <3>1 DEF Unmoved
    <3>2. CASE StashMoved
      <4>1. p = "stash" /\ Here("AE", c)'
        BY <1>1, <1>6, <3>2, PlacesApart DEF StashMoved, Places, Queue
      <4>2. FinAt("AE", c) = FinAt("stash", c) /\ "AE" \in Places \ Slot
        BY PlacesApart DEF FinAt, PhaseAt, Awaited, Places, Queue
      <4> QED BY <1>1, <4>1, <4>2
    <3>3. CASE \E p1, q1 \in Places : \E c1, d1 \in Chunk : Travels(p1, c1, q1, d1)
      <4>1. PICK p1 \in Places, q1 \in Places, c1 \in Chunk, d1 \in Chunk : Travels(p1, c1, q1, d1)
        BY <3>3
      <4>2. p1 = p /\ c1 = c
        BY <1>1, <1>6, <4>1 DEF Travels, Moved
      <4>3. Here(q1, d1)' /\ Hop(p, c, q1, d1)
        BY <4>1, <4>2 DEF Travels, Moved
      <4>4. d1.localId = i
        BY <1>1, <4>1, <4>2, TravelEpoch
      <4>5. q1 \notin Slot
        <5>1. q1 \in Slot => Here(q1, d1)
          BY <1>4, <4>3
        <5>2. q1 \in Slot => q1 = p
          BY <1>1, <4>4, <5>1 DEF PlacesOK, Single
        <5> QED BY <2>1, <5>2
      <4>6. d1.epoch = c.epoch /\ FinAt(q1, d1) = FinAt(p, c)
        BY <2>1, <4>1, <4>2, <4>5, TravelEpoch
      <4> QED BY <4>3, <4>4, <4>5, <4>6
    <3> QED BY <3>1, <3>2, <3>3 DEF StepOK
  <2>3. PICK q \in Places \ Slot, d \in Chunk :
          /\ Here(q, d)' /\ d.localId = i /\ d.epoch = c.epoch /\ FinAt(q, d) = FinAt(p, c)
    BY <2>2
  <2>4. EpochIn(i)' = d.epoch /\ DoneOf(i)' = Done(q, d)' /\ FinOf(i)' = FinAt(q, d)
    BY <1>0, <2>3, SpotNext
  <2>5. Done(q, d)' = d.epoch - 1 /\ Done(p, c) = c.epoch - 1
    BY <2>1, <2>3 DEF Done
  <2> QED BY <1>2, <2>3, <2>4, <2>5 DEF Same
<1> QED BY <1>5, <1>6

\* A result is accepted: its chunk has finished a phase.
LEMMA AcceptSpots ==
  ASSUME PlacesOK, PlacesOK', StepOK, NEW s \in Slot, At(s, "recv"), Expected(s), Accept(s),
         NEW c, c = lam[s].chunk
  PROVE  /\ c \in Chunk /\ Here("table", c) /\ c.localId \in Id
         /\ \A i \in Id : EpochIn(i)' = EpochIn(i) /\ DoneOf(i)' = DoneOf(i)
         /\ \A i \in Id \ {c.localId} : FinOf(i)' = FinOf(i)
         /\ FinOf(c.localId)' = FinOf(c.localId) + 1
<1>0. conf' = conf /\ Types
  BY DEF StepOK, PlacesOK
<1>1. Becomes(s, "callback", c)
  BY <1>0, LamBecomes DEF Accept, LambdaStates
<1>2. c \in Chunk /\ s \in Places /\ "table" \in Places
  BY <1>0 DEF Types, Places
<1>3. Here("table", c) /\ Here(s, c)' /\ ~Here(s, c)
  <2>1. Here("table", c)
    BY DEF Here, Expected
  <2>2. Carries(s, c)' /\ ~Carries(s, c)
    BY <1>1 DEF Becomes, Carries, InCallback, At
  <2> QED BY <2>1, <2>2, PlacesApart DEF Here
<1>4. \A t \in Slot \ {s} : lam'[t] = lam[t]
  BY <1>1 DEF Becomes
<1>5. PICK p \in Places, q \in Places, e \in Chunk, d \in Chunk : Travels(p, e, q, d)
  <2>1. ~Unmoved
    BY <1>2, <1>3 DEF Unmoved
  <2>2. ~StashMoved
    BY <1>2, <1>3, PlacesApart DEF StashMoved
  <2> QED BY <2>1, <2>2 DEF StepOK
<1>6. q = s /\ d = c
  BY <1>2, <1>3, <1>5 DEF Travels, Moved
<1>7. p = "table" /\ e = c
  <2>1. Hop(p, e, s, c)
    BY <1>5, <1>6 DEF Travels
  <2>2. s \notin {"table", "sch", "GA", "AV", "SC", "stash", "AE"}
    BY PlacesApart
  <2> QED BY <2>1, <2>2 DEF Hop, FirstQueue
<1>8. \A i \in Id \ {c.localId} : Same(i)
  <2>1. Travels("table", c, s, c)
    BY <1>5, <1>6, <1>7
  <2>2. \A t \in Slot : t # "table" /\ t # s => lam'[t] = lam[t]
    BY <1>4
  <2> QED BY <1>0, <1>2, <2>1, <2>2, TravelSpots
<1>9. FinAt(s, c) = FinAt("table", c) + 1 /\ FinAt("table", c) \in Int
  BY <1>5, <1>6, <1>7, TravelEpoch
<1>10. /\ c.localId \in Id /\ EpochIn(c.localId) = c.epoch
       /\ DoneOf(c.localId) = Done("table", c) /\ FinOf(c.localId) = FinAt("table", c)
  BY <1>2, <1>3, SpotNow
<1>11. /\ EpochIn(c.localId)' = c.epoch
       /\ DoneOf(c.localId)' = Done(s, c)' /\ FinOf(c.localId)' = FinAt(s, c)
  BY <1>0, <1>2, <1>3, SpotNext
<1>12. Done(s, c)' = c.epoch - 1 /\ Done("table", c) = c.epoch - 1
  BY <1>1, PlacesApart DEF Done, Busy, Becomes
<1> QED BY <1>2, <1>3, <1>8, <1>9, <1>10, <1>11, <1>12 DEF Same

\* A worker sends its chunk on.
LEMMA SendSpots ==
  ASSUME PlacesOK, PlacesOK', StepOK, NEW s \in Slot, InCallback(s), Answer(s, "ok"),
         NEW c, c = lam[s].chunk
  PROVE  /\ c \in Chunk /\ Here(s, c) /\ c.localId \in Id /\ c.epoch \in Nat \ {0}
         /\ \A i \in Id \ {c.localId} : Same(i)
         /\ FinOf(c.localId)' = FinOf(c.localId)
         /\ EpochIn(c.localId) = c.epoch /\ DoneOf(c.localId) = Done(s, c)
         /\ EpochIn(c.localId)' = (IF IsLastLayer(c) THEN c.epoch + 1 ELSE c.epoch)
         /\ DoneOf(c.localId)' = (IF IsLastLayer(c) THEN c.epoch ELSE c.epoch - 1)
<1>0. conf' = conf /\ Types
  BY DEF StepOK, PlacesOK
<1>1. \/ Becomes(s, "none", NoChunk)
      \/ Becomes(s, "ok", c)
  BY <1>0, AnswerBecomes
<1>2. c \in Chunk /\ s \in Places
  BY <1>0 DEF Types, Places
<1>3. Here(s, c) /\ ~Here(s, c)'
  <2>1. Carries(s, c) /\ ~Carries(s, c)'
    BY <1>1 DEF Becomes, Carries, InCallback
  <2> QED BY <2>1, PlacesApart DEF Here
<1>4. \A t \in Slot \ {s} : lam'[t] = lam[t]
  BY <1>1 DEF Becomes
<1>5. PICK p \in Places, q \in Places, e \in Chunk, d \in Chunk : Travels(p, e, q, d)
  <2>1. ~Unmoved
    BY <1>2, <1>3 DEF Unmoved
  <2>2. ~StashMoved
    BY <1>2, <1>3, PlacesApart DEF StashMoved
  <2> QED BY <2>1, <2>2 DEF StepOK
<1>6. p = s /\ e = c
  BY <1>2, <1>3, <1>5 DEF Travels, Moved
<1>7. \A i \in Id \ {c.localId} : Same(i)
  BY <1>0, <1>4, <1>5, <1>6, TravelSpots
<1>8. Here(q, d)' /\ Hop(s, c, q, d)
  BY <1>5, <1>6 DEF Travels, Moved
<1>9. q \notin Slot /\ (q = "sch" <=> IsLastLayer(c))
  BY <1>8, PlacesApart DEF Hop, IsLastLayer
<1>10. /\ d.localId = c.localId /\ c.epoch \in Nat \ {0}
       /\ d.epoch = (IF IsLastLayer(c) THEN c.epoch + 1 ELSE c.epoch)
       /\ FinAt(q, d) = FinAt(s, c)
  BY <1>5, <1>6, <1>9, TravelEpoch
<1>11. /\ c.localId \in Id /\ EpochIn(c.localId) = c.epoch
       /\ DoneOf(c.localId) = Done(s, c) /\ FinOf(c.localId) = FinAt(s, c)
  BY <1>2, <1>3, SpotNow
<1>12. /\ EpochIn(d.localId)' = d.epoch
       /\ DoneOf(d.localId)' = Done(q, d)' /\ FinOf(d.localId)' = FinAt(q, d)
  BY <1>0, <1>8, SpotNext
<1>13. Done(q, d)' = d.epoch - 1
  BY <1>9 DEF Done
<1>14. DoneOf(c.localId)' = (IF IsLastLayer(c) THEN c.epoch ELSE c.epoch - 1)
  BY <1>10, <1>12, <1>13
<1> QED BY <1>2, <1>3, <1>7, <1>10, <1>11, <1>12, <1>14

\* The last chunk of an epoch is counted.
LEMMA CountSpots ==
  ASSUME PlacesOK, PlacesOK', StepOK, Unmoved, NEW s \in Slot, At(s, "callback"), Goto(s, "announce"),
         NEW c, c = lam[s].chunk
  PROVE  /\ c \in Chunk /\ Here(s, c) /\ c.localId \in Id /\ c.epoch \in Nat \ {0}
         /\ \A i \in Id \ {c.localId} : Same(i)
         /\ EpochIn(c.localId) = c.epoch /\ DoneOf(c.localId) = c.epoch - 1
         /\ EpochIn(c.localId)' = c.epoch /\ DoneOf(c.localId)' = c.epoch
         /\ FinOf(c.localId)' = FinOf(c.localId)
<1>0. conf' = conf /\ Types
  BY DEF StepOK, PlacesOK
<1>1. Becomes(s, "announce", c)
  BY <1>0, LamBecomes DEF LambdaStates
<1>2. c \in Chunk /\ s \in Places
  BY <1>0 DEF Types, Places
<1>3. Here(s, c) /\ Here(s, c)'
  <2>1. Carries(s, c) /\ Carries(s, c)'
    BY <1>1 DEF Becomes, Carries, InCallback, At
  <2> QED BY <2>1, PlacesApart DEF Here
<1>4. \A t \in Slot \ {s} : lam'[t] = lam[t]
  BY <1>1 DEF Becomes
<1>5. Done(s, c) = c.epoch - 1 /\ Done(s, c)' = c.epoch
  BY <1>1 DEF Done, Busy, Becomes, At
<1>6. \A r \in Slot, e \in Chunk : Here(r, e) => (r = s /\ e = c) \/ (Here(r, e)' /\ lam'[r] = lam[r] /\ r # s)
  <2> SUFFICES ASSUME NEW r \in Slot, NEW e \in Chunk, Here(r, e)
               PROVE  (r = s /\ e = c) \/ (Here(r, e)' /\ lam'[r] = lam[r] /\ r # s)
    OBVIOUS
  <2>1. Carries(r, e)
    BY PlacesApart DEF Here
  <2>2. r = s => e = c
    BY <2>1 DEF Carries
  <2>3. r # s => Carries(r, e)'
    BY <1>4, <2>1 DEF Carries, InCallback
  <2> QED BY <1>4, <2>2, <2>3, PlacesApart DEF Here
<1>7. /\ c.localId \in Id /\ EpochIn(c.localId) = c.epoch
      /\ DoneOf(c.localId) = Done(s, c) /\ FinOf(c.localId) = FinAt(s, c)
  BY <1>2, <1>3, SpotNow
<1>8. /\ EpochIn(c.localId)' = c.epoch
      /\ DoneOf(c.localId)' = Done(s, c)' /\ FinOf(c.localId)' = FinAt(s, c)
  BY <1>0, <1>2, <1>3, SpotNext
<1>10. c.epoch \in Nat \ {0}
  <2>1. currEpoch \in Nat /\ c.epoch \in 1..(IF s = "sch" THEN currEpoch + 1 ELSE currEpoch)
    BY <1>0, <1>2, <1>3, ConfOK DEF PlacesOK, Kept, Types
  <2> QED BY <2>1
<1>11. ASSUME NEW i \in Id \ {c.localId}
       PROVE  Same(i)
  <2>1. PICK r \in Places, e \in Chunk : Here(r, e) /\ e.localId = i
    BY SpotPick
  <2>2. Here(r, e)' /\ (r \in Slot => r # s)
    BY <1>2, <1>6, <2>1 DEF Unmoved
  <2>3. Done(r, e)' = Done(r, e)
    BY <1>4, <2>2 DEF Done, Busy
  <2>4. EpochIn(i) = e.epoch /\ DoneOf(i) = Done(r, e) /\ FinOf(i) = FinAt(r, e)
    BY <2>1, SpotNow
  <2>5. EpochIn(i)' = e.epoch /\ DoneOf(i)' = Done(r, e)' /\ FinOf(i)' = FinAt(r, e)
    BY <1>0, <2>1, <2>2, SpotNext
  <2> QED BY <2>3, <2>4, <2>5 DEF Same
<1> QED BY <1>2, <1>3, <1>5, <1>7, <1>8, <1>10, <1>11

-----------------------------------------------------------------------------
(* Epochs: what is counted, announced and started.                         *)

\* All chunks have finished the epochs up to this one: it is announced next.
Floor == IF \E s \in Slot : At(s, "announce") THEN announced + 1 ELSE announced

DoneBy(e) == {i \in Id : DoneOf(i) >= e}

EpochTypes ==
  /\ async \in BOOLEAN /\ block \in BOOLEAN
  /\ numFinishedEpoch \in [0..conf.staleness -> {0} \cup 1..NumLambdas - 1]
  /\ announced \in {1} \cup 2..conf.numEpochs /\ peer \in {1} \cup 2..conf.numEpochs

\* minEpoch follows the slowest server, from the second epoch on.
Slowest == IF announced <= peer THEN announced ELSE peer
Newest == minEpoch = (IF currEpoch < 2 THEN 1 ELSE Slowest + 1)

Waiting == \A p \in Places, c \in Chunk : Here(p, c) => p = "sch" /\ c.epoch = currEpoch + 1

InSync ==
  /\ announced = 1 /\ peer = 1
  /\ \A r \in 0..conf.staleness : numFinishedEpoch[r] = 0
  /\ \A s \in Slot : ~Busy(s)
  /\ \A i \in Id : EpochIn(i) >= currEpoch
  /\ ~block => Waiting

\* The counters of the ring are right for the epochs that may be running.
Window ==
  \A e \in Floor + 1..Floor + conf.staleness + 1 : numFinishedEpoch[Ring(e)] = Cardinality(DoneBy(e))

Announcing ==
  /\ \A s \in Slot : Busy(s) => IsLastLayer(lam[s].chunk)
  /\ \A s \in Slot : At(s, "announce") => lam[s].chunk.epoch = Floor
  /\ \A s, t \in Slot : At(s, "announce") /\ At(t, "announce") => s = t

InAsync ==
  /\ conf.async /\ currEpoch >= 2 /\ currEpoch <= minEpoch + conf.staleness
  /\ \A i \in Id : DoneOf(i) >= Floor
  /\ DoneBy(Floor + 1) # Id
  /\ Announcing /\ Window

EInv == EpochTypes /\ Newest /\ (~async => InSync) /\ (async => InAsync)

-----------------------------------------------------------------------------

EpochsOK ==
  /\ conf.staleness \in Nat /\ conf.numEpochs \in Nat /\ currEpoch \in 0..conf.numEpochs
  /\ \A i \in Id : /\ EpochIn(i) \in Nat \ {0} /\ EpochIn(i) <= currEpoch + 1
                   /\ DoneOf(i) \in Nat /\ DoneOf(i) <= currEpoch /\ DoneOf(i) <= EpochIn(i)

LEMMA Epochs == PlacesOK => EpochsOK
<1> SUFFICES ASSUME PlacesOK PROVE EpochsOK
  OBVIOUS
<1>1. conf.staleness \in Nat /\ conf.numEpochs \in Nat /\ currEpoch \in 0..conf.numEpochs
  BY ConfOK DEF PlacesOK, Types
<1>2. ASSUME NEW i \in Id
      PROVE  /\ EpochIn(i) \in Nat \ {0} /\ EpochIn(i) <= currEpoch + 1
             /\ DoneOf(i) \in Nat /\ DoneOf(i) <= currEpoch /\ DoneOf(i) <= EpochIn(i)
  <2>1. PICK p \in Places, c \in Chunk : Here(p, c) /\ c.localId = i
    BY SpotPick
  <2>2. EpochIn(i) = c.epoch /\ DoneOf(i) = Done(p, c)
    BY <2>1, SpotNow
  <2>3. c.epoch \in 1..(IF p = "sch" THEN currEpoch + 1 ELSE currEpoch)
    BY <2>1 DEF PlacesOK, Kept
  <2>4. p \in Slot => p # "sch"
    BY PlacesApart
  <2> QED BY <1>1, <2>2, <2>3, <2>4 DEF Done
<1> QED BY <1>1, <1>2 DEF EpochsOK

LEMMA EpochsNext == PlacesOK' => EpochsOK'
BY Epochs, PTL

\* Chunks that wait for an epoch do not move before the scheduler lets them.
LEMMA WaitingKept ==
  ASSUME PlacesOK, StepOK, Waiting, currEpoch' = currEpoch
  PROVE  Waiting'
<1>1. \A p \in Places, c \in Chunk : Here(p, c)' => Here(p, c)
  <2>1. CASE Unmoved
    BY <2>1 DEF Unmoved
  <2>2. CASE StashMoved
    <3>1. \A c \in Chunk : ~Here("stash", c)
      BY DEF Waiting, Places, Queue
    <3> QED BY <2>2, <3>1 DEF StashMoved
  <2>3. CASE \E p, q \in Places : \E c, d \in Chunk : Travels(p, c, q, d)
    <3>1. PICK p \in Places, q \in Places, c \in Chunk, d \in Chunk : Travels(p, c, q, d)
      BY <2>3
    <3>2. p = "sch" /\ c.epoch = currEpoch + 1
      BY <3>1 DEF Waiting, Travels
    <3>3. c.epoch <= currEpoch
      BY <3>1, <3>2 DEF Travels
    <3>4. currEpoch \in Nat
      BY Epochs DEF EpochsOK
    <3> QED BY <3>2, <3>3, <3>4
  <2> QED BY <2>1, <2>2, <2>3 DEF StepOK
<1> QED BY <1>1 DEF Waiting

\* Nothing is counted or announced.
Calm ==
  /\ \A i \in Id : EpochIn(i)' >= EpochIn(i) /\ (async => DoneOf(i)' = DoneOf(i))
  /\ \A s \in Slot : /\ Busy(s)' => Busy(s) /\ lam'[s].chunk = lam[s].chunk
                     /\ At(s, "announce")' <=> At(s, "announce")

LEMMA CalmKept ==
  ASSUME PlacesOK, PlacesOK', StepOK, Calm, EInv,
         UNCHANGED <<currEpoch, minEpoch, async, block, numFinishedEpoch, announced, peer>>
  PROVE  EInv'
<1>0. conf' = conf
  BY DEF StepOK
<1>1. Floor' = Floor
  BY DEF Calm, Floor
<1>2. EpochTypes' /\ Newest'
  BY <1>0 DEF EInv, EpochTypes, Newest, Slowest
<1>3. ASSUME ~async
      PROVE  InSync'
  <2>1. InSync
    BY <1>3 DEF EInv
  <2>2. \A i \in Id : EpochIn(i)' >= currEpoch'
    <3> SUFFICES ASSUME NEW i \in Id PROVE EpochIn(i)' >= currEpoch'
      OBVIOUS
    <3>1. EpochIn(i) >= currEpoch /\ EpochIn(i) \in Nat /\ currEpoch \in Nat
      BY <2>1, Epochs DEF InSync, EpochsOK
    <3>2. \A j \in Id : EpochIn(j)' \in Nat
      BY EpochsNext DEF EpochsOK
    <3> QED BY <3>1, <3>2 DEF Calm
  <2>3. \A s \in Slot : ~Busy(s)'
    BY <2>1 DEF Calm, InSync
  <2>4. ~block' => Waiting'
    BY <2>1, WaitingKept DEF InSync
  <2> QED BY <1>0, <2>1, <2>2, <2>3, <2>4 DEF InSync
<1>4. ASSUME async
      PROVE  InAsync'
  <2>1. InAsync
    BY <1>4 DEF EInv
  <2>2. \A i \in Id : DoneOf(i)' = DoneOf(i)
    BY <1>4 DEF Calm
  <2>3. \A e : DoneBy(e)' = DoneBy(e)
    BY <2>2 DEF DoneBy
  <2>4. \A i \in Id : DoneOf(i)' >= Floor'
    BY <1>1, <2>1, <2>2 DEF InAsync
  <2>5. DoneBy(Floor + 1)' # Id
    BY <1>1, <2>1, <2>3 DEF InAsync
  <2>6. Announcing'
    BY <1>1, <2>1 DEF InAsync, Announcing, Calm, Busy, At
  <2>7. Window'
    <3>1. \A e : Ring(e)' = Ring(e)
      BY <1>0 DEF Ring
    <3> QED BY <1>0, <1>1, <2>1, <2>3, <3>1 DEF InAsync, Window
  <2> QED BY <1>0, <2>1, <2>4, <2>5, <2>6, <2>7 DEF InAsync
<1> QED BY <1>2, <1>3, <1>4 DEF EInv

LEMMA Division ==
  ASSUME NEW z \in Nat, z > 0, NEW a \in Nat
  PROVE  /\ a \div z \in Nat /\ a % z \in 0..(z - 1)
         /\ a = z * (a \div z) + (a % z)
<1>1. a \div z \in Int /\ a % z \in Int
  BY Z3
<1>2. a = z * (a \div z) + (a % z)
  BY Z3
<1>3. a % z >= 0 /\ a % z < z
  BY Z3
<1>4. a \div z >= 0
  BY Z3
<1> QED BY <1>1, <1>2, <1>3, <1>4

\* Two multiples of z that are less than z apart are the same one.
LEMMA Quotient ==
  ASSUME NEW z \in Nat, z > 0, NEW q \in Int, NEW p \in Int,
         NEW r \in 0..(z - 1), NEW t \in 0..(z - 1), z * q + r = z * p + t
  PROVE  q = p /\ r = t
<1>1. z * (q - p) = z * q - z * p
  OBVIOUS
<1> DEFINE d == q - p
<1>2. d \in Int /\ z * d = t - r /\ z * q \in Int /\ z * p \in Int
  BY <1>1
<1> HIDE DEF d
<1>3. ~ (d >= 1)
  <2> SUFFICES ASSUME d >= 1 PROVE FALSE
    OBVIOUS
  <2>1. z * d >= z
    BY <1>2
  <2> QED BY <1>2, <2>1
<1>4. ~ (d <= -1)
  <2> SUFFICES ASSUME d <= -1 PROVE FALSE
    OBVIOUS
  <2>1. z * (-d) >= z /\ z * (-d) = -(z * d)
    BY <1>2
  <2> QED BY <1>2, <2>1
<1>5. d = 0
  BY <1>2, <1>3, <1>4
<1>6. q = p
  BY <1>5 DEF d
<1> QED BY <1>6

LEMMA DivBy ==
  ASSUME NEW z \in Nat, z > 0, NEW q \in Nat, NEW r \in 0..(z - 1), NEW a \in Nat, a = q * z + r
  PROVE  a \div z = q
<1>1. /\ a \div z \in Nat /\ a % z \in 0..(z - 1)
      /\ a = z * (a \div z) + (a % z)
  BY Division
<1>2. z * q + r = z * (a \div z) + (a % z)
  <2>1. z * q = q * z
    OBVIOUS
  <2> QED BY <1>1, <2>1
<1> QED BY <1>1, <1>2, Quotient

LEMMA ModApart ==
  ASSUME NEW z \in Nat, z > 0, NEW a \in Nat, NEW b \in Nat, a % z = b % z, a <= b, b < a + z
  PROVE  a = b
<1> DEFINE p == a \div z
           q == b \div z
           r == a % z
<1>1. p \in Nat /\ r \in 0..(z - 1) /\ a = z * p + r
  BY Division
<1>2. q \in Nat /\ b = z * q + r
  BY Division
<1> HIDE DEF p, q, r
<1>3. z * p \in Int /\ z * q \in Int
  BY <1>1, <1>2
<1> DEFINE k == b - a
<1>4. k \in 0..(z - 1) /\ 0 \in 0..(z - 1)
  OBVIOUS
<1>5. z * p + k = z * q + 0
  BY <1>1, <1>2, <1>3
<1> HIDE DEF k
<1>6. k = 0
  BY <1>1, <1>2, <1>4, <1>5, Quotient
<1> QED BY <1>6 DEF k

LEMMA ModAgain ==
  ASSUME NEW z \in Nat, z > 0, NEW a \in Nat
  PROVE  (a + z) % z = a % z
<1> DEFINE p == a \div z
           r == a % z
           q == (a + z) \div z
           t == (a + z) % z
<1>1. p \in Nat /\ r \in 0..(z - 1) /\ a = z * p + r
  BY Division
<1>2. q \in Nat /\ t \in 0..(z - 1) /\ a + z = z * q + t
  <2>1. a + z \in Nat
    OBVIOUS
  <2> QED BY <2>1, Division
<1> HIDE DEF p, q, r, t
<1>3. z * (p + 1) = z * p + z /\ z * p \in Int /\ z * q \in Int /\ p + 1 \in Int
  BY <1>1, <1>2
<1>4. z * q + t = z * (p + 1) + r
  BY <1>1, <1>2, <1>3
<1>5. t = r
  BY <1>1, <1>2, <1>3, <1>4, Quotient
<1> QED BY <1>5 DEF t, r

\* Epochs less than a ring apart have slots of their own; a ring further is the same slot.
LEMMA RingApart ==
  ASSUME conf.staleness \in Nat, NEW a \in Nat, NEW b \in Nat
  PROVE  /\ Ring(a) \in 0..conf.staleness
         /\ Ring(a) = Ring(b) /\ a <= b /\ b <= a + conf.staleness => a = b
         /\ Ring(a + conf.staleness + 1) = Ring(a)
<1> DEFINE z == conf.staleness + 1
<1>1. z \in Nat /\ z > 0 /\ 0..(z - 1) = 0..conf.staleness
  OBVIOUS
<1>2. Ring(a) = a % z /\ Ring(b) = b % z /\ Ring(a + conf.staleness + 1) = (a + z) % z
  <2>1. a + conf.staleness + 1 = a + z
    OBVIOUS
  <2> QED BY <2>1 DEF Ring
<1>3. b <= a + conf.staleness => b < a + z
  OBVIOUS
<1> HIDE DEF z
<1>4. a % z \in 0..(z - 1)
  BY <1>1, Division
<1>5. (a + z) % z = a % z
  BY <1>1, ModAgain
<1>6. a % z = b % z /\ a <= b /\ b < a + z => a = b
  BY <1>1, ModApart
<1> QED BY <1>1, <1>2, <1>3, <1>4, <1>5, <1>6

\* The epoch of the phase that a chunk finishes next.
FinEpoch(i) == FinOf(i) \div Phases + 1

LEMMA FinEpochOf ==
  ASSUME PlacesOK, NEW p \in Places, NEW c \in Chunk, Here(p, c)
  PROVE  /\ Phases \in Nat \ {0} /\ FinOf(c.localId) \in Nat
         /\ FinEpoch(c.localId) \in {c.epoch, c.epoch + 1}
         /\ p \notin Slot => FinEpoch(c.localId) = c.epoch
         /\ p \in Slot /\ IsLastLayer(c) => FinEpoch(c.localId) = c.epoch + 1
<1>1. conf \in Confs /\ Route(p, c) /\ c.epoch \in Nat \ {0}
  <2>1. currEpoch \in Nat /\ c.epoch \in 1..(IF p = "sch" THEN currEpoch + 1 ELSE currEpoch)
    BY ConfOK DEF PlacesOK, Kept, Types
  <2> QED BY <2>1 DEF PlacesOK, Types, Kept
<1> DEFINE n == Phases
           k == Idx(p, c)
           a == (c.epoch - 1) * n
           f == FinOf(c.localId)
<1>2. /\ n \in Nat \ {0} /\ k \in 0..n - 1
      /\ p \in Slot /\ IsLastLayer(c) => k = n - 1
      /\ PhaseAt(p, c) = a + k
  BY <1>1, IdxOf
<1>3. f = IF p \in Slot THEN a + k + 1 ELSE a + k
  BY <1>2, SpotNow DEF FinAt
<1>4. c.epoch - 1 \in Nat /\ a \in Nat /\ a + n = c.epoch * n
  BY <1>1, <1>2
<1>5. FinEpoch(c.localId) = f \div n + 1
  BY DEF FinEpoch
<1>6. f \in Nat
  <2> HIDE DEF n, k, f
  <2> QED BY <1>2, <1>3, <1>4
<1> HIDE DEF n, k, f
<1>7. CASE p \notin Slot
  <2>0. k \in 0..(n - 1) /\ f = (c.epoch - 1) * n + k
    BY <1>2, <1>3, <1>7
  <2>1. f \div n = c.epoch - 1
    BY <1>2, <1>4, <1>6, <2>0, DivBy
  <2> QED BY <1>1, <1>2, <1>5, <1>6, <1>7, <2>1 DEF n, f
<1>8. CASE p \in Slot /\ k < n - 1
  <2>1. k + 1 \in 0..n - 1 /\ f = (c.epoch - 1) * n + (k + 1)
    BY <1>2, <1>3, <1>4, <1>8
  <2>2. f \div n = c.epoch - 1
    BY <1>2, <1>4, <1>6, <2>1, DivBy
  <2> QED BY <1>1, <1>2, <1>5, <1>6, <1>8, <2>2 DEF n, f
<1>9. CASE p \in Slot /\ k = n - 1
  <2>1. 0 \in 0..n - 1 /\ f = c.epoch * n + 0
    BY <1>2, <1>3, <1>4, <1>9
  <2>2. f \div n = c.epoch
    BY <1>1, <1>2, <1>6, <2>1, DivBy
  <2> QED BY <1>1, <1>2, <1>5, <1>6, <1>9, <2>2 DEF n, f
<1> QED BY <1>2, <1>7, <1>8, <1>9

\* A chunk finishes next a phase of an epoch it has not been counted for.
LEMMA FinEpochDone ==
  ASSUME PlacesOK, \A s \in Slot : Busy(s) => IsLastLayer(lam[s].chunk), NEW i \in Id
  PROVE  FinEpoch(i) \in Nat /\ FinEpoch(i) >= DoneOf(i) + 1
<1>1. PICK p \in Places, c \in Chunk : Here(p, c) /\ c.localId = i
  BY SpotPick
<1>2. /\ FinEpoch(i) \in {c.epoch, c.epoch + 1}
      /\ p \in Slot /\ IsLastLayer(c) => FinEpoch(i) = c.epoch + 1
  BY <1>1, FinEpochOf
<1>3. DoneOf(i) = Done(p, c) /\ c.epoch \in Nat
  BY <1>1, SpotNow DEF Chunk
<1>4. p \in Slot => lam[p].chunk = c
  BY <1>1, PlacesApart DEF Here, Carries
<1> QED BY <1>2, <1>3, <1>4 DEF Done

-----------------------------------------------------------------------------
(* The steps: the invariant of the epochs, and the abstract step.          *)

Frozen == UNCHANGED <<currEpoch, minEpoch, async, block, numFinishedEpoch, announced, peer>>

Fins == \A i \in Id : FinOf(i)' = FinOf(i)

InBound(i) ==
  \A j \in Id : /\ FinEpoch(i) <= FinEpoch(j) + (IF conf.async THEN conf.staleness ELSE 0)
                /\ FinEpoch(i) > 1 => FinEpoch(j) > 1

\* What a step does to the abstract state: nothing, one phase finished, one announcement.
Finishes(i) ==
  /\ FinOf(i)' = FinOf(i) + 1 /\ announced' = announced
  /\ \A j \in Id \ {i} : FinOf(j)' = FinOf(j)
  /\ InBound(i)

Announces ==
  /\ announced' = announced + 1 /\ Fins
  /\ \A i \in Id : FinEpoch(i) > announced'

Advances ==
  /\ EInv'
  /\ (Fins /\ announced' = announced) \/ Announces \/ \E i \in Id : Finishes(i)

Still == Settled /\ Frozen /\ \A s \in Slot : At(s, "announce")' <=> At(s, "announce")

LEMMA StillAdvances ==
  ASSUME PlacesOK, PlacesOK', StepOK, EInv, Still
  PROVE  Advances
<1>1. \A i \in Id : Same(i)
  BY SettledSpots DEF Still
<1>2. Calm
  <2>1. \A i \in Id : EpochIn(i) \in Nat
    BY Epochs DEF EpochsOK
  <2>2. \A i \in Id : EpochIn(i)' >= EpochIn(i) /\ DoneOf(i)' = DoneOf(i)
    BY <1>1, <2>1 DEF Same
  <2>3. \A s \in Slot : Busy(s) => InCallback(s)
    BY DEF Busy, InCallback
  <2> QED BY <2>2, <2>3 DEF Calm, Still, Settled
<1>3. EInv'
  BY <1>2, CalmKept DEF Still, Frozen
<1> QED BY <1>1, <1>3 DEF Advances, Fins, Same, Still, Frozen

LEMMA StillLam ==
  ASSUME Frozen, NEW s \in Slot, NEW st, NEW c, Becomes(s, st, c),
         ~InCallback(s), st \notin {"callback", "announce", "enqueue"}
  PROVE  Still
<1>1. \A t \in Slot \ {s} : lam'[t] = lam[t]
  BY DEF Becomes
<1>2. lam'[s].st = st
  BY DEF Becomes
<1>3. ASSUME NEW t \in Slot \ {s}
      PROVE  /\ InCallback(t)' <=> InCallback(t)
             /\ Busy(t)' <=> Busy(t)
             /\ lam'[t].chunk = lam[t].chunk
             /\ At(t, "announce")' <=> At(t, "announce")
  BY <1>1, <1>3 DEF InCallback, Busy, At
<1>4. ~InCallback(s)' /\ ~Busy(s)' /\ ~Busy(s) /\ ~At(s, "announce") /\ ~At(s, "announce")'
  BY <1>2 DEF InCallback, Busy, At
<1> QED BY <1>3, <1>4 DEF Still, Settled

LEMMA StillEngine ==
  ASSUME Frozen, UNCHANGED lam
  PROVE  Still
BY DEF Still, Settled, InCallback, Busy, At

\* The chunk of an accepted result is in an epoch within the bound.
LEMMA AcceptInBound ==
  ASSUME PlacesOK, EInv, NEW c \in Chunk, Here("table", c)
  PROVE  InBound(c.localId)
<1>1. /\ c.localId \in Id /\ FinEpoch(c.localId) = c.epoch /\ c.epoch = EpochIn(c.localId)
      /\ c.epoch \in Nat /\ c.epoch <= currEpoch
  <2>1. "table" \in Places /\ "table" \notin Slot /\ "table" # "sch"
    BY PlacesApart DEF Places
  <2>2. c.epoch \in 1..currEpoch /\ currEpoch \in Nat
    BY <2>1, ConfOK DEF PlacesOK, Kept, Types
  <2> QED BY <2>1, <2>2, FinEpochOf, SpotNow
<1>2. /\ conf.staleness \in Nat /\ currEpoch \in Nat
      /\ \A j \in Id : DoneOf(j) \in Nat /\ EpochIn(j) \in Nat
  BY Epochs DEF EpochsOK
<1>3. CASE ~async
  <2>1. InSync
    BY <1>3 DEF EInv
  <2>2. ASSUME NEW j \in Id
        PROVE  FinEpoch(j) \in Nat /\ FinEpoch(j) >= c.epoch
    <3>1. FinEpoch(j) \in Nat /\ FinEpoch(j) >= DoneOf(j) + 1
      BY <2>1, FinEpochDone DEF InSync
    <3>2. PICK p \in Places, d \in Chunk : Here(p, d) /\ d.localId = j
      BY SpotPick
    <3>3. EpochIn(j) = d.epoch /\ DoneOf(j) = Done(p, d)
      BY <3>2, SpotNow
    <3>4. DoneOf(j) = EpochIn(j) - 1
      BY <2>1, <3>3 DEF Done, InSync
    <3>5. EpochIn(j) >= currEpoch
      BY <2>1 DEF InSync
    <3> QED BY <1>1, <1>2, <3>1, <3>4, <3>5
  <2> QED BY <1>1, <1>2, <2>2 DEF InBound
<1>4. CASE async
  <2>1. InAsync
    BY <1>4 DEF EInv
  <2>2. /\ announced \in Nat /\ announced >= 1 /\ peer \in Nat
        /\ minEpoch = Slowest + 1
    BY <1>2, <2>1 DEF EInv, EpochTypes, InAsync, Newest
  <2>3. minEpoch \in Nat /\ minEpoch <= announced + 1
    BY <2>2 DEF Slowest
  <2>4. Floor \in Nat /\ Floor >= announced
    BY <2>2 DEF Floor
  <2>5. c.epoch <= Floor + 1 + conf.staleness
    BY <1>1, <1>2, <2>1, <2>2, <2>3, <2>4 DEF InAsync
  <2>6. ASSUME NEW j \in Id
        PROVE  FinEpoch(j) \in Nat /\ FinEpoch(j) >= Floor + 1
    <3>1. FinEpoch(j) \in Nat /\ FinEpoch(j) >= DoneOf(j) + 1
      BY <2>1, FinEpochDone DEF InAsync, Announcing
    <3>2. DoneOf(j) >= Floor
      BY <2>1 DEF InAsync
    <3> QED BY <1>2, <2>4, <3>1, <3>2
  <2> QED BY <1>1, <1>2, <2>1, <2>2, <2>4, <2>5, <2>6 DEF InBound, InAsync
<1> QED BY <1>3, <1>4 DEF EInv, EpochTypes

LEMMA StillInvoke ==
  ASSUME Types, Frozen, NEW s \in Slot, NEW c, Invoke(s, c)
  PROVE  Still
<1>1. lam \in [Slot -> [st : LambdaStates, chunk : Chunk]]
  BY DEF Types
<1>2. \A t \in Slot \ {s} : lam'[t] = lam[t]
  BY <1>1 DEF Invoke
<1>3. lam'[s].st = "start" /\ lam[s].st = "none"
  BY <1>1 DEF Invoke, Idle
<1>4. ASSUME NEW t \in Slot \ {s}
      PROVE  /\ InCallback(t)' <=> InCallback(t)
             /\ Busy(t)' <=> Busy(t)
             /\ lam'[t].chunk = lam[t].chunk
             /\ At(t, "announce")' <=> At(t, "announce")
  BY <1>2, <1>4 DEF InCallback, Busy, At
<1>5. /\ ~InCallback(s)' /\ ~Busy(s)' /\ ~At(s, "announce")'
      /\ ~InCallback(s) /\ ~Busy(s) /\ ~At(s, "announce")
  BY <1>3 DEF InCallback, Busy, At
<1> QED BY <1>4, <1>5 DEF Still, Settled

\* The steps that neither count nor finish anything.
LEMMA StillSteps ==
  ASSUME PlacesOK, NEW s \in Slot,
         \/ Pull(s) \/ CheckExist(s) \/ PushGradient(s) \/ Fail(s)
         \/ NNRecv(s) /\ ~Accept(s)
  PROVE  Still
<1>0. Types
  BY DEF PlacesOK
<1>1. Frozen /\ ~InCallback(s)
  BY DEF Pull, CheckExist, PushGradient, Fail, NNRecv, Frozen, engine, epochs, InCallback, At
<1>2. \/ \E st \in {"got", "recv"} : Becomes(s, st, lam[s].chunk)
      \/ Becomes(s, "none", NoChunk)
      \/ Becomes(s, "refused", lam[s].chunk)
  <2>1. CASE Pull(s)
    BY <1>0, <2>1, LamBecomes DEF Pull, LambdaStates
  <2>2. CASE CheckExist(s)
    BY <1>0, <2>2, LamBecomes, AnswerBecomes DEF CheckExist, LambdaStates
  <2>3. CASE PushGradient(s) \/ Fail(s)
    BY <1>0, <2>3, LamBecomes DEF PushGradient, Fail
  <2>4. CASE NNRecv(s) /\ ~Accept(s)
    <3>1. Answer(s, "refused")
      BY <2>4 DEF NNRecv
    <3> QED BY <1>0, <3>1, AnswerBecomes
  <2> QED BY <2>1, <2>2, <2>3, <2>4
<1> QED BY <1>1, <1>2, StillLam

LEMMA StillWork ==
  ASSUME PlacesOK, Gather \/ ApplyVertex \/ Scatter \/ ScatterAll \/ ApplyEdge
  PROVE  Still
<1>0. Types
  BY DEF PlacesOK
<1>1. Frozen
  BY DEF Gather, ApplyVertex, Scatter, ScatterAll, ApplyEdge, Frozen, engine, epochs
<1>2. UNCHANGED lam \/ \E s \in Slot : \E c : Invoke(s, c)
  <2>1. ASSUME NEW c, NNCompute(c)
        PROVE  UNCHANGED lam \/ \E s \in Slot : Invoke(s, c)
    BY <2>1 DEF NNCompute
  <2>2. CASE ApplyVertex
    <3>1. \E c : NNCompute(c)
      BY <2>2 DEF ApplyVertex
    <3> QED BY <2>1, <3>1
  <2>3. CASE ApplyEdge
    <3>1. UNCHANGED lam \/ \E c : NNCompute(c)
      BY <2>3 DEF ApplyEdge, lambdas
    <3> QED BY <2>1, <3>1
  <2>4. CASE Gather \/ Scatter \/ ScatterAll
    BY <2>4 DEF Gather, Scatter, ScatterAll, lambdas
  <2> QED BY <2>2, <2>3, <2>4
<1> QED BY <1>0, <1>1, <1>2, StillInvoke, StillEngine

LEMMA StillRelaunch ==
  ASSUME PlacesOK, NEW i \in Id, Relaunch(i)
  PROVE  Still
<1>1. Frozen /\ \E s \in Slot : \E c : Invoke(s, c)
  BY DEF Relaunch, RelaunchLambda, RelaunchOther, Frozen, engine, epochs
<1> QED BY <1>1, StillInvoke DEF PlacesOK

\* The first result of a chunk: a phase is finished.
LEMMA AcceptAdvances ==
  ASSUME PlacesOK, PlacesOK', StepOK, EInv, NEW s \in Slot, NNRecv(s), Accept(s)
  PROVE  Advances
<1>0. Types
  BY DEF PlacesOK
<1>1. At(s, "recv") /\ Frozen
  BY DEF NNRecv, Frozen, engine, epochs
<1>2. PICK c : c = lam[s].chunk
  OBVIOUS
<1>3. Becomes(s, "callback", c)
  BY <1>0, <1>2, LamBecomes DEF Accept, LambdaStates
<1>4. Expected(s)
  <2>1. ASSUME ~Expected(s)
        PROVE  FALSE
    <3>1. Answer(s, "refused")
      BY <2>1 DEF NNRecv
    <3>2. Becomes(s, "none", NoChunk) \/ Becomes(s, "refused", lam[s].chunk)
      BY <1>0, <3>1, AnswerBecomes
    <3> QED BY <1>3, <3>2 DEF Becomes
  <2> QED BY <2>1
<1>5. /\ c \in Chunk /\ Here("table", c) /\ c.localId \in Id
      /\ \A i \in Id : EpochIn(i)' = EpochIn(i) /\ DoneOf(i)' = DoneOf(i)
      /\ \A i \in Id \ {c.localId} : FinOf(i)' = FinOf(i)
      /\ FinOf(c.localId)' = FinOf(c.localId) + 1
  BY <1>1, <1>2, <1>4, AcceptSpots
<1>6. Calm
  <2>1. \A i \in Id : EpochIn(i) \in Nat
    BY Epochs DEF EpochsOK
  <2>2. \A i \in Id : EpochIn(i)' >= EpochIn(i) /\ DoneOf(i)' = DoneOf(i)
    BY <1>5, <2>1
  <2>3. \A t \in Slot : /\ Busy(t)' => Busy(t) /\ lam'[t].chunk = lam[t].chunk
                        /\ At(t, "announce")' <=> At(t, "announce")
    BY <1>1, <1>3 DEF Becomes, Busy, At
  <2> QED BY <2>2, <2>3 DEF Calm
<1>7. EInv'
  BY <1>1, <1>6, CalmKept DEF Frozen
<1>8. InBound(c.localId)
  BY <1>5, AcceptInBound
<1>9. Finishes(c.localId)
  BY <1>1, <1>5, <1>8 DEF Finishes, Frozen
<1> QED BY <1>5, <1>7, <1>9 DEF Advances

\* The worker is told to send its chunk on: nothing is counted.
LEMMA SendOnAdvances ==
  ASSUME PlacesOK, PlacesOK', StepOK, EInv, NEW s \in Slot, InCallback(s), Answer(s, "ok"), Frozen,
         async => Busy(s) \/ ~IsLastLayer(lam[s].chunk), ~At(s, "announce")
  PROVE  Advances
<1>0. Types
  BY DEF PlacesOK
<1>1. PICK c : c = lam[s].chunk
  OBVIOUS
<1>2. \/ Becomes(s, "none", NoChunk)
      \/ Becomes(s, "ok", c)
  BY <1>0, <1>1, AnswerBecomes
<1>3. /\ c \in Chunk /\ Here(s, c) /\ c.localId \in Id /\ c.epoch \in Nat \ {0}
      /\ \A i \in Id \ {c.localId} : Same(i)
      /\ FinOf(c.localId)' = FinOf(c.localId)
      /\ EpochIn(c.localId) = c.epoch /\ DoneOf(c.localId) = Done(s, c)
      /\ EpochIn(c.localId)' = (IF IsLastLayer(c) THEN c.epoch + 1 ELSE c.epoch)
      /\ DoneOf(c.localId)' = (IF IsLastLayer(c) THEN c.epoch ELSE c.epoch - 1)
  BY <1>1, SendSpots
<1>4. Fins
  BY <1>3 DEF Fins, Same
<1>5. \A i \in Id : EpochIn(i)' >= EpochIn(i)
  <2>1. \A i \in Id : EpochIn(i) \in Nat
    BY Epochs DEF EpochsOK
  <2>2. \A i \in Id \ {c.localId} : EpochIn(i)' = EpochIn(i)
    BY <1>3 DEF Same
  <2>3. EpochIn(c.localId)' >= EpochIn(c.localId)
    BY <1>3
  <2> QED BY <2>1, <2>2, <2>3
<1>6. async => \A i \in Id : DoneOf(i)' = DoneOf(i)
  <2> SUFFICES ASSUME async PROVE \A i \in Id : DoneOf(i)' = DoneOf(i)
    OBVIOUS
  <2>1. Busy(s) => IsLastLayer(c)
    BY <1>1 DEF EInv, InAsync, Announcing
  <2>2. DoneOf(c.localId)' = DoneOf(c.localId)
    BY <1>1, <1>3, <2>1 DEF Done
  <2> QED BY <1>3, <2>2 DEF Same
<1>7. \A t \in Slot : /\ Busy(t)' => Busy(t) /\ lam'[t].chunk = lam[t].chunk
                      /\ At(t, "announce")' <=> At(t, "announce")
  BY <1>2 DEF Becomes, Busy, At
<1>8. Calm
  BY <1>5, <1>6, <1>7 DEF Calm
<1>9. EInv'
  BY <1>8, CalmKept DEF Frozen
<1> QED BY <1>4, <1>9 DEF Advances, Frozen

LEMMA EnqueueAdvances ==
  ASSUME PlacesOK, PlacesOK', StepOK, EInv, NEW s \in Slot, Enqueue(s)
  PROVE  Advances
<1>1. InCallback(s) /\ Answer(s, "ok") /\ Frozen /\ Busy(s) /\ ~At(s, "announce")
  BY DEF Enqueue, Frozen, engine, epochs, At, Busy, InCallback
<1> QED BY <1>1, SendOnAdvances

\* minEpoch follows the slower of the two epochs.
LEMMA SlowestOf ==
  ASSUME PlacesOK, EInv
  PROVE  /\ announced \in Nat /\ announced >= 1 /\ peer \in Nat /\ peer >= 1
         /\ minEpoch \in Nat /\ Slowest \in {announced, peer} /\ minEpoch <= announced + 1
         /\ Floor \in {announced, announced + 1}
         /\ async => minEpoch = Slowest + 1
<1>1. conf.numEpochs \in Nat /\ currEpoch \in Nat
  BY Epochs DEF EpochsOK
<1>2. announced \in Nat /\ announced >= 1 /\ peer \in Nat /\ peer >= 1
  BY <1>1 DEF EInv, EpochTypes
<1>3. minEpoch = (IF currEpoch < 2 THEN 1 ELSE Slowest + 1) /\ (async => ~(currEpoch < 2))
  BY <1>1 DEF EInv, Newest, InAsync
<1> QED BY <1>1, <1>2, <1>3 DEF Slowest, Floor

\* Nothing is counted: an epoch is started or announced, here or elsewhere.
LEMMA AsyncMoves ==
  ASSUME conf' = conf, InAsync, \A i \in Id : Same(i), Floor' = Floor, Announcing',
         UNCHANGED numFinishedEpoch, currEpoch' >= 2, currEpoch' <= minEpoch' + conf.staleness
  PROVE  InAsync'
<1>1. \A i \in Id : DoneOf(i)' = DoneOf(i)
  BY DEF Same
<1>2. \A e : DoneBy(e)' = DoneBy(e)
  BY <1>1 DEF DoneBy
<1>3. \A i \in Id : DoneOf(i)' >= Floor'
  BY <1>1 DEF InAsync
<1>4. DoneBy(Floor + 1)' # Id
  BY <1>2 DEF InAsync
<1>5. Window'
  <2>1. \A e : Ring(e)' = Ring(e)
    BY DEF Ring
  <2> QED BY <1>2, <2>1 DEF InAsync, Window
<1> QED BY <1>3, <1>4, <1>5 DEF InAsync

LEMMA AsyncKept ==
  ASSUME PlacesOK, conf' = conf, InAsync, \A i \in Id : Same(i), Floor' = Floor, Announcing',
         UNCHANGED <<currEpoch, numFinishedEpoch>>,
         minEpoch \in Nat, minEpoch' \in Nat, minEpoch' >= minEpoch
  PROVE  InAsync'
<1>1. conf.staleness \in Nat /\ currEpoch \in Nat
  BY Epochs DEF EpochsOK
<1>2. currEpoch >= 2 /\ currEpoch <= minEpoch + conf.staleness
  BY DEF InAsync
<1> QED BY <1>1, <1>2, AsyncMoves

\* The other servers have finished one more epoch.
LEMMA ReadAdvances ==
  ASSUME PlacesOK, PlacesOK', StepOK, EInv, ReadEpochUpdates
  PROVE  Advances
<1>0. /\ async /\ peer < conf.numEpochs /\ peer' = peer + 1
      /\ minEpoch' = (IF announced >= peer' THEN minEpoch + 1 ELSE minEpoch)
      /\ UNCHANGED <<conf, queue, currEpoch, async, block, numFinishedEpoch, announced, timeoutTable, lam>>
  BY DEF ReadEpochUpdates, engine, lambdas
<1>1. InAsync /\ EpochTypes /\ conf.numEpochs \in Nat /\ currEpoch \in Nat /\ currEpoch >= 2
  BY <1>0, Epochs DEF EInv, EpochsOK, InAsync
<1>2. Settled
  BY <1>0 DEF Settled, InCallback, Busy
<1>3. \A i \in Id : Same(i)
  BY <1>2, SettledSpots
<1>4. Floor' = Floor
  BY <1>0 DEF Floor, At
<1>5. Announcing'
  BY <1>0, <1>1, <1>4 DEF InAsync, Announcing, Busy, At
<1>6. /\ announced \in Nat /\ announced >= 1 /\ peer \in Nat /\ peer >= 1
      /\ minEpoch \in Nat /\ minEpoch = Slowest + 1
  BY <1>0, SlowestOf
<1>7. minEpoch' \in Nat /\ minEpoch' >= minEpoch /\ minEpoch' = Slowest' + 1
  BY <1>0, <1>6 DEF Slowest
<1>8. InAsync'
  BY <1>0, <1>1, <1>3, <1>4, <1>5, <1>6, <1>7, AsyncKept
<1>9. EpochTypes' /\ Newest'
  <2>1. peer' \in {1} \cup 2..conf'.numEpochs
    BY <1>0, <1>1, <1>6
  <2>2. EpochTypes'
    BY <1>0, <1>1, <2>1 DEF EpochTypes
  <2> QED BY <1>0, <1>1, <1>7, <2>2 DEF Newest
<1>10. EInv'
  BY <1>0, <1>8, <1>9 DEF EInv
<1> QED BY <1>0, <1>3, <1>10 DEF Advances, Fins, Same

\* An epoch is announced: all chunks have been counted for it.
LEMMA AnnounceAdvances ==
  ASSUME PlacesOK, PlacesOK', StepOK, EInv, NEW s \in Slot, Announce(s)
  PROVE  Advances
<1>0. Types /\ conf' = conf
  BY DEF PlacesOK, StepOK
<1>1. PICK c : c = lam[s].chunk
  OBVIOUS
<1>2. /\ At(s, "announce") /\ announced' = c.epoch
      /\ minEpoch' = (IF peer >= announced' THEN minEpoch + 1 ELSE minEpoch)
      /\ UNCHANGED <<currEpoch, async, block, numFinishedEpoch, peer>>
  BY <1>1 DEF Announce, engine
<1>3. Becomes(s, "enqueue", c)
  BY <1>0, <1>1, LamBecomes DEF Announce, LambdaStates
<1>4. async
  BY <1>2 DEF EInv, InSync, Busy, At, EpochTypes
<1>5. InAsync /\ EpochTypes /\ conf.numEpochs \in Nat /\ currEpoch \in 0..conf.numEpochs /\ currEpoch >= 2
  BY <1>4, Epochs DEF EInv, EpochsOK, InAsync
<1>6. /\ announced \in Nat /\ announced >= 1 /\ peer \in Nat /\ peer >= 1
      /\ minEpoch \in Nat /\ minEpoch = Slowest + 1
  BY <1>4, SlowestOf
<1>7. c.epoch = announced + 1 /\ Floor = announced + 1
  BY <1>1, <1>2, <1>5 DEF InAsync, Announcing, Floor
<1>8. /\ \A t \in Slot \ {s} : lam'[t] = lam[t] /\ ~At(t, "announce")
      /\ lam'[s].st = "enqueue" /\ lam'[s].chunk = lam[s].chunk
  BY <1>1, <1>2, <1>3, <1>5 DEF InAsync, Announcing, Becomes
<1>9. \A t \in Slot : ~At(t, "announce")'
  BY <1>8 DEF At
<1>10. Floor' = Floor
  BY <1>2, <1>7, <1>9 DEF Floor
<1>11. Settled
  BY <1>2, <1>8 DEF Settled, InCallback, Busy, At
<1>12. \A i \in Id : Same(i)
  BY <1>11, SettledSpots
<1>13. Announcing'
  <2>1. \A t \in Slot : Busy(t)' => Busy(t) /\ lam'[t].chunk = lam[t].chunk
    BY <1>2, <1>8 DEF Busy, At
  <2> QED BY <1>5, <1>9, <2>1 DEF InAsync, Announcing
<1>14. minEpoch' \in Nat /\ minEpoch' >= minEpoch /\ minEpoch' = Slowest' + 1
  BY <1>2, <1>6, <1>7 DEF Slowest
<1>15. InAsync'
  BY <1>0, <1>2, <1>5, <1>6, <1>10, <1>12, <1>13, <1>14, AsyncKept
<1>16. announced' \in {1} \cup 2..conf'.numEpochs
  <2>1. c \in Chunk /\ Here(s, c) /\ s \in Places /\ s # "sch"
    BY <1>0, <1>1, <1>2, PlacesApart DEF Types, Here, Carries, InCallback, At, Places
  <2>2. c.epoch \in 1..currEpoch
    BY <2>1 DEF PlacesOK, Kept
  <2> QED BY <1>0, <1>2, <1>5, <1>6, <1>7, <2>2
<1>17. EpochTypes' /\ Newest'
  <2>1. EpochTypes'
    BY <1>0, <1>2, <1>5, <1>16 DEF EpochTypes
  <2> QED BY <1>2, <1>5, <1>14, <2>1 DEF Newest
<1>18. EInv'
  BY <1>2, <1>4, <1>15, <1>17 DEF EInv
<1>19. \A i \in Id : FinEpoch(i) > announced'
  <2> SUFFICES ASSUME NEW i \in Id PROVE FinEpoch(i) > announced'
    OBVIOUS
  <2>1. FinEpoch(i) \in Nat /\ FinEpoch(i) >= DoneOf(i) + 1
    BY <1>5, FinEpochDone DEF InAsync, Announcing
  <2>2. DoneOf(i) >= announced + 1 /\ DoneOf(i) \in Nat
    BY <1>5, <1>7, Epochs DEF InAsync, EpochsOK
  <2> QED BY <1>2, <1>6, <1>7, <2>1, <2>2
<1>20. Announces
  BY <1>2, <1>7, <1>12, <1>19 DEF Announces, Fins, Same
<1> QED BY <1>18, <1>20 DEF Advances

\* A chunk that is counted has not been counted for this epoch; the counter of the
\* ring is that of the epoch, and adds up.
LEMMA Counting ==
  ASSUME PlacesOK, EInv, async, NEW s \in Slot, At(s, "callback"),
         NEW c \in Chunk, Here(s, c), NEW x, x = numFinishedEpoch[Ring(c.epoch)],
         DoneOf(c.localId)' = c.epoch, \A i \in Id \ {c.localId} : DoneOf(i)' = DoneOf(i)
  PROVE  /\ c.localId \in Id /\ DoneOf(c.localId) = c.epoch - 1 /\ c.epoch \in Nat
         /\ Floor \in Nat /\ conf.staleness \in Nat
         /\ c.epoch \in Floor + 1..Floor + conf.staleness + 1
         /\ \A e \in Nat \ {c.epoch} : DoneBy(e)' = DoneBy(e)
         /\ DoneBy(c.epoch)' = DoneBy(c.epoch) \cup {c.localId}
         /\ c.localId \notin DoneBy(c.epoch)
         /\ x \in Nat /\ x = Cardinality(DoneBy(c.epoch))
         /\ Cardinality(DoneBy(c.epoch)') = x + 1
         /\ x + 1 <= NumLambdas
         /\ x + 1 = NumLambdas <=> DoneBy(c.epoch)' = Id
<1>1. InAsync /\ s \in Places /\ s # "sch"
  BY PlacesApart DEF EInv, Places
<1>2. conf.staleness \in Nat /\ currEpoch \in Nat /\ \A i \in Id : DoneOf(i) \in Nat
  BY Epochs DEF EpochsOK
<1>3. c.localId \in Id /\ DoneOf(c.localId) = c.epoch - 1 /\ c.epoch \in Nat /\ c.epoch <= currEpoch
  <2>1. c.localId \in Id /\ DoneOf(c.localId) = Done(s, c) /\ c.epoch \in 1..currEpoch
    BY <1>1, SpotNow DEF PlacesOK, Kept
  <2> QED BY <1>2, <2>1 DEF Done, Busy, At
<1>4. /\ announced \in Nat /\ minEpoch \in Nat /\ minEpoch <= announced + 1
      /\ Floor \in {announced, announced + 1}
  BY SlowestOf
<1>5. Floor \in Nat /\ currEpoch <= Floor + 1 + conf.staleness
  <2>1. currEpoch <= minEpoch + conf.staleness
    BY <1>1 DEF InAsync
  <2> QED BY <1>2, <1>4, <2>1
<1>6. DoneOf(c.localId) >= Floor
  BY <1>1, <1>3 DEF InAsync
<1>7. c.epoch \in Floor + 1..Floor + conf.staleness + 1
  BY <1>2, <1>3, <1>5, <1>6
<1>8. \A e \in Nat \ {c.epoch} : DoneBy(e)' = DoneBy(e)
  <2> SUFFICES ASSUME NEW e \in Nat \ {c.epoch} PROVE DoneBy(e)' = DoneBy(e)
    OBVIOUS
  <2>1. ASSUME NEW i \in Id
        PROVE  DoneOf(i)' >= e <=> DoneOf(i) >= e
    BY <1>3
  <2> QED BY <2>1 DEF DoneBy
<1>9. DoneBy(c.epoch)' = DoneBy(c.epoch) \cup {c.localId}
  <2>1. ASSUME NEW i \in Id
        PROVE  DoneOf(i)' >= c.epoch <=> DoneOf(i) >= c.epoch \/ i = c.localId
    BY <1>3
  <2> QED BY <1>3, <2>1 DEF DoneBy
<1>10. c.localId \notin DoneBy(c.epoch)
  BY <1>3 DEF DoneBy
<1>11. x = Cardinality(DoneBy(c.epoch))
  BY <1>1, <1>7 DEF InAsync, Window
<1> DEFINE D == DoneBy(c.epoch)
<1>12. D \subseteq Id /\ IsFiniteSet(Id) /\ NumLambdas = Cardinality(Id)
  BY ChunkPipelineOK DEF DoneBy, NumLambdas
<1>13. D \cup {c.localId} \subseteq Id
  BY <1>3, <1>12
<1> HIDE DEF D
<1>14. IsFiniteSet(D) /\ IsFiniteSet(D \cup {c.localId})
  BY <1>12, <1>13, FS_Subset
<1>15. Cardinality(D) \in Nat /\ Cardinality(Id) \in Nat
  BY <1>12, <1>14, FS_CardinalityType
<1>16. Cardinality(D \cup {c.localId}) = Cardinality(D) + 1
  BY <1>10, <1>14, FS_AddElement DEF D
<1>17. /\ Cardinality(D \cup {c.localId}) <= Cardinality(Id)
       /\ Cardinality(D \cup {c.localId}) = Cardinality(Id) => D \cup {c.localId} = Id
  BY <1>12, <1>13, FS_Subset
<1>18. /\ x \in Nat /\ x = Cardinality(D) /\ Cardinality(DoneBy(c.epoch)') = x + 1
       /\ x + 1 <= NumLambdas
       /\ x + 1 = NumLambdas <=> DoneBy(c.epoch)' = Id
  BY <1>9, <1>11, <1>12, <1>15, <1>16, <1>17 DEF D
<1> QED BY <1>2, <1>3, <1>5, <1>7, <1>8, <1>9, <1>10, <1>11, <1>18

\* What a counted chunk leaves as it is.
LEMMA CountedFrame ==
  ASSUME NEW s \in Slot, Callback(s), Counted(lam[s].chunk)
  PROVE  /\ async /\ IsLastLayer(lam[s].chunk) /\ At(s, "callback") /\ InCallback(s)
         /\ UNCHANGED <<conf, currEpoch, minEpoch, async, block, announced, peer, timeoutTable>>
BY DEF Callback, Counted, engine, At, InCallback

\* A chunk is counted, and is not the last one.
LEMMA CountAdvances ==
  ASSUME PlacesOK, PlacesOK', StepOK, EInv, NEW s \in Slot, Callback(s), NEW c, c = lam[s].chunk,
         Counted(c), NEW n, n = numFinishedEpoch[Ring(c.epoch)] + 1, n # NumLambdas
  PROVE  Advances
<1>0. /\ async /\ IsLastLayer(c) /\ At(s, "callback") /\ InCallback(s)
      /\ UNCHANGED <<conf, currEpoch, minEpoch, async, block, announced, peer, timeoutTable>>
      /\ InAsync /\ EpochTypes /\ Types
  BY CountedFrame DEF EInv, PlacesOK
<1>1. /\ numFinishedEpoch' = [numFinishedEpoch EXCEPT ![Ring(c.epoch)] = n]
      /\ Answer(s, "ok")
  BY DEF Callback
<1>2. \/ Becomes(s, "none", NoChunk)
      \/ Becomes(s, "ok", c)
  BY <1>0, <1>1, AnswerBecomes
<1>3. /\ c \in Chunk /\ Here(s, c) /\ c.localId \in Id /\ c.epoch \in Nat \ {0}
      /\ \A i \in Id \ {c.localId} : Same(i)
      /\ FinOf(c.localId)' = FinOf(c.localId)
      /\ DoneOf(c.localId)' = c.epoch
  BY <1>0, <1>1, SendSpots
<1>4. \A i \in Id \ {c.localId} : DoneOf(i)' = DoneOf(i)
  BY <1>3 DEF Same
<1> DEFINE e == c.epoch
           x == numFinishedEpoch[Ring(e)]
<1>5. /\ c.localId \in Id /\ DoneOf(c.localId) = e - 1 /\ e \in Nat
      /\ Floor \in Nat /\ conf.staleness \in Nat
      /\ e \in Floor + 1..Floor + conf.staleness + 1
      /\ \A y \in Nat \ {e} : DoneBy(y)' = DoneBy(y)
      /\ x \in Nat
      /\ Cardinality(DoneBy(e)') = x + 1
      /\ x + 1 <= NumLambdas
      /\ x + 1 = NumLambdas <=> DoneBy(e)' = Id
  BY <1>0, <1>3, <1>4, Counting
<1>6. n = x + 1
  OBVIOUS
<1> HIDE DEF e, x
<1>7. Floor' = Floor
  <2>1. \A t \in Slot : At(t, "announce")' <=> At(t, "announce")
    BY <1>0, <1>2 DEF Becomes, At
  <2> QED BY <1>0, <2>1 DEF Floor
<1>8. Announcing'
  <2>1. \A t \in Slot : Busy(t)' => Busy(t) /\ lam'[t].chunk = lam[t].chunk
    BY <1>2 DEF Becomes, Busy
  <2>2. \A t \in Slot : At(t, "announce")' => At(t, "announce") /\ lam'[t].chunk = lam[t].chunk
    BY <1>2 DEF Becomes, At
  <2> QED BY <1>0, <1>7, <2>1, <2>2 DEF InAsync, Announcing
<1>9. \A i \in Id : DoneOf(i)' >= Floor'
  <2>1. e >= Floor
    BY <1>5
  <2> QED BY <1>0, <1>3, <1>4, <1>7, <2>1 DEF InAsync, e
<1>10. DoneBy(Floor + 1)' # Id
  <2>1. CASE e = Floor + 1
    BY <1>5, <1>6, <1>7, <2>1
  <2>2. CASE e # Floor + 1
    <3>1. Floor + 1 \in Nat \ {e}
      BY <1>5, <2>2
    <3>2. DoneBy(Floor + 1)' = DoneBy(Floor + 1)
      BY <1>5, <1>7, <3>1
    <3> QED BY <1>0, <3>2 DEF InAsync
  <2> QED BY <2>1, <2>2
<1>11. numFinishedEpoch \in [0..conf.staleness -> {0} \cup 1..NumLambdas - 1]
  BY <1>0 DEF EpochTypes
<1>12. Ring(e) \in 0..conf.staleness
  BY <1>5, RingApart
<1>13. numFinishedEpoch' = [numFinishedEpoch EXCEPT ![Ring(e)] = n]
  BY <1>1 DEF e
<1>14. Window'
  <2> SUFFICES ASSUME NEW y \in Floor + 1..Floor + conf.staleness + 1
               PROVE  numFinishedEpoch'[Ring(y)] = Cardinality(DoneBy(y)')
    <3>1. \A y : Ring(y)' = Ring(y)
      BY <1>0 DEF Ring
    <3> QED BY <1>0, <1>7, <3>1 DEF Window
  <2>0. y \in Nat
    BY <1>5
  <2>1. CASE y = e
    BY <1>5, <1>6, <1>11, <1>12, <1>13, <2>1
  <2>2. CASE y # e
    <3>1. Ring(y) # Ring(e)
      <4>1. (y <= e /\ e <= y + conf.staleness) \/ (e <= y /\ y <= e + conf.staleness)
        BY <1>5
      <4> QED BY <1>5, <2>0, <2>2, <4>1, RingApart
    <3>2. numFinishedEpoch'[Ring(y)] = numFinishedEpoch[Ring(y)]
      <4>1. Ring(y) \in 0..conf.staleness
        BY <1>5, <2>0, RingApart
      <4> QED BY <1>11, <1>13, <3>1, <4>1
    <3>3. DoneBy(y)' = DoneBy(y)
      BY <1>5, <2>0, <2>2
    <3> QED BY <1>0, <3>2, <3>3 DEF InAsync, Window
  <2> QED BY <2>1, <2>2
<1>15. InAsync'
  BY <1>0, <1>8, <1>9, <1>10, <1>14 DEF InAsync
<1>16. EpochTypes'
  <2>1. n \in 1..NumLambdas - 1
    <3>1. NumLambdas \in Nat
      BY FS_CardinalityType, ChunkPipelineOK DEF NumLambdas
    <3> QED BY <1>5, <1>6, <3>1
  <2>2. numFinishedEpoch' \in [0..conf.staleness -> {0} \cup 1..NumLambdas - 1]
    BY <1>11, <1>13, <2>1
  <2> QED BY <1>0, <2>2 DEF EpochTypes
<1>17. EInv'
  <2>1. Newest'
    BY <1>0 DEF EInv, Newest, Slowest
  <2> QED BY <1>0, <1>15, <1>16, <2>1 DEF EInv
<1>18. Fins
  BY <1>3 DEF Fins, Same
<1> QED BY <1>0, <1>17, <1>18 DEF Advances

\* The last chunk of the epoch that is announced next is counted.
LEMMA LastAdvances ==
  ASSUME PlacesOK, PlacesOK', StepOK, EInv, NEW s \in Slot, Callback(s), NEW c, c = lam[s].chunk,
         Counted(c), NEW n, n = numFinishedEpoch[Ring(c.epoch)] + 1, n = NumLambdas
  PROVE  Advances
<1>0. /\ async /\ IsLastLayer(c) /\ At(s, "callback") /\ InCallback(s)
      /\ UNCHANGED <<conf, currEpoch, minEpoch, async, block, announced, peer, timeoutTable>>
      /\ InAsync /\ EpochTypes /\ Types
  BY CountedFrame DEF EInv, PlacesOK
<1>1. /\ numFinishedEpoch' = [numFinishedEpoch EXCEPT ![Ring(c.epoch)] = 0]
      /\ Goto(s, "announce") /\ UNCHANGED queue
  BY DEF Callback
<1>2. Becomes(s, "announce", c)
  BY <1>0, <1>1, LamBecomes DEF LambdaStates
<1>21. Unmoved
  BY <1>0, <1>1, <1>2, LamUnmoved
<1>3. /\ c \in Chunk /\ Here(s, c) /\ c.localId \in Id /\ c.epoch \in Nat \ {0}
      /\ \A i \in Id \ {c.localId} : Same(i)
      /\ FinOf(c.localId)' = FinOf(c.localId)
      /\ DoneOf(c.localId)' = c.epoch
  BY <1>0, <1>1, <1>21, CountSpots
<1>4. \A i \in Id \ {c.localId} : DoneOf(i)' = DoneOf(i)
  BY <1>3 DEF Same
<1> DEFINE e == c.epoch
           x == numFinishedEpoch[Ring(e)]
<1>5. /\ e \in Nat /\ Floor \in Nat /\ conf.staleness \in Nat
      /\ e \in Floor + 1..Floor + conf.staleness + 1
      /\ \A y \in Nat \ {e} : DoneBy(y)' = DoneBy(y)
      /\ x + 1 = NumLambdas <=> DoneBy(e)' = Id
  BY <1>0, <1>3, <1>4, Counting
<1>6. DoneBy(e)' = Id
  BY <1>5
<1> HIDE DEF e, x
<1>7. \A i \in Id : DoneOf(i)' \in Nat /\ DoneOf(i)' >= e
  <2>1. \A i \in Id : DoneOf(i)' \in Nat
    BY EpochsNext DEF EpochsOK
  <2>2. \A i \in Id : DoneOf(i)' >= e
    BY <1>3, <1>6 DEF DoneBy, e
  <2> QED BY <2>1, <2>2
<1>8. ASSUME NEW t \in Slot, At(t, "announce")
      PROVE  FALSE
  <2>1. PICK d : d = lam[t].chunk
    OBVIOUS
  <2>2. d \in Chunk /\ Here(t, d) /\ t \in Places /\ s \in Places /\ t # s
    BY <1>0, <1>8, <2>1, PlacesApart DEF Types, Here, Carries, InCallback, At, Places
  <2>3. d.localId \in Id /\ DoneOf(d.localId) = Done(t, d)
    BY <2>2, SpotNow
  <2>4. d.epoch = Floor /\ Done(t, d) = d.epoch
    BY <1>0, <1>8, <2>1 DEF InAsync, Announcing, Done, Busy, At
  <2>5. d.localId # c.localId
    BY <1>3, <2>2 DEF PlacesOK, Single
  <2>6. DoneOf(d.localId)' = Floor
    BY <1>4, <2>3, <2>4, <2>5
  <2> QED BY <1>5, <1>7, <2>3, <2>6
<1>9. Floor = announced
  BY <1>8 DEF Floor
<1>10. e = Floor + 1
  <2> SUFFICES ASSUME e # Floor + 1 PROVE FALSE
    OBVIOUS
  <2>1. Floor + 1 \in Nat \ {e} /\ Floor + 1 <= e
    BY <1>5
  <2>2. PICK f : f = Floor + 1
    OBVIOUS
  <2>3. DoneBy(f)' = DoneBy(f) /\ DoneBy(f) # Id
    BY <1>0, <1>5, <2>1, <2>2 DEF InAsync
  <2>4. \A i \in Id : DoneOf(i)' >= f
    BY <1>5, <1>7, <2>1, <2>2
  <2>5. DoneBy(f)' = Id
    BY <2>4 DEF DoneBy
  <2> QED BY <2>3, <2>5
<1>11. At(s, "announce")'
  BY <1>2 DEF Becomes, At
<1>12. Floor' = e
  BY <1>0, <1>9, <1>10, <1>11 DEF Floor
<1>13. Announcing'
  <2>1. \A t \in Slot \ {s} : ~At(t, "announce")'
    BY <1>2, <1>8 DEF Becomes, At
  <2>2. \A t \in Slot \ {s} : Busy(t)' => Busy(t) /\ lam'[t].chunk = lam[t].chunk
    BY <1>2 DEF Becomes, Busy
  <2>3. lam'[s].chunk = c
    BY <1>2 DEF Becomes
  <2> QED BY <1>0, <1>12, <2>1, <2>2, <2>3 DEF InAsync, Announcing, e
<1>14. \A i \in Id : DoneOf(i)' >= Floor'
  BY <1>7, <1>12
<1>15. DoneBy(Floor + 1)' # Id
  <2>1. c.localId \in Id /\ DoneOf(c.localId)' = e
    BY <1>3 DEF e
  <2>2. ~(e >= e + 1)
    BY <1>5
  <2>3. c.localId \notin DoneBy(Floor + 1)'
    BY <1>12, <2>1, <2>2 DEF DoneBy
  <2> QED BY <2>1, <2>3
<1>16. numFinishedEpoch \in [0..conf.staleness -> {0} \cup 1..NumLambdas - 1]
  BY <1>0 DEF EpochTypes
<1>17. Ring(e) \in 0..conf.staleness
  BY <1>5, RingApart
<1>18. numFinishedEpoch' = [numFinishedEpoch EXCEPT ![Ring(e)] = 0]
  BY <1>1 DEF e
<1>19. Window'
  <2> SUFFICES ASSUME NEW y \in e + 1..e + conf.staleness + 1
               PROVE  numFinishedEpoch'[Ring(y)] = Cardinality(DoneBy(y)')
    <3>1. \A y : Ring(y)' = Ring(y)
      BY <1>0 DEF Ring
    <3> QED BY <1>0, <1>12, <3>1 DEF Window
  <2>0. y \in Nat \ {e} /\ e <= y
    BY <1>5
  <2>1. CASE y = e + conf.staleness + 1
    <3>1. numFinishedEpoch'[Ring(y)] = 0
      <4>1. Ring(y) = Ring(e)
        BY <1>5, <2>1, RingApart
      <4> QED BY <1>16, <1>17, <1>18, <4>1
    <3>2. currEpoch \in Nat /\ currEpoch <= e + conf.staleness /\ \A i \in Id : DoneOf(i) \in Nat /\ DoneOf(i) <= currEpoch
      <4>1. currEpoch \in Nat /\ \A i \in Id : DoneOf(i) \in Nat /\ DoneOf(i) <= currEpoch
        BY Epochs DEF EpochsOK
      <4>2. announced \in Nat /\ minEpoch \in Nat /\ minEpoch <= announced + 1
        BY SlowestOf
      <4>3. currEpoch <= minEpoch + conf.staleness
        BY <1>0 DEF InAsync
      <4> QED BY <1>5, <1>9, <1>10, <4>1, <4>2, <4>3
    <3>3. \A i \in Id : ~(DoneOf(i) >= y)
      BY <1>5, <2>1, <3>2
    <3>4. DoneBy(y) = {} /\ DoneBy(y)' = DoneBy(y)
      BY <1>5, <2>0, <3>3 DEF DoneBy
    <3> QED BY <3>1, <3>4, FS_EmptySet
  <2>2. CASE y # e + conf.staleness + 1
    <3>0. y <= e + conf.staleness
      BY <1>5, <2>2
    <3>1. Ring(y) # Ring(e)
      BY <1>5, <2>0, <3>0, RingApart
    <3>2. numFinishedEpoch'[Ring(y)] = numFinishedEpoch[Ring(y)]
      <4>1. Ring(y) \in 0..conf.staleness
        BY <1>5, <2>0, RingApart
      <4> QED BY <1>16, <1>18, <3>1, <4>1
    <3>3. DoneBy(y)' = DoneBy(y)
      BY <1>5, <2>0
    <3>4. y \in Floor + 1..Floor + conf.staleness + 1
      BY <1>5, <1>10, <2>0, <3>0
    <3> QED BY <1>0, <3>2, <3>3, <3>4 DEF InAsync, Window
  <2> QED BY <2>1, <2>2
<1>20. InAsync'
  BY <1>0, <1>13, <1>14, <1>15, <1>19 DEF InAsync
<1>22. EpochTypes'
  <2>1. numFinishedEpoch' \in [0..conf.staleness -> {0} \cup 1..NumLambdas - 1]
    BY <1>16, <1>18
  <2> QED BY <1>0, <2>1 DEF EpochTypes
<1>23. EInv'
  <2>1. Newest'
    BY <1>0 DEF EInv, Newest, Slowest
  <2> QED BY <1>0, <1>20, <1>22, <2>1 DEF EInv
<1>24. Fins
  BY <1>3 DEF Fins, Same
<1> QED BY <1>0, <1>23, <1>24 DEF Advances

LEMMA CallbackAdvances ==
  ASSUME PlacesOK, PlacesOK', StepOK, EInv, NEW s \in Slot, Callback(s)
  PROVE  Advances
<1>1. PICK c : c = lam[s].chunk
  OBVIOUS
<1>2. CASE Counted(c)
  <2>1. PICK n : n = numFinishedEpoch[Ring(c.epoch)] + 1
    OBVIOUS
  <2>2. CASE n = NumLambdas
    BY <1>1, <1>2, <2>1, <2>2, LastAdvances
  <2>3. CASE n # NumLambdas
    BY <1>1, <1>2, <2>1, <2>3, CountAdvances
  <2> QED BY <2>2, <2>3
<1>3. CASE ~Counted(c)
  <2>1. /\ InCallback(s) /\ Answer(s, "ok") /\ Frozen /\ ~At(s, "announce")
        /\ async => ~IsLastLayer(lam[s].chunk)
    BY <1>1, <1>3 DEF Callback, Counted, Frozen, engine, InCallback, At
  <2> QED BY <2>1, SendOnAdvances
<1> QED BY <1>2, <1>3

\* The chunks of the program are all there, and the barrier is passed.
LEMMA BarrierAdvances ==
  ASSUME PlacesOK, PlacesOK', StepOK, EInv, NEW c \in queue["sch"], IsTop("sch", c), SchedBarrier(c),
         UNCHANGED <<conf, lam, timeoutTable, numFinishedEpoch, announced, peer>>
  PROVE  Advances
<1>0. /\ ~async /\ block' = FALSE /\ c.epoch > currEpoch
      /\ Cardinality(queue["sch"]) = NumLambdas
      /\ UNCHANGED <<queue, currEpoch, minEpoch, async>> /\ InSync /\ Types
  BY DEF SchedBarrier, EInv, PlacesOK
<1>1. Settled
  BY DEF Settled, InCallback, Busy
<1>2. \A i \in Id : Same(i)
  BY <1>1, SettledSpots
<1>3. "sch" \in Places /\ "sch" \in Queue /\ c \in Chunk /\ c.epoch \in Nat /\ currEpoch \in Nat
  <2>1. "sch" \in Places /\ "sch" \in Queue
    BY DEF Places, Queue
  <2> QED BY <1>0, <2>1, Epochs DEF Types, EpochsOK, Chunk
<1>4. Waiting
  <2> SUFFICES ASSUME NEW p \in Places, NEW d \in Chunk, Here(p, d)
               PROVE  p = "sch" /\ d.epoch = currEpoch + 1
    BY DEF Waiting
  <2>1. p = "sch"
    BY <1>0, AllScheduled
  <2>2. d \in queue["sch"]
    BY <2>1, PlacesApart DEF Here
  <2>3. d.epoch \in 1..currEpoch + 1 /\ d.epoch \in Nat
    BY <2>1 DEF PlacesOK, Kept, Chunk
  <2>4. ~(c.epoch > d.epoch)
    <3>1. ~Less(c, d)
      BY <2>2 DEF IsTop
    <3> QED BY <3>1 DEF Less
  <2> QED BY <1>0, <1>3, <2>1, <2>3, <2>4
<1>5. Waiting'
  BY <1>0, <1>4, WaitingKept
<1>6. \A i \in Id : EpochIn(i)' >= currEpoch'
  BY <1>0, <1>2 DEF InSync, Same
<1>7. InSync'
  BY <1>0, <1>5, <1>6 DEF InSync, Busy
<1>8. EpochTypes' /\ Newest'
  BY <1>0 DEF EInv, EpochTypes, Newest, Slowest
<1>9. EInv'
  BY <1>0, <1>7, <1>8 DEF EInv
<1> QED BY <1>2, <1>9 DEF Advances, Fins, Same

\* The first chunk of an epoch starts it.
LEMMA StartAdvances ==
  ASSUME PlacesOK, PlacesOK', StepOK, EInv, NEW c \in queue["sch"], SchedStart(c),
         UNCHANGED <<conf, lam, timeoutTable, numFinishedEpoch, announced, peer>>
  PROVE  Advances
<1>0. /\ c.epoch > currEpoch /\ c.epoch <= conf.numEpochs
      /\ IF async THEN c.epoch <= minEpoch + conf.staleness ELSE ~block
      /\ currEpoch' = currEpoch + 1
      /\ block' = (currEpoch = 0 \/ (~async /\ currEpoch >= minEpoch) \/ block)
      /\ async' = IF currEpoch = 0 THEN FALSE ELSE IF currEpoch = 1 THEN conf.async ELSE async
      /\ minEpoch' = IF currEpoch = 1 THEN minEpoch + 1 ELSE minEpoch
  BY DEF SchedStart
<1>1. Settled
  BY DEF Settled, InCallback, Busy
<1>2. \A i \in Id : Same(i)
  BY <1>1, SettledSpots
<1>3. /\ conf.staleness \in Nat /\ conf.numEpochs \in Nat /\ currEpoch \in Nat
      /\ \A i \in Id : EpochIn(i) \in Nat /\ DoneOf(i) \in Nat
  BY Epochs DEF EpochsOK
<1>4. /\ c \in Chunk /\ c.localId \in Id /\ c.epoch = currEpoch + 1 /\ EpochTypes /\ Newest
      /\ conf.async \in BOOLEAN /\ async \in BOOLEAN /\ block \in BOOLEAN
  <2>1. "sch" \in Places /\ "sch" \in Queue /\ c \in Chunk /\ Types
    BY DEF Places, Queue, PlacesOK, Types
  <2>2. Here("sch", c)
    BY <2>1 DEF Here
  <2>3. c.epoch \in 1..currEpoch + 1 /\ c.localId \in Id
    BY <2>1, <2>2 DEF PlacesOK, Kept
  <2>4. conf.async \in BOOLEAN
    BY <2>1, ConfOK DEF Types
  <2> QED BY <1>0, <1>3, <2>1, <2>3, <2>4 DEF EInv, EpochTypes
<1>5. Floor' = Floor
  BY DEF Floor, At
<1>6. EpochTypes'
  BY <1>0, <1>4 DEF EpochTypes
<1>7. CASE ~async
  <2>1. InSync /\ Waiting
    BY <1>0, <1>7 DEF EInv, InSync
  <2>2. ASSUME NEW i \in Id
        PROVE  EpochIn(i) = currEpoch + 1 /\ DoneOf(i) = currEpoch
    <3>1. PICK p \in Places, d \in Chunk : Here(p, d) /\ d.localId = i
      BY SpotPick
    <3>2. EpochIn(i) = d.epoch /\ DoneOf(i) = Done(p, d)
      BY <3>1, SpotNow
    <3>3. d.epoch = currEpoch + 1
      BY <2>1, <3>1 DEF Waiting
    <3>4. Done(p, d) = d.epoch - 1
      BY <2>1 DEF Done, InSync
    <3> QED BY <1>3, <3>2, <3>3, <3>4
  <2>3. minEpoch = (IF currEpoch < 2 THEN 1 ELSE 2) /\ announced = 1 /\ peer = 1
    BY <1>4, <2>1 DEF Newest, Slowest, InSync
  <2>4. Newest'
    <3>1. minEpoch' = (IF currEpoch' < 2 THEN 1 ELSE 2)
      BY <1>0, <1>3, <2>3
    <3>2. Slowest' = 1
      BY <2>3 DEF Slowest
    <3> QED BY <3>1, <3>2 DEF Newest
  <2>5. block'
    <3>1. currEpoch = 0 \/ currEpoch >= minEpoch
      BY <1>3, <2>3
    <3> QED BY <1>0, <1>7, <3>1
  <2>6. ASSUME ~async'
        PROVE  InSync'
    <3>1. \A i \in Id : EpochIn(i)' >= currEpoch'
      BY <1>0, <1>2, <1>3, <2>2 DEF Same
    <3>2. announced' = 1 /\ peer' = 1 /\ \A s \in Slot : ~Busy(s)'
      BY <2>1 DEF InSync, Busy
    <3>3. \A r \in 0..conf'.staleness : numFinishedEpoch'[r] = 0
      BY <2>1 DEF InSync
    <3> QED BY <2>5, <3>1, <3>2, <3>3 DEF InSync
  <2>7. ASSUME async'
        PROVE  InAsync'
    <3>0. currEpoch = 1 /\ conf.async
      BY <1>0, <1>7, <2>7
    <3>1. currEpoch = 1 /\ conf.async /\ currEpoch' = 2 /\ minEpoch' = 2
      BY <1>0, <2>3, <3>0
    <3>2. \A s \in Slot : ~Busy(s)' /\ ~At(s, "announce")'
      BY <2>1 DEF InSync, Busy, At
    <3>3. Floor' = 1
      BY <2>3, <3>2 DEF Floor
    <3>4. \A i \in Id : DoneOf(i)' = 1
      BY <1>2, <2>2, <3>1 DEF Same
    <3>5. \A e \in Nat : e >= 2 => DoneBy(e)' = {}
      <4> SUFFICES ASSUME NEW e \in Nat, e >= 2 PROVE DoneBy(e)' = {}
        OBVIOUS
      <4>1. ~(1 >= e)
        OBVIOUS
      <4> QED BY <3>4, <4>1 DEF DoneBy
    <3>6. DoneBy(Floor + 1)' # Id
      BY <1>4, <3>3, <3>5
    <3>7. Announcing'
      BY <3>2 DEF Announcing
    <3>8. Window'
      <4> SUFFICES ASSUME NEW e \in 2..1 + conf.staleness + 1
                   PROVE  numFinishedEpoch'[Ring(e)] = Cardinality(DoneBy(e)')
        <5>1. \A y : Ring(y)' = Ring(y)
          BY DEF Ring
        <5> QED BY <3>3, <5>1 DEF Window
      <4>1. e \in Nat /\ e >= 2
        BY <1>3
      <4>2. DoneBy(e)' = {}
        BY <3>5, <4>1
      <4>3. numFinishedEpoch[Ring(e)] = 0
        BY <1>3, <2>1, <4>1, RingApart DEF InSync
      <4> QED BY <4>2, <4>3, FS_EmptySet
    <3>9. \A i \in Id : DoneOf(i)' >= Floor'
      BY <3>3, <3>4
    <3>10. currEpoch' >= 2 /\ currEpoch' <= minEpoch' + conf'.staleness /\ conf'.async
      BY <1>3, <3>1
    <3> QED BY <3>6, <3>7, <3>8, <3>9, <3>10 DEF InAsync
  <2>8. EInv'
    BY <1>6, <2>4, <2>6, <2>7 DEF EInv
  <2> QED BY <1>2, <2>8 DEF Advances, Fins, Same
<1>8. CASE async
  <2>1. InAsync /\ currEpoch >= 2
    BY <1>8 DEF EInv, InAsync
  <2>2. async' = async /\ minEpoch' = minEpoch
    <3>1. currEpoch # 0 /\ currEpoch # 1
      BY <1>3, <2>1
    <3> QED BY <1>0, <3>1
  <2>3. Newest'
    BY <1>0, <1>3, <1>4, <2>1, <2>2 DEF Newest, Slowest
  <2>4. Announcing'
    BY <1>5, <2>1 DEF InAsync, Announcing, Busy, At
  <2>5. currEpoch' >= 2 /\ currEpoch' <= minEpoch' + conf.staleness
    BY <1>0, <1>3, <1>4, <1>8, <2>1, <2>2
  <2>6. InAsync'
    BY <1>2, <1>5, <2>1, <2>4, <2>5, AsyncMoves
  <2>7. EInv'
    BY <1>6, <1>8, <2>2, <2>3, <2>6 DEF EInv
  <2> QED BY <1>2, <2>7 DEF Advances, Fins, Same
<1> QED BY <1>4, <1>7, <1>8

LEMMA ScheduleAdvances ==
  ASSUME PlacesOK, PlacesOK', StepOK, EInv, Schedule
  PROVE  Advances
<1>1. UNCHANGED <<conf, lam, timeoutTable, numFinishedEpoch, announced, peer>>
  BY DEF Schedule, epochs, lambdas
<1>2. PICK c \in queue["sch"] : /\ IsTop("sch", c)
                                /\ SchedHalt(c) \/ SchedBarrier(c) \/ SchedStart(c) \/ SchedPass(c)
  BY DEF Schedule
<1>3. CASE SchedHalt(c) \/ SchedPass(c)
  <2>1. Frozen
    BY <1>1, <1>3 DEF SchedHalt, SchedPass, Frozen, engine
  <2> QED BY <1>1, <2>1, StillEngine, StillAdvances
<1>4. CASE SchedBarrier(c)
  BY <1>1, <1>2, <1>4, BarrierAdvances
<1>5. CASE SchedStart(c)
  BY <1>1, <1>5, StartAdvances
<1> QED BY <1>2, <1>3, <1>4, <1>5

LEMMA NextAdvances ==
  ASSUME PlacesOK, EInv, [Next]_vars
  PROVE  PlacesOK' /\ StepOK /\ Advances
<1>0. StepOK /\ PlacesOK'
  BY NextStep, PlacesKept
<1>1. CASE UNCHANGED vars
  <2>1. Frozen /\ UNCHANGED lam
    BY <1>1 DEF vars, Frozen, engine, epochs, lambdas
  <2> QED BY <1>0, <2>1, StillEngine, StillAdvances
<1>2. CASE ReadEpochUpdates
  BY <1>0, <1>2, ReadAdvances
<1>3. CASE Schedule
  BY <1>0, <1>3, ScheduleAdvances
<1>4. CASE Gather \/ ApplyVertex \/ Scatter \/ ScatterAll \/ ApplyEdge
  BY <1>0, <1>4, StillWork, StillAdvances
<1>5. ASSUME NEW i \in Id, Relaunch(i)
      PROVE  Advances
  BY <1>0, <1>5, StillRelaunch, StillAdvances
<1>6. ASSUME NEW s \in Slot, LambdaStep(s) \/ Fail(s)
      PROVE  Advances
  <2>1. CASE Pull(s) \/ CheckExist(s) \/ PushGradient(s) \/ Fail(s) \/ (NNRecv(s) /\ ~Accept(s))
    BY <1>0, <2>1, StillSteps, StillAdvances
  <2>2. CASE NNRecv(s) /\ Accept(s)
    BY <1>0, <2>2, AcceptAdvances
  <2>3. CASE Callback(s)
    BY <1>0, <2>3, CallbackAdvances
  <2>4. CASE Announce(s)
    BY <1>0, <2>4, AnnounceAdvances
  <2>5. CASE Enqueue(s)
    BY <1>0, <2>5, EnqueueAdvances
  <2> QED BY <1>6, <2>1, <2>2, <2>3, <2>4, <2>5 DEF LambdaStep
<1> QED BY <1>0, <1>1, <1>2, <1>3, <1>4, <1>5, <1>6 DEF Next

LEMMA EpochsInit ==
  ASSUME Init
  PROVE  PlacesOK /\ EInv
<1>1. PlacesOK
  BY PlacesInit
<1>2. \A s \in Slot : lam[s].st = "none"
  BY DEF Init, Idle
<1>3. /\ conf \in Confs /\ currEpoch = 0 /\ minEpoch = 1 /\ async = FALSE /\ block = TRUE
      /\ numFinishedEpoch = [r \in 0..conf.staleness |-> 0] /\ announced = 1 /\ peer = 1
  BY DEF Init
<1>4. EpochTypes /\ Newest
  <2>1. async \in BOOLEAN /\ block \in BOOLEAN
    BY <1>3
  <2>2. numFinishedEpoch \in [0..conf.staleness -> {0} \cup 1..NumLambdas - 1]
    BY <1>3
  <2>3. announced \in {1} \cup 2..conf.numEpochs /\ peer \in {1} \cup 2..conf.numEpochs
    BY <1>3
  <2> QED BY <1>3, <2>1, <2>2, <2>3 DEF EpochTypes, Newest
<1>5. \A i \in Id : EpochIn(i) >= currEpoch
  BY <1>1, <1>3, Epochs DEF EpochsOK
<1>6. InSync
  BY <1>2, <1>3, <1>5 DEF InSync, Busy
<1> QED BY <1>1, <1>3, <1>4, <1>6 DEF EInv

-----------------------------------------------------------------------------
(* Types.                                                                  *)

Sized(c) == c.localId \in Id /\ c.layer <= conf.numLayers

LamsOK ==
  /\ \A s \in Slot : lam[s].st # "none" => Sized(lam[s].chunk)
  /\ \A c \in pushed : Sized(c)
  /\ recordTable \subseteq 0..2 * conf.numLayers - 1
  /\ fails \in 0..MaxFail

\* Where the chunks of lambdas, gradients and layers come from.
Sources ==
  /\ \A s \in Slot : lam'[s].st # "none" =>
       \/ lam[s].st # "none" /\ lam'[s].chunk = lam[s].chunk
       \/ lam'[s].chunk \in timeoutTable'
  /\ \A c \in pushed' : c \in pushed \/ \E s \in Slot : lam[s].st # "none" /\ c = lam[s].chunk
  /\ \A l \in recordTable' : l \in recordTable \/ \E c \in timeoutTable : c.vertex /\ l = AbsLayer(c)
  /\ fails' \in 0..MaxFail

LEMMA HereSized ==
  ASSUME PlacesOK, NEW p \in Places, NEW c \in Chunk, Here(p, c)
  PROVE  /\ Sized(c)
         /\ p = "table" /\ c.vertex => AbsLayer(c) \in 0..2 * conf.numLayers - 1
<1>1. c.localId \in Id /\ Route(p, c) /\ conf \in Confs
  BY DEF PlacesOK, Kept, Types
<1>2. /\ conf.numLayers \in Nat \ {0} /\ c.layer \in Nat /\ c.dir \in {"FORWARD", "BACKWARD"}
      /\ TopLayer \in Nat /\ TopLayer <= conf.numLayers
  BY <1>1, ConfOK DEF Chunk, PropType, TopLayer
<1>3. c.layer <= conf.numLayers
  BY <1>1, <1>2 DEF Route
<1>4. p = "table" /\ c.vertex => AbsLayer(c) \in 0..2 * conf.numLayers - 1
  <2> SUFFICES ASSUME p = "table", c.vertex PROVE AbsLayer(c) \in 0..2 * conf.numLayers - 1
    OBVIOUS
  <2>1. c.layer < (IF c.dir = "FORWARD" THEN conf.numLayers ELSE TopLayer)
    BY <1>1, PlacesApart DEF Route
  <2> QED BY <1>2, <2>1 DEF AbsLayer, GetAbsLayer
<1> QED BY <1>1, <1>3, <1>4 DEF Sized

TableSized == \A c \in timeoutTable : Sized(c)

LEMMA TableIsSized == PlacesOK => TableSized
<1> SUFFICES ASSUME PlacesOK, NEW c \in timeoutTable PROVE Sized(c)
  BY DEF TableSized
<1>1. "table" \in Places /\ c \in Chunk /\ Here("table", c)
  BY DEF PlacesOK, Types, Places, Here
<1> QED BY <1>1, HereSized

LEMMA SizedNext == PlacesOK' => TableSized'
BY TableIsSized, PTL

LEMMA LamsKept ==
  ASSUME PlacesOK, PlacesOK', conf' = conf, LamsOK, Sources
  PROVE  LamsOK'
<1>1. \A c : Sized(c)' <=> Sized(c)
  BY DEF Sized
<1>2. \A c \in timeoutTable' : Sized(c)
  BY <1>1, SizedNext DEF TableSized
<1>3. \A s \in Slot : lam'[s].st # "none" => Sized(lam'[s].chunk)
  BY <1>2 DEF LamsOK, Sources
<1>4. \A c \in pushed' : Sized(c)
  BY DEF LamsOK, Sources
<1>5. recordTable' \subseteq 0..2 * conf'.numLayers - 1
  <2>1. ASSUME NEW c \in timeoutTable, c.vertex
        PROVE  AbsLayer(c) \in 0..2 * conf.numLayers - 1
    <3>1. "table" \in Places /\ c \in Chunk /\ Here("table", c)
      BY DEF PlacesOK, Types, Places, Here
    <3> QED BY <2>1, <3>1, HereSized
  <2> QED BY <2>1 DEF LamsOK, Sources
<1> QED BY <1>1, <1>3, <1>4, <1>5 DEF LamsOK, Sources

\* A step that leaves the gradients and the layers alone, and changes one slot.
LEMMA OneSource ==
  ASSUME LamsOK, UNCHANGED <<pushed, recordTable, fails>>, NEW s \in Slot, NEW st, NEW c, Becomes(s, st, c),
         \/ st = "none"
         \/ lam[s].st # "none" /\ c = lam[s].chunk
         \/ c \in timeoutTable'
  PROVE  Sources
<1>1. \A t \in Slot \ {s} : lam'[t] = lam[t]
  BY DEF Becomes
<1>2. lam'[s].st = st /\ lam'[s].chunk = c
  BY DEF Becomes
<1> QED BY <1>1, <1>2 DEF Sources, LamsOK

LEMMA SameSources ==
  ASSUME LamsOK, UNCHANGED <<lam, pushed, recordTable, fails>>
  PROVE  Sources
BY DEF Sources, LamsOK

LEMMA LambdaSources ==
  ASSUME PlacesOK, LamsOK, NEW s \in Slot, LambdaStep(s) \/ Fail(s)
  PROVE  Sources
<1>0. Types
  BY DEF PlacesOK
<1>1. PICK c : c = lam[s].chunk
  OBVIOUS
<1>2. CASE Pull(s) \/ CheckExist(s)
  <2>1. UNCHANGED <<pushed, recordTable, fails>> /\ lam[s].st # "none"
    BY <1>2 DEF Pull, CheckExist, At
  <2>2. \/ \E st \in {"got", "recv", "refused"} : Becomes(s, st, c)
        \/ Becomes(s, "none", NoChunk)
    <3>1. CASE Pull(s)
      BY <1>0, <1>1, <3>1, LamBecomes DEF Pull, LambdaStates
    <3>2. CASE CheckExist(s)
      BY <1>0, <1>1, <3>2, LamBecomes, AnswerBecomes DEF CheckExist, LambdaStates
    <3> QED BY <1>2, <3>1, <3>2
  <2> QED BY <1>1, <2>1, <2>2, OneSource
<1>3. CASE NNRecv(s)
  <2>1. UNCHANGED <<pushed, fails>> /\ lam[s].st # "none"
    BY <1>3 DEF NNRecv, At
  <2>2. CASE Answer(s, "refused") /\ UNCHANGED <<timeoutTable, recordTable>>
    <3>1. Becomes(s, "none", NoChunk) \/ Becomes(s, "refused", c)
      BY <1>0, <1>1, <2>2, AnswerBecomes
    <3> QED BY <1>1, <2>1, <2>2, <3>1, OneSource
  <2>3. CASE Expected(s) /\ Accept(s)
    <3>1. Becomes(s, "callback", c) /\ c \in timeoutTable
      BY <1>0, <1>1, <2>3, LamBecomes DEF Accept, LambdaStates, Expected
    <3>2. recordTable' = IF c.vertex THEN recordTable \cup {AbsLayer(c)} ELSE recordTable
      BY <1>1, <2>3 DEF Accept
    <3>3. \A t \in Slot : lam'[t].st # "none" => lam[t].st # "none" /\ lam'[t].chunk = lam[t].chunk
      BY <1>1, <2>1, <3>1 DEF Becomes
    <3>4. \A l \in recordTable' : l \in recordTable \/ (c.vertex /\ l = AbsLayer(c))
      BY <3>2
    <3> QED BY <2>1, <3>1, <3>3, <3>4 DEF Sources, LamsOK
  <2> QED BY <1>3, <2>2, <2>3 DEF NNRecv
<1>4. CASE Callback(s) \/ Enqueue(s) \/ Announce(s)
  <2>1. UNCHANGED <<pushed, recordTable, fails>> /\ lam[s].st # "none"
    BY <1>4 DEF Callback, Enqueue, Announce, At, lambdas
  <2>2. Goto(s, "announce") \/ Goto(s, "enqueue") \/ Answer(s, "ok")
    BY <1>4 DEF Callback, Enqueue, Announce
  <2>3. \/ \E st \in {"announce", "enqueue", "ok"} : Becomes(s, st, c)
        \/ Becomes(s, "none", NoChunk)
    BY <1>0, <1>1, <2>2, LamBecomes, AnswerBecomes DEF LambdaStates
  <2> QED BY <1>1, <2>1, <2>3, OneSource
<1>5. CASE PushGradient(s)
  <2>1. /\ pushed' = pushed \cup {c} /\ UNCHANGED <<recordTable, fails>>
        /\ lam[s].st # "none" /\ Becomes(s, "none", NoChunk)
    BY <1>0, <1>1, <1>5, LamBecomes DEF PushGradient
  <2>2. \A t \in Slot : lam'[t].st # "none" => lam[t].st # "none" /\ lam'[t].chunk = lam[t].chunk
    BY <2>1 DEF Becomes
  <2> QED BY <1>1, <2>1, <2>2 DEF Sources, LamsOK
<1>6. CASE Fail(s)
  <2>1. /\ fails' = fails + 1 /\ fails < MaxFail /\ UNCHANGED <<recordTable, pushed>>
        /\ Becomes(s, "none", NoChunk)
    BY <1>0, <1>6, LamBecomes DEF Fail
  <2>2. fails' \in 0..MaxFail
    BY <2>1, ChunkPipelineOK DEF LamsOK
  <2>3. \A t \in Slot : lam'[t].st # "none" => lam[t].st # "none" /\ lam'[t].chunk = lam[t].chunk
    BY <2>1 DEF Becomes
  <2> QED BY <2>1, <2>2, <2>3 DEF Sources
<1> QED BY <1>2, <1>3, <1>4, <1>5, <1>6 DEF LambdaStep

LEMMA InvokeSource ==
  ASSUME PlacesOK, LamsOK, UNCHANGED <<pushed, recordTable, fails>>,
         NEW s \in Slot, NEW c, Invoke(s, c), c \in timeoutTable'
  PROVE  Sources
<1>1. lam \in [Slot -> [st : LambdaStates, chunk : Chunk]]
  BY DEF PlacesOK, Types
<1>2. \A t \in Slot \ {s} : lam'[t] = lam[t]
  BY <1>1 DEF Invoke
<1>3. lam'[s].chunk = c
  BY <1>1 DEF Invoke
<1> QED BY <1>2, <1>3 DEF Sources, LamsOK

LEMMA ComputeSource ==
  ASSUME PlacesOK, LamsOK, NEW c, NNCompute(c)
  PROVE  Sources
<1>1. UNCHANGED <<recordTable, pushed, fails>>
  BY DEF NNCompute
<1>2. CASE c \in timeoutTable
  BY <1>1, <1>2, SameSources DEF NNCompute
<1>3. CASE c \notin timeoutTable
  <2>1. c \in timeoutTable' /\ \E s \in Slot : Invoke(s, c)
    BY <1>3 DEF NNCompute
  <2> QED BY <1>1, <2>1, InvokeSource
<1> QED BY <1>2, <1>3

LEMMA NextSources ==
  ASSUME PlacesOK, LamsOK, [Next]_vars
  PROVE  Sources
<1>1. CASE UNCHANGED vars \/ ReadEpochUpdates \/ Schedule \/ Gather \/ Scatter \/ ScatterAll
  BY <1>1, SameSources DEF vars, ReadEpochUpdates, Schedule, Gather, Scatter, ScatterAll, lambdas
<1>2. CASE ApplyVertex
  <2>1. \E c : NNCompute(c)
    BY <1>2 DEF ApplyVertex
  <2> QED BY <2>1, ComputeSource
<1>3. CASE ApplyEdge
  <2>1. (UNCHANGED lambdas /\ UNCHANGED recordTable) \/ \E c : NNCompute(c)
    BY <1>3 DEF ApplyEdge
  <2> QED BY <2>1, ComputeSource, SameSources DEF lambdas
<1>4. ASSUME NEW i \in Id, Relaunch(i)
      PROVE  Sources
  <2>1. PICK c \in timeoutTable : RelaunchLambda(c) \/ RelaunchOther(c)
    BY <1>4 DEF Relaunch
  <2>2. /\ UNCHANGED <<timeoutTable, recordTable, pushed, fails>>
        /\ \E s \in Slot : Invoke(s, c)
    BY <2>1 DEF RelaunchLambda, RelaunchOther
  <2> QED BY <2>2, InvokeSource
<1>5. ASSUME NEW s \in Slot, LambdaStep(s) \/ Fail(s)
      PROVE  Sources
  BY <1>5, LambdaSources
<1> QED BY <1>1, <1>2, <1>3, <1>4, <1>5 DEF Next

LEMMA TypesHold ==
  ASSUME PlacesOK, EInv, LamsOK
  PROVE  TypeOK
<1>1. Types /\ EpochTypes /\ conf \in Confs
  BY DEF PlacesOK, Types, EInv
<1>2. ASSUME NEW q \in Queue, NEW c \in queue[q]
      PROVE  c \in Chunk /\ Sized(c)
  <2>1. q \in Places /\ c \in Chunk /\ Here(q, c)
    BY <1>1 DEF Types, Places, Here
  <2> QED BY <2>1, HereSized
<1>3. ASSUME NEW c \in timeoutTable
      PROVE  c \in Chunk /\ Sized(c)
  BY <1>1, TableIsSized DEF Types, TableSized
<1>4. ASSUME NEW c \in pushed
      PROVE  c \in Chunk /\ Sized(c)
  BY <1>1 DEF Types, LamsOK
<1>5. \A c \in (UNION {queue[q] : q \in Queue}) \cup timeoutTable \cup pushed :
         c \in Chunk /\ c.localId \in Id /\ c.layer <= conf.numLayers
  BY <1>2, <1>3, <1>4 DEF Sized
<1>6. minEpoch \in 1..conf.numEpochs + 1
  <2>1. conf.numEpochs \in Nat /\ currEpoch \in 0..conf.numEpochs
    BY Epochs DEF EpochsOK
  <2>2. minEpoch = (IF currEpoch < 2 THEN 1 ELSE Slowest + 1) /\ Slowest \in {announced, peer}
    BY DEF EInv, Newest, Slowest
  <2>3. announced \in {1} \cup 2..conf.numEpochs /\ peer \in {1} \cup 2..conf.numEpochs
    BY <1>1 DEF EpochTypes
  <2> QED BY <2>1, <2>2, <2>3
<1> QED BY <1>1, <1>5, <1>6 DEF TypeOK, Types, EpochTypes, LamsOK

LEMMA LamsInit ==
  ASSUME Init
  PROVE  LamsOK
BY ChunkPipelineOK DEF Init, LamsOK, Idle

Inv == PlacesOK /\ EInv /\ LamsOK

LEMMA InvHolds == Spec => []Inv
<1>1. Init => Inv
  BY EpochsInit, LamsInit DEF Inv
<1>2. Inv /\ [Next]_vars => Inv'
  <2> SUFFICES ASSUME Inv, [Next]_vars PROVE Inv'
    OBVIOUS
  <2>1. PlacesOK' /\ StepOK /\ EInv'
    BY NextAdvances DEF Inv, Advances
  <2>2. LamsOK'
    BY <2>1, NextSources, LamsKept DEF Inv, StepOK
  <2> QED BY <2>1, <2>2 DEF Inv
<1> QED BY <1>1, <1>2, PTL DEF Spec

\* For any number of chunks, layers, epochs and lambdas, every variable of the
\* pipeline keeps its type: chunks stay within the layers of the network, minEpoch and
\* the announced epochs within those of the run, the counters of the ring below the
\* number of chunks (pipeline.cpp:34, lambda_comm.cpp:101).
THEOREM TypeCorrect == Spec => []TypeOK
<1>1. Inv => TypeOK
  BY TypesHold DEF Inv
<1> QED BY <1>1, InvHolds, PTL

-----------------------------------------------------------------------------
(* The refinement.                                                         *)

FinishedOK == Finished = [i \in Id |-> FinOf(i)]

LEMMA FinishedIs == PlacesOK => FinishedOK
<1> SUFFICES ASSUME PlacesOK PROVE FinishedOK
  OBVIOUS
<1> DEFINE phases(h) == IF h[1] \in Slot THEN Number(h[2]) + 1 ELSE Number(Awaited(h[1], h[2]))
           At1(i) == {x \in Held : x[2].localId = i}
<1>1. Held = {h \in Places \X Chunk : Here(h[1], h[2])}
  BY HeldIsHere DEF PlacesOK
<1>2. ASSUME NEW i \in Id
      PROVE  (CHOOSE n \in {phases(h) : h \in At1(i)} : TRUE) = FinOf(i)
  <2>1. At1(i) = {Spot(i)}
    <3>1. Spot(i) \in At1(i)
      BY <1>1, SpotOf DEF Spots
    <3>2. ASSUME NEW h \in At1(i)
          PROVE  h = Spot(i)
      <4>1. PICK p \in Places, c \in Chunk : h = <<p, c>>
        BY <1>1
      <4>2. Here(p, c) /\ c.localId = i
        BY <1>1, <4>1
      <4> QED BY <4>1, <4>2, SpotNow
    <3> QED BY <3>1, <3>2
  <2>2. {phases(h) : h \in At1(i)} = {phases(Spot(i))}
    BY <2>1
  <2>3. phases(Spot(i)) = FinOf(i)
    BY DEF FinOf, FinAt, PhaseAt
  <2> QED BY <2>2, <2>3
<1> QED BY <1>2 DEF FinishedOK, Finished

LEMMA FinishedNext == PlacesOK' => FinishedOK'
BY FinishedIs, PTL

LEMMA OrderEpoch ==
  ASSUME PlacesOK, NEW i \in Id
  PROVE  Order!EpochOf(i) = FinEpoch(i)
BY FinishedIs DEF Order!EpochOf, FinishedOK, FinEpoch, Phases

LEMMA OrderInit ==
  ASSUME Init
  PROVE  Order!Init
<1>1. PlacesOK /\ conf \in Confs /\ announced = 1
  BY PlacesInit DEF Init
<1>2. NumPhases(conf.gnn, conf.numLayers) \in Nat \ {0} /\ conf.staleness \in Nat
  BY <1>1, ConfOK DEF NumPhases
<1>3. ASSUME NEW i \in Id
      PROVE  FinOf(i) = 0
  <2> DEFINE c == [localId |-> i, layer |-> 0, dir |-> "FORWARD", epoch |-> 1, vertex |-> TRUE]
  <2>1. c \in queue["sch"]
    BY DEF Init, Queue
  <2>2. "sch" \in Places /\ c \in Chunk /\ Here("sch", c) /\ c.localId = i
    BY <1>1, <2>1 DEF PlacesOK, Types, Places, Queue, Here
  <2>3. FinOf(i) = FinAt("sch", c)
    BY <1>1, <2>2, SpotNow
  <2>4. FinAt("sch", c) = Number(c)
    BY PlacesApart DEF FinAt, PhaseAt, Awaited
  <2>5. PhaseIndex(conf.gnn, conf.numLayers, c) = 0
    BY <1>1, ConfOK DEF PhaseIndex
  <2>6. (c.epoch - 1) * NumPhases(conf.gnn, conf.numLayers) = 0
    BY <1>2
  <2> QED BY <2>3, <2>4, <2>5, <2>6 DEF Number, PhaseNumber
<1>4. Finished = [i \in Id |-> 0]
  BY <1>1, <1>3, FinishedIs DEF FinishedOK
<1> QED BY <1>1, <1>2, <1>4 DEF Order!Init

LEMMA OrderStep ==
  ASSUME PlacesOK, PlacesOK', conf' = conf, Advances
  PROVE  \/ Order!Next
         \/ Finished' = Finished /\ announced' = announced
<1>1. Finished = [i \in Id |-> FinOf(i)] /\ Finished' = [i \in Id |-> FinOf(i)']
  BY FinishedIs, FinishedNext DEF FinishedOK
<1>2. \A i \in Id : Order!EpochOf(i) = FinEpoch(i)
  BY OrderEpoch
<1>3. CASE (Fins /\ announced' = announced) \/ Announces
  <2>1. Finished' = Finished
    BY <1>1, <1>3 DEF Fins, Announces
  <2>2. CASE announced' = announced
    BY <2>1, <2>2
  <2>3. CASE Announces
    <3>1. announced' = announced + 1 /\ \A i \in Id : FinEpoch(i) > announced'
      BY <2>3 DEF Announces
    <3>2. Order!Announce
      BY <1>2, <2>1, <3>1 DEF Order!Announce
    <3> QED BY <3>2 DEF Order!Next
  <2> QED BY <1>3, <2>2, <2>3
<1>4. ASSUME NEW i \in Id, Finishes(i)
      PROVE  Order!Finish(i)
  <2>1. /\ FinOf(i)' = FinOf(i) + 1 /\ announced' = announced
        /\ \A j \in Id \ {i} : FinOf(j)' = FinOf(j)
    BY <1>4 DEF Finishes
  <2>2. Finished' = [Finished EXCEPT ![i] = @ + 1]
    <3>1. \A j \in Id : Finished'[j] = IF j = i THEN Finished[i] + 1 ELSE Finished[j]
      BY <1>1, <2>1
    <3> QED BY <1>1, <3>1
  <2>3. \A j \in Id : /\ Order!EpochOf(i) <= Order!EpochOf(j) + (IF conf.async THEN conf.staleness ELSE 0)
                      /\ Order!EpochOf(i) > 1 => Order!EpochOf(j) > 1
    BY <1>2, <1>4 DEF Finishes, InBound
  <2> QED BY <2>1, <2>2, <2>3 DEF Order!Finish
<1> QED BY <1>3, <1>4 DEF Advances, Order!Next

\* For any number of chunks, layers, epochs and lambdas, relaunched or dead, the
\* pipeline implements the abstract order of PhaseOrder: a chunk finishes the phases of
\* its epochs one by one, none twice and none left out, at most staleness epochs ahead
\* of the others, and an epoch is announced once, in order, when all chunks have
\* finished it (ops/pipeline.cpp:34, lambda_comm.cpp:61 and 101).
THEOREM Refinement == Spec => OrderSpec
<1>1. Init => Order!Init
  BY OrderInit
<1>2. Inv /\ [Next]_vars => [Order!Next]_<<[phases |-> NumPhases(conf.gnn, conf.numLayers),
                                          staleness |-> IF conf.async THEN conf.staleness ELSE 0],
                                         Finished, announced>>
  <2> SUFFICES ASSUME Inv, [Next]_vars
               PROVE  [Order!Next]_<<[phases |-> NumPhases(conf.gnn, conf.numLayers),
                                      staleness |-> IF conf.async THEN conf.staleness ELSE 0],
                                     Finished, announced>>
    OBVIOUS
  <2>1. PlacesOK /\ PlacesOK' /\ conf' = conf /\ Advances
    BY NextAdvances DEF Inv, StepOK
  <2>2. \/ Order!Next
        \/ Finished' = Finished /\ announced' = announced
    BY <2>1, OrderStep
  <2> QED BY <2>1, <2>2
<1> QED BY <1>1, <1>2, InvHolds, PTL DEF Spec, OrderSpec, Order!Spec
=============================================================================
