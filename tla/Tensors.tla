-------------------------------- MODULE Tensors --------------------------------
(***************************************************************************)
(* Which saved tensors each phase of a training epoch reads and writes     *)
(* (preallocateGCN and preallocateGAT, aggregateGCN and aggregateGAT,      *)
(* predictGAT, scatterGCN and scatterGAT, and the neural networks of the   *)
(* three builds: CPU_comm.cpp, comp_server.cu, funcs/gcn and funcs/gat).   *)
(*                                                                         *)
(* A tensor is <<name, layer>>, an entry of savedNNTensors[layer].  What is*)
(* never written after it has been loaded ("x", "lab", "fg" of layer 0,    *)
(* "h" of layer 0 in GAT, the normalisation factors) is left out, and so   *)
(* are the weights, which come from the weight servers.                    *)
(***************************************************************************)
EXTENDS ChunkOrder, Integers

Build == {"CPU", "GPU", "Lambda"}

\* What a phase reads and writes: own, the rows of the chunk's vertices (edge
\* tensors: of their in-edges); inn and out, the rows of their in- and
\* out-neighbours, in a tensor or, if they are ghosts, in its ghost tensor.
Phase(own, inn, out, writes) == [own |-> own, inn |-> inn, out |-> out, writes |-> writes]

Saved(name, l) == IF l < 0 THEN {} ELSE {<<name, l>>}

\* A vertex tensor with the ghost tensor that goes with it.
With(name, l, ghost, gl) == {[own |-> <<name, l>>, ghost |-> <<ghost, gl>>]}

IsGhost(t) == t[1] \in {"fg", "bg", "fg_z", "bg_d"}
GhostDir(t) == IF t[1] \in {"fg", "fg_z"} THEN "FORWARD" ELSE "BACKWARD"

\* preallocateGCN.
TensorsGCN(numLayers) ==
  (UNION {Saved("ah", l) : l \in 0..numLayers - 1})
    \cup (UNION {Saved("z", l) \cup Saved("h", l) \cup Saved("fg", l + 1) : l \in 0..numLayers - 2})
    \cup (UNION {Saved("grad", l) \cup Saved("bg", l - 1) \cup Saved("aTg", l - 1) : l \in 1..numLayers - 1})

\* preallocateGAT; all "A" are the values of forwardAdj, one array.
TensorsGAT(numLayers) ==
  Saved("A", 0) \cup (UNION {Saved("h", l) : l \in 1..numLayers - 1})
    \cup ({"z", "az", "fg_z", "ah", "grad", "dA", "aTg", "bg_d"} \X (0..numLayers - 1))

Tensors(gnn, numLayers) ==
  IF gnn = "GCN" THEN TensorsGCN(numLayers) ELSE TensorsGAT(numLayers)

-----------------------------------------------------------------------------
(* Gather.                                                                 *)

GatherGCN(c) ==
  CASE c.dir = "FORWARD" /\ c.layer = 0 -> Phase({}, {}, {}, Saved("ah", 0))
    [] c.dir = "FORWARD" /\ c.layer # 0 ->
         Phase(Saved("h", c.layer - 1), With("h", c.layer - 1, "fg", c.layer), {}, Saved("ah", c.layer))
    [] OTHER ->
         Phase(Saved("grad", c.layer), {}, With("grad", c.layer, "bg", c.layer - 1),
               Saved("aTg", c.layer - 1))

\* Backward the sum over the out-edges uses the values of backwardAdj, not "A".
GatherGAT(c) ==
  LET l == c.layer - 1 IN
  IF c.dir = "FORWARD"
  THEN Phase(Saved("z", l) \cup Saved("A", 0), With("z", l, "fg_z", l), {}, Saved("ah", l))
  ELSE Phase(Saved("dA", l), With("z", l, "fg_z", l), With("grad", l, "bg_d", l), Saved("aTg", l))

\* predictGAT takes "az", not "ah", for the output of the last layer.
PredictGAT(c) == Phase(Saved("az", c.layer - 1), {}, {}, Saved("grad", c.layer - 1))

\* gatherWorkFunc: aggregate, and predict after the last forward layer of GAT.
IsTurn(gnn, numLayers, c) == gnn = "GAT" /\ c.dir = "FORWARD" /\ c.layer = numLayers

Gathering(gnn, numLayers, c) ==
  CASE gnn = "GCN" -> GatherGCN(c)
    [] gnn = "GAT" /\ ~IsTurn(gnn, numLayers, c) -> GatherGAT(c)
    [] OTHER -> Phase(GatherGAT(c).own \cup PredictGAT(c).own, GatherGAT(c).inn,
                      GatherGAT(c).out, GatherGAT(c).writes \cup PredictGAT(c).writes)

-----------------------------------------------------------------------------
(* ApplyVertex and ApplyEdge: NNCompute of each build.  c is the chunk it  *)
(* gets, backward with the layer already decremented for vertices.         *)

NoPhase == Phase({}, {}, {}, {})

\* CPUComm.  The last forward layer of GCN computes the loss and its gradient.
VtxNNForwardCPU(gnn, numLayers, l) ==
  CASE gnn = "GCN" /\ l # numLayers - 1 ->
         Phase(Saved("ah", l), {}, {}, Saved("z", l) \cup Saved("h", l))
    [] gnn = "GCN" /\ l = numLayers - 1 -> Phase(Saved("ah", l), {}, {}, Saved("grad", l))
    [] OTHER -> Phase(Saved("ah", l - 1), {}, {}, Saved("z", l))

VtxNNBackwardCPU(gnn, l) ==
  IF gnn = "GCN"
  THEN Phase(Saved("aTg", l) \cup Saved("z", l) \cup Saved("ah", l), {}, {},
             IF l # 0 THEN Saved("grad", l) ELSE {})
  ELSE Phase(Saved("ah", l - 1) \cup Saved("aTg", l), {}, {}, Saved("grad", l - 1))

EdgNNCPU(dir, l) ==
  IF dir = "FORWARD"
  THEN Phase(Saved("z", l), {}, {}, Saved("az", l) \cup Saved("A", 0))
  ELSE Phase(Saved("grad", l) \cup Saved("az", l) \cup Saved("z", l), {}, {}, Saved("dA", l))

NNComputeCPU(gnn, numLayers, c) ==
  CASE c.vertex /\ c.dir = "FORWARD" -> VtxNNForwardCPU(gnn, numLayers, c.layer)
    [] c.vertex /\ c.dir = "BACKWARD" -> VtxNNBackwardCPU(gnn, c.layer)
    [] ~c.vertex /\ gnn = "GAT" -> EdgNNCPU(c.dir, c.layer - 1)
    [] OTHER -> NoPhase

\* ComputingServer, of the GPU build.
VtxNNForwardGPU(gnn, numLayers, l) ==
  CASE gnn = "GCN" /\ l # numLayers - 1 ->
         Phase(Saved("ah", l), {}, {}, Saved("z", l) \cup Saved("h", l))
    [] gnn = "GCN" /\ l = numLayers - 1 -> Phase(Saved("ah", l), {}, {}, Saved("grad", l))
    [] OTHER -> Phase(Saved("ah", l - 1), {}, {}, Saved("z", l))

VtxNNBackwardGPU(gnn, l) ==
  IF gnn = "GCN"
  THEN Phase({<<name, l>> : name \in {"aTg", "z", "h", "ah"}}, {}, {},
             IF l # 0 THEN Saved("grad", l) ELSE {})
  ELSE Phase(Saved("ah", l - 1) \cup Saved("aTg", l), {}, {}, Saved("grad", l - 1))

\* "dA" of layer 0 is left as it is.
EdgNNGPU(dir, l) ==
  IF dir = "FORWARD"
  THEN Phase(Saved("z", l), {}, {}, Saved("az", l) \cup Saved("A", 0))
  ELSE Phase(Saved("grad", l) \cup Saved("az", l) \cup Saved("z", l), {}, {},
             IF l # 0 THEN Saved("dA", l) ELSE {})

NNComputeGPU(gnn, numLayers, c) ==
  CASE c.vertex /\ c.dir = "FORWARD" -> VtxNNForwardGPU(gnn, numLayers, c.layer)
    [] c.vertex /\ c.dir = "BACKWARD" -> VtxNNBackwardGPU(gnn, c.layer)
    [] ~c.vertex /\ gnn = "GAT" -> EdgNNGPU(c.dir, c.layer - 1)
    [] OTHER -> NoPhase

\* The tensors a lambda asks for by name; those it sends back go to the same
\* layer, except the gradient of a GAT vertex phase.
Asked(c, names) == {<<name, IF c.vertex THEN c.layer ELSE c.layer - 1>> : name \in names}
Returned(gnn, c, name) ==
  IF gnn = "GAT" /\ c.vertex /\ name = "grad" THEN Saved(name, c.layer - 1) ELSE Asked(c, {name})

ForwardLayerGCN(c) == Phase(Asked(c, {"ah"}), {}, {}, Asked(c, {"z", "h"}))
FinalLayerGCN(c) == Phase(Asked(c, {"ah"}), {}, {}, Asked(c, {"grad"}))
BackwardLayerGCN(c) ==
  Phase(Asked(c, {"ah", "z", "aTg"}), {}, {}, IF c.layer > 0 THEN Asked(c, {"grad"}) ELSE {})

\* "h", the input, is asked for in all layers.
InputGAT(c) == IF c.layer = 0 THEN {} ELSE Asked(c, {"h"})
ApplyVertexGAT(c) == Phase(InputGAT(c), {}, {}, Returned("GAT", c, "z"))
ApplyVertexBackwardGAT(c) ==
  Phase(InputGAT(c) \cup Asked(c, {"aTg"}), {}, {},
        IF c.layer # 0 THEN Returned("GAT", c, "grad") ELSE {})
ApplyEdgeGAT(c) == Phase(Asked(c, {"z"}), {}, {}, Asked(c, {"az"}) \cup Saved("A", 0))
ApplyEdgeBackwardGAT(c) == Phase(Asked(c, {"z", "grad", "az"}), {}, {}, Asked(c, {"dA"}))

NNComputeLambda(gnn, numLayers, c) ==
  CASE gnn = "GCN" /\ c.dir = "FORWARD" /\ c.layer # numLayers - 1 -> ForwardLayerGCN(c)
    [] gnn = "GCN" /\ c.dir = "FORWARD" /\ c.layer = numLayers - 1 -> FinalLayerGCN(c)
    [] gnn = "GCN" /\ c.dir = "BACKWARD" -> BackwardLayerGCN(c)
    [] gnn = "GAT" /\ c.vertex /\ c.dir = "FORWARD" -> ApplyVertexGAT(c)
    [] gnn = "GAT" /\ c.vertex /\ c.dir = "BACKWARD" -> ApplyVertexBackwardGAT(c)
    [] gnn = "GAT" /\ ~c.vertex /\ c.dir = "FORWARD" -> ApplyEdgeGAT(c)
    [] OTHER -> ApplyEdgeBackwardGAT(c)

\* applyEdgeGCN computes nothing.
NNCompute(build, gnn, numLayers, c) ==
  CASE gnn = "GCN" /\ ~c.vertex -> NoPhase
    [] build = "CPU" -> NNComputeCPU(gnn, numLayers, c)
    [] build = "GPU" -> NNComputeGPU(gnn, numLayers, c)
    [] OTHER -> NNComputeLambda(gnn, numLayers, c)

-----------------------------------------------------------------------------
(* Scatter: what is sent, and where verticesPushOut tells the receiver to  *)
(* store it.                                                               *)

SentGCN(c) ==
  IF c.dir = "FORWARD" THEN <<"h", c.layer - 1>> ELSE <<"grad", c.layer>>
SentGAT(c) ==
  IF c.dir = "FORWARD" THEN <<"z", c.layer - 1>> ELSE <<"grad", c.layer - 1>>

StoredGCN(c) ==
  IF c.dir = "FORWARD" THEN <<"fg", c.layer>> ELSE <<"bg", c.layer - 1>>
StoredGAT(c) ==
  IF c.dir = "FORWARD" THEN <<"fg_z", c.layer - 1>> ELSE <<"bg_d", c.layer - 1>>

Sent(gnn, c) == IF gnn = "GCN" THEN SentGCN(c) ELSE SentGAT(c)
Stored(gnn, c) == IF gnn = "GCN" THEN StoredGCN(c) ELSE StoredGAT(c)

-----------------------------------------------------------------------------
(* Inputs that are never those of their epoch.  GAT's backward gather adds *)
(* to what "aTg" held before, except on a GPU; "h" of a later layer and,   *)
(* on a GPU, "dA" of layer 0 keep the zeros they were allocated with.      *)

Accumulated(build, gnn, t) == gnn = "GAT" /\ build # "GPU" /\ t[1] = "aTg"

NeverWritten(build, gnn, t) ==
  /\ gnn = "GAT"
  /\ \/ t[1] = "h"
     \/ build = "GPU" /\ t = <<"dA", 0>>

=============================================================================
