------------------------------ MODULE ChunkOrder ------------------------------
(***************************************************************************)
(* Chunks and their way through a training epoch: the order of the queues  *)
(* (Chunk::operator<), the layer arithmetic of the engine, and which lambda*)
(* phase is which in the program order of the two kinds of network.        *)
(*                                                                         *)
(* A chunk is identified by its local id; globalId, lowBound and upBound   *)
(* are functions of it.                                                    *)
(***************************************************************************)
EXTENDS Naturals

PropType == {"FORWARD", "BACKWARD"}
Gnn == {"GCN", "GAT"}

Chunk == [localId : Nat, layer : Nat, dir : PropType, epoch : Nat, vertex : BOOLEAN]

\* Chunk::operator<: the greatest chunk of a queue is its top.
Less(c, d) ==
  \/ c.epoch > d.epoch
  \/ /\ c.epoch = d.epoch
     /\ \/ c.dir = "BACKWARD" /\ d.dir = "FORWARD"
        \/ /\ c.dir = d.dir
           /\ \/ c.dir = "FORWARD" /\ c.layer > d.layer
              \/ c.dir = "BACKWARD" /\ c.layer < d.layer
              \/ /\ c.layer = d.layer
                 /\ \/ c.dir = "FORWARD" /\ ~c.vertex /\ d.vertex
                    \/ c.dir = "BACKWARD" /\ c.vertex /\ ~d.vertex
                    \/ c.vertex = d.vertex /\ c.localId > d.localId

GetAbsLayer(numLayers, c) ==
  IF c.dir = "FORWARD" THEN c.layer ELSE 2 * numLayers - 1 - c.layer

IsLastLayer(c) == c.dir = "BACKWARD" /\ c.layer = 0 /\ c.vertex

NextEpoch(c) == [c EXCEPT !.dir = "FORWARD", !.epoch = @ + 1]

\* Mutant: the layer is not taken back when the direction is switched.
IncLayerKept(numLayers, c) ==
  CASE c.dir = "FORWARD" /\ c.layer + 1 = numLayers
                         -> [c EXCEPT !.dir = "BACKWARD", !.layer = @ + 1]
    [] c.dir = "FORWARD" /\ c.layer + 1 # numLayers -> [c EXCEPT !.layer = @ + 1]
    [] c.dir = "BACKWARD" /\ c.layer = 0 -> NextEpoch(c)
    [] OTHER -> [c EXCEPT !.layer = @ - 1]

\* The last forward layer and the first backward one are one lambda phase.
IncLayerGCN(numLayers, c) ==
  CASE c.dir = "FORWARD" /\ c.layer + 1 = numLayers -> [c EXCEPT !.dir = "BACKWARD"]
    [] c.dir = "FORWARD" /\ c.layer + 1 # numLayers -> [c EXCEPT !.layer = @ + 1]
    [] c.dir = "BACKWARD" /\ c.layer = 0 -> NextEpoch(c)
    [] OTHER -> [c EXCEPT !.layer = @ - 1]

IncLayerGAT(numLayers, c) ==
  CASE c.dir = "FORWARD" -> [c EXCEPT !.layer = @ + 1]
    [] c.dir = "BACKWARD" /\ c.layer = 0 -> [NextEpoch(c) EXCEPT !.vertex = TRUE]
    [] OTHER -> [c EXCEPT !.layer = @ - 1]

IncLayer(gnn, numLayers, c) ==
  IF gnn = "GCN" THEN IncLayerGCN(numLayers, c) ELSE IncLayerGAT(numLayers, c)

-----------------------------------------------------------------------------
(* The program order of lambda phases, used by the properties.             *)
(* GCN: forward layers 0..L-1, the last with its gradient, backward layers *)
(* L-2..0.  GAT: vertices of layer 0, edges of 1, vertices of 1, ...,      *)
(* edges of L, and back: edges of L, vertices of L-1, ..., vertices of 0.  *)

NumPhases(gnn, numLayers) == IF gnn = "GCN" THEN 2 * numLayers - 1 ELSE 4 * numLayers

PhaseIndex(gnn, numLayers, c) ==
  CASE gnn = "GCN" /\ c.dir = "FORWARD" -> c.layer
    [] gnn = "GCN" /\ c.dir = "BACKWARD" -> 2 * numLayers - 2 - c.layer
    [] gnn = "GAT" /\ c.dir = "FORWARD" /\ c.vertex -> 2 * c.layer
    [] gnn = "GAT" /\ c.dir = "FORWARD" /\ ~c.vertex -> 2 * c.layer - 1
    [] gnn = "GAT" /\ c.dir = "BACKWARD" /\ ~c.vertex -> 4 * numLayers - 2 * c.layer
    [] OTHER -> 4 * numLayers - 1 - 2 * c.layer

\* The lambda phases of all epochs in one count.
PhaseNumber(gnn, numLayers, c) ==
  (c.epoch - 1) * NumPhases(gnn, numLayers) + PhaseIndex(gnn, numLayers, c)

=============================================================================
