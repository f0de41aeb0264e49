--------------------------- MODULE MCChunkPipeline ---------------------------
(* Instances of ChunkPipeline for TLC. *)
EXTENDS ChunkPipeline, TLC

Slots == Permutations(Slot)

Conf(g, l, k, e, a) ==
  [gnn |-> g, numLayers |-> l, staleness |-> k, numEpochs |-> e, async |-> a]

\* Both kinds of network, both pipelines, and staleness bounds with one and with
\* two epochs under way; three epochs use an entry of the ring again.
MCConfs ==
  {Conf("GCN", 2, 0, 3, TRUE), Conf("GCN", 2, 1, 3, TRUE),
   Conf("GCN", 2, 1, 2, FALSE), Conf("GAT", 1, 0, 3, TRUE)}

\* Short trainings, for liveness with a lambda that dies.
MCShort == {Conf("GCN", 2, 0, 2, TRUE), Conf("GAT", 1, 0, 1, FALSE)}

MCGat == {Conf("GAT", 1, 0, 1, FALSE)}
=============================================================================
