---------------------------- MODULE MCWeightTensor ----------------------------
(* Instances of WeightTensor for TLC.  A chunk is the pair <<id, epoch>>;  *)
(* the same chunk of the previous epoch must be done before it starts.  A  *)
(* peer's update is the pair <<peer, round>>.                              *)
EXTENDS WeightTensor

CONSTANTS Ids, Epochs, Peers, Rounds

MCChunks == Ids \X (1 .. Epochs)
MCBefore == [c \in MCChunks |-> {d \in MCChunks : d[1] = c[1] /\ d[2] < c[2]}]
MCGhosts == Peers \X (1 .. Rounds)
MCRound == [g \in MCGhosts |-> g[2]]

\* GCN and GAT, asynchronous and sync.
MCAllModes == [sync : BOOLEAN, fake : BOOLEAN]
MCGCNModes == [sync : BOOLEAN, fake : {FALSE}]
MCAsync == {[sync |-> FALSE, fake |-> FALSE]}

=============================================================================
