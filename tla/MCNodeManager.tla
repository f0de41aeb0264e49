---------------------------- MODULE MCNodeManager ----------------------------
(* Instances of NodeManager for TLC. *)
EXTENDS NodeManager, TLC

\* The barriers one after the other at the end of a run (engine.cpp:289,
\* utils.cpp:220 and 280), and the agreement on the newest epoch alone.
MCBarriers == <<"barrier", "barrier">>
MCProgram == <<"sync", "barrier", "barrier">>
MCSync == <<"sync">>

MCSymmetry == Permutations(Node)

=============================================================================
