------------------------------ MODULE MCCluster ------------------------------
(* An instance of Cluster for TLC. *)
EXTENDS Cluster

\* The agreement on the newest epoch and the barrier that follows it
\* (pipeline.cpp:58 and 73).
MCScript == <<"sync", "barrier">>

=============================================================================
