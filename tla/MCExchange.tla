------------------------------ MODULE MCExchange ------------------------------
(* Instances of Exchange for TLC. *)
EXTENDS Exchange

Graph(p, es, u) == [part |-> p, edges |-> es, undirected |-> u]
Conf(b, gnn, l, k, e, g) ==
  [build |-> b, gnn |-> gnn, numLayers |-> l, numLambdas |-> k,
   numEpochs |-> e, graph |-> g, terms |-> [n \in Servers(g) |-> <<>>]]
Told(c, f) == [c EXCEPT !.terms = f]

Halves == [v \in 0..3 |-> IF v < 2 THEN 0 ELSE 1]
Alternating == [v \in 0..3 |-> v % 2]

\* Two ghosts one way, one the other way, a self-loop and edges inside a server.
Two == Graph(Halves, {<<0, 2>>, <<1, 2>>, <<3, 0>>, <<0, 1>>, <<3, 3>>}, FALSE)
\* Server 1 sends nothing forward and server 0 nothing backward.
OneWay == Graph(Alternating, {<<0, 1>>, <<2, 1>>, <<0, 3>>}, FALSE)
\* The same with one edge between the servers, for two chunks.
Single == Graph(Alternating, {<<2, 1>>, <<0, 2>>}, FALSE)
Undirected == Graph(Alternating, {<<0, 1>>, <<0, 2>>}, TRUE)
\* Three servers, one of which exchanges nothing with the others.
Three == Graph([v \in 0..2 |-> v], {<<0, 1>>}, FALSE)

\* One edge between two servers, for one chunk of one vertex.
Pair == Graph([v \in 0..1 |-> v], {<<0, 1>>}, FALSE)

Converged(f) == Told(Conf("Lambda", "GCN", 2, 1, 2, Pair), f)

\* All builds, both kinds of network, one and two chunks, two epochs, and servers
\* that are told DONE and CLOSE in different orders (so that DONE may be overwritten).
MCConfs ==
  {Conf("CPU", "GCN", 2, 1, 2, OneWay), Conf("CPU", "GCN", 2, 1, 1, Undirected),
   Conf("CPU", "GCN", 2, 1, 1, Three), Conf("CPU", "GAT", 2, 1, 1, OneWay),
   Conf("GPU", "GAT", 1, 1, 1, OneWay), Conf("GPU", "GCN", 2, 1, 1, Two),
   Conf("Lambda", "GCN", 2, 2, 1, Single), Conf("Lambda", "GAT", 1, 1, 1, Two),
   Converged([n \in 0..1 |-> IF n = 0 THEN <<"DONE", "CLOSE">> ELSE <<"CLOSE", "DONE">>])}

=============================================================================
