---------------------------- MODULE MCWeightServers ----------------------------
(* Instances of WeightServers for TLC. *)
EXTENDS WeightServers, TLC

Conf(s, c, e, b, acc, traffic, late) ==
  [servers |-> s, clients |-> c, epochs |-> e, block |-> b, acc |-> acc,
   traffic |-> traffic, late |-> late]

CLOSE == 0 :> 1 @@ 1 :> 1
Rises == 0 :> 1 @@ 1 :> 2
\* The accuracy reaches the target and falls again.
Falls == 0 :> 2 @@ 1 :> 0

\* Two servers to the end, two clients of one server, loss reports of one, two and
\* three servers, and totals that are set late.
MCConfs ==
  {Conf(2, 2, 1, TRUE, 0 :> 1, {"PUSH", "TERM"}, FALSE),
   Conf(1, 2, 2, TRUE, CLOSE, {"PUSH"}, FALSE),
   Conf(1, 2, 2, FALSE, Falls, {"EVAL"}, FALSE),
   Conf(2, 2, 2, FALSE, Rises, {"EVAL"}, FALSE),
   Conf(3, 3, 1, FALSE, 0 :> 1, {"EVAL"}, FALSE),
   Conf(1, 1, 1, TRUE, 0 :> 1, {"PUSH", "EVAL", "TERM"}, TRUE)}
=============================================================================
