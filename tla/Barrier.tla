-------------------------------- MODULE Barrier --------------------------------
(***************************************************************************)
(* What a global barrier promises (nodemanager.cpp, "Public API for a node *)
(* to hit a global barrier"): nobody leaves its k-th barrier before        *)
(* everybody has entered theirs.  How the nodes find out is left open.     *)
(***************************************************************************)
EXTENDS Naturals

CONSTANT Node

VARIABLES entered,   \* node -> barriers it has entered
          left       \* node -> barriers it has left

Init ==
  /\ entered = [n \in Node |-> 0]
  /\ left = [n \in Node |-> 0]

Enter(n) ==
  /\ left[n] = entered[n]
  /\ entered' = [entered EXCEPT ![n] = @ + 1]
  /\ UNCHANGED left

Leave(n) ==
  /\ left[n] # entered[n]
  /\ \A m \in Node : entered[m] >= entered[n]
  /\ left' = [left EXCEPT ![n] = @ + 1]
  /\ UNCHANGED entered

Next == \E n \in Node : Enter(n) \/ Leave(n)

Spec == Init /\ [][Next]_<<entered, left>>

=============================================================================
