------------------------------ MODULE PhaseOrder ------------------------------
(***************************************************************************)
(* What a graph server's pipeline promises of its chunks: each chunk goes  *)
(* through the lambda phases of its epochs one after the other, none twice *)
(* and none left out; no chunk finishes a phase of an epoch that is more   *)
(* than staleness epochs ahead of another chunk, nor one of epoch 2 before *)
(* all have finished epoch 1; and an epoch is announced to the other       *)
(* servers once, in order, when all chunks have finished it.               *)
(***************************************************************************)
EXTENDS Naturals

CONSTANT Id

VARIABLES shape,      \* number of phases of an epoch and the staleness bound
          at,         \* chunk -> number of phases it has finished
          announced   \* the newest epoch that was announced

EpochOf(i) == at[i] \div shape.phases + 1

Init ==
  /\ shape \in [phases : Nat \ {0}, staleness : Nat]
  /\ at = [i \in Id |-> 0]
  /\ announced = 1

Finish(i) ==
  /\ at' = [at EXCEPT ![i] = @ + 1]
  /\ \A j \in Id : /\ EpochOf(i) <= EpochOf(j) + shape.staleness
                   /\ EpochOf(i) > 1 => EpochOf(j) > 1
  /\ UNCHANGED <<shape, announced>>

Announce ==
  /\ announced' = announced + 1
  /\ \A i \in Id : EpochOf(i) > announced'
  /\ UNCHANGED <<shape, at>>

Next == Announce \/ \E i \in Id : Finish(i)

Spec == Init /\ [][Next]_<<shape, at, announced>>

=============================================================================
