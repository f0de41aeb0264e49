--------------------------- MODULE WeightSnapshots ---------------------------
(***************************************************************************)
(* What a versioned weight tensor promises to the chunks that train on it: *)
(* the first pull of a chunk takes a snapshot of the weights, every result *)
(* of that chunk is computed from this snapshot however often the weights  *)
(* are updated meanwhile, and the snapshot lives until the chunk's update  *)
(* arrives.  (Weight stashing, as the forward and the backward pass of a   *)
(* chunk must see the same weights.)  WeightTensor implements it.          *)
(***************************************************************************)
EXTENDS FiniteSets

CONSTANTS
  Chunks,    \* the chunks, one per epoch (type Chunk of common/utils.hpp)
  Grads      \* the gradients that may be applied to the weights

VARIABLES
  weights,   \* the gradients applied so far
  snap,      \* chunk -> the weights it was given, for the pinned chunks
  used,      \* chunk -> the set of weights its accepted results were computed from
  released   \* the chunks that will produce no further accepted result

vars == <<weights, snap, used, released>>

Init ==
  /\ weights = {}
  /\ snap = [c \in {} |-> {}]
  /\ used = [c \in Chunks |-> {}]
  /\ released = {}

\* The first pull of c, or the pull of a lambda that outlived the chunk.
Pin(c) ==
  /\ c \notin DOMAIN snap
  /\ snap' = [d \in DOMAIN snap \cup {c} |-> IF d = c THEN weights ELSE snap[d]]
  /\ UNCHANGED <<weights, used, released>>

\* A result of c is accepted: it was computed from c's snapshot.
Use(c) ==
  /\ c \in DOMAIN snap \ released
  /\ used' = [used EXCEPT ![c] = @ \cup {snap[c]}]
  /\ UNCHANGED <<weights, snap, released>>

\* The update of c arrives and gives the snapshot back.
Release(c) ==
  /\ c \in DOMAIN snap \ released
  /\ snap' = [d \in DOMAIN snap \ {c} |-> snap[d]]
  /\ released' = released \cup {c}
  /\ UNCHANGED <<weights, used>>

\* The lambda that should have pushed the update of c died: c stays pinned.
Abandon(c) ==
  /\ c \notin released
  /\ released' = released \cup {c}
  /\ UNCHANGED <<weights, snap, used>>

\* A batch of gradients is applied; no snapshot notices.
Apply(upd) ==
  /\ weights' = weights \cup upd
  /\ UNCHANGED <<snap, used, released>>

Next ==
  \/ \E c \in Chunks : Pin(c) \/ Use(c) \/ Release(c) \/ Abandon(c)
  \/ \E upd \in SUBSET Grads : Apply(upd)

Spec == Init /\ [][Next]_vars

=============================================================================
