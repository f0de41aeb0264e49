----------------------------- MODULE WeightTensor -----------------------------
(***************************************************************************)
(* One weight tensor of a weight server (weight-server/weighttensor.cpp):  *)
(* the versioned, reference counted store of its weights, the accumulation *)
(* of the gradients that lambdas push and that peer servers publish, and   *)
(* the threads that call it: the server's workers (serverworker.cpp), its  *)
(* receiver (weightserver.cpp) and, outside the server, the lambdas of     *)
(* each chunk, which may be relaunched, outlive their chunk, or die.       *)
(*                                                                         *)
(* A matrix is abstracted to the set of gradients added up in it.  The     *)
(* buffers holding the versions' weights are explicit (heap), because the  *)
(* code moves, copies, frees and sends them without copying.  WeightTensor *)
(* ::stop is never set in the program (stopUpdate has no caller), so the   *)
(* branches it guards are absent.                                          *)
(***************************************************************************)
EXTENDS Integers, FiniteSets

CONSTANTS
  Chunks,        \* chunks that use the tensor, one per (chunk id, epoch)
  Before,        \* Before[c]: the same chunk in earlier epochs
  Lambdas,       \* slots for lambdas that may work on one chunk at a time
  Ghosts,        \* updates the peer weight servers publish
  Round,         \* Round[g]: the round of its peer that g closes, from 1
  LocalUpdTot,   \* updates of one round from this server's lambdas
  GhostUpdTot,   \* updates of one round from the peers
  Modes,         \* the ways the server may be started, see mode
  TwoPass,       \* a forward and a backward lambda pull it, or only one lambda
  Faulty,        \* lambdas may die
  Junk           \* what a freed buffer may hold

Grads == Chunks \cup Ghosts
Garbage == {Junk}

ASSUME ConstantsOK ==
  /\ IsFiniteSet(Chunks)
  /\ Chunks \cap Ghosts = {}
  /\ Before \in [Chunks -> SUBSET Chunks]
  /\ Round \in [Ghosts -> Nat]
  /\ LocalUpdTot \in Nat /\ GhostUpdTot \in Nat
  /\ Modes \subseteq [sync : BOOLEAN, fake : BOOLEAN]
  /\ TwoPass \in BOOLEAN /\ Faulty \in BOOLEAN
  /\ Junk \notin Grads

VARIABLES
  mode,          \* sync: WeightServer::sync, or else the asynchronous pipeline;
                 \* fake: gnn_type is not GCN, workers call tryApplyUpdateFake
  currVer,       \* the newest version
  ver2Mat,       \* version -> [refCnt, mat], for the versions still stored
  chunk2Ver,     \* chunk -> the version it is pinned to
  heap,          \* buffer -> the gradients summed in it, for allocated buffers
  localUpdMat, localUpdCnt,
  ghostUpdMat, ghostUpdCnt,
  rcv,           \* the receiver thread
  inbox,         \* peer updates not yet received
  published,     \* number of updates this server has published
  phase,         \* chunk -> the lambda phase its graph server waits for
  lam,           \* lambda (and the worker that handles its push)
  used           \* chunk -> the weights its accepted results were computed from

store == <<currVer, ver2Mat, chunk2Ver, heap>>
locals == <<localUpdMat, localUpdCnt>>
ghostvars == <<ghostUpdMat, ghostUpdCnt>>
env == <<mode, phase, used>>
vars == <<store, locals, ghostvars, rcv, inbox, published, lam, env>>

Put(f, x, y) == [z \in DOMAIN f \cup {x} |-> IF z = x THEN y ELSE f[z]]
Drop(f, x) == [z \in DOMAIN f \ {x} |-> f[z]]

currMat == ver2Mat[currVer].mat

NoLambda == [st |-> "off", dir |-> "forward", buf |-> 0, val |-> {}]
Listening == [pc |-> "idle", upd |-> {}, mat |-> {}, cnt |-> 0]

Init ==
  /\ mode \in Modes
  /\ currVer = 0
  /\ ver2Mat = [v \in {0} |-> [refCnt |-> 0, mat |-> 0]]
  /\ chunk2Ver = [c \in {} |-> 0]
  /\ heap = [b \in {0} |-> {}]
  /\ localUpdMat = {} /\ localUpdCnt = 0
  /\ ghostUpdMat = {} /\ ghostUpdCnt = 0
  /\ rcv = Listening
  /\ inbox = Ghosts
  /\ published = 0
  /\ phase = [c \in Chunks |-> IF TwoPass THEN "forward" ELSE "backward"]
  /\ lam = [x \in Chunks \X Lambdas |-> NoLambda]
  /\ used = [c \in Chunks |-> {}]

-----------------------------------------------------------------------------
(* The weight store, under wmtx.                                           *)

\* updateVersion when no chunk holds the newest version: its buffer moves on
\* to the next version, and the optimizer adds upd to it in place.
MoveVersion(upd) ==
  /\ ver2Mat[currVer].refCnt = 0
  /\ ver2Mat' = Put(Drop(ver2Mat, currVer), currVer + 1, ver2Mat[currVer])
  /\ heap' = [heap EXCEPT ![currMat] = @ \cup upd]

\* Mutant: the next version shares the buffer of the stashed one.
StashShared(upd) ==
  /\ ver2Mat[currVer].refCnt # 0
  /\ ver2Mat' = Put(ver2Mat, currVer + 1, [refCnt |-> 0, mat |-> currMat])
  /\ heap' = [heap EXCEPT ![currMat] = @ \cup upd]

\* updateVersion when some chunk holds it: the newest version is stashed and
\* the next one starts as a copy, in the buffer allocated for it.
StashVersion(upd) ==
  /\ ver2Mat[currVer].refCnt # 0
  /\ ver2Mat' = Put(ver2Mat, currVer + 1, [refCnt |-> 0, mat |-> currVer + 1])
  /\ heap' = Put(heap, currVer + 1, heap[currMat] \cup upd)

UpdateVersion(upd) ==
  /\ MoveVersion(upd) \/ StashVersion(upd)
  /\ currVer' = currVer + 1
  /\ UNCHANGED chunk2Ver

\* Mutant: every pull counts a reference, also that of a pinned chunk.
GetMatCounted(c) ==
  /\ c \in DOMAIN chunk2Ver
  /\ ver2Mat' = [ver2Mat EXCEPT ![chunk2Ver[c]].refCnt = @ + 1]
  /\ UNCHANGED <<currVer, chunk2Ver, heap>>

\* Mutant: a new chunk is pinned without counting it.
GetMatUncounted(c) ==
  /\ c \notin DOMAIN chunk2Ver
  /\ chunk2Ver' = Put(chunk2Ver, c, currVer)
  /\ UNCHANGED <<currVer, ver2Mat, heap>>

\* getMat: a chunk that is pinned gets its version, a new one the newest.
GetMatFound(c) ==
  /\ c \in DOMAIN chunk2Ver
  /\ UNCHANGED store

GetMatNew(c) ==
  /\ c \notin DOMAIN chunk2Ver
  /\ ver2Mat' = [ver2Mat EXCEPT ![currVer].refCnt = @ + 1]
  /\ chunk2Ver' = Put(chunk2Ver, c, currVer)
  /\ UNCHANGED <<currVer, heap>>

\* Mutants: a reference is given back twice; an old version is kept when its
\* last chunk leaves; its entry is erased but not its buffer.
DecRefTwice(c) ==
  LET ver == chunk2Ver[c] IN
  /\ c \in DOMAIN chunk2Ver
  /\ ~(ver < currVer /\ ver2Mat[ver].refCnt = 1)
  /\ ver2Mat' = [ver2Mat EXCEPT ![ver].refCnt = @ - 2]
  /\ chunk2Ver' = Drop(chunk2Ver, c)
  /\ UNCHANGED <<currVer, heap>>

DecRefStale(c) ==
  LET ver == chunk2Ver[c] IN
  /\ c \in DOMAIN chunk2Ver
  /\ ver < currVer /\ ver2Mat[ver].refCnt = 1
  /\ ver2Mat' = [ver2Mat EXCEPT ![ver].refCnt = 0]
  /\ chunk2Ver' = Drop(chunk2Ver, c)
  /\ UNCHANGED <<currVer, heap>>

DecRefLeak(c) ==
  LET ver == chunk2Ver[c] IN
  /\ c \in DOMAIN chunk2Ver
  /\ ver < currVer /\ ver2Mat[ver].refCnt = 1
  /\ ver2Mat' = Drop(ver2Mat, ver)
  /\ chunk2Ver' = Drop(chunk2Ver, c)
  /\ UNCHANGED <<currVer, heap>>

\* decRef: an old version that nobody holds any longer is freed.
DecRefKeep(c) ==
  LET ver == chunk2Ver[c] IN
  /\ c \in DOMAIN chunk2Ver
  /\ ~(ver < currVer /\ ver2Mat[ver].refCnt = 1)
  /\ ver2Mat' = [ver2Mat EXCEPT ![ver].refCnt = @ - 1]
  /\ chunk2Ver' = Drop(chunk2Ver, c)
  /\ UNCHANGED <<currVer, heap>>

DecRefFree(c) ==
  LET ver == chunk2Ver[c] IN
  /\ c \in DOMAIN chunk2Ver
  /\ ver < currVer /\ ver2Mat[ver].refCnt = 1
  /\ heap' = Drop(heap, ver2Mat[ver].mat)
  /\ ver2Mat' = Drop(ver2Mat, ver)
  /\ chunk2Ver' = Drop(chunk2Ver, c)
  /\ UNCHANGED currVer

\* "wrong chunk dec ref!": logged, and the update is accumulated all the same.
DecRefWrong(c) ==
  /\ c \notin DOMAIN chunk2Ver
  /\ UNCHANGED store

-----------------------------------------------------------------------------
(* tryApplyUpdate, under umtx and wmtx.  No tensor is the empty set.       *)

Ready(updTensor) ==
  IF mode.sync THEN localUpdCnt >= LocalUpdTot /\ ghostUpdCnt >= GhostUpdTot
          ELSE updTensor # {} \/ localUpdCnt >= LocalUpdTot

NotReady(updTensor) ==
  /\ ~Ready(updTensor)
  /\ UNCHANGED <<store, locals, ghostvars>>

\* Mutants: the local gradient is not reset after it was applied.
ApplySyncAgain ==
  /\ mode.sync
  /\ UpdateVersion(localUpdMat \cup ghostUpdMat)
  /\ localUpdCnt' = 0
  /\ ghostUpdMat' = {} /\ ghostUpdCnt' = 0
  /\ UNCHANGED localUpdMat

ApplyLocalAgain(updTensor) ==
  /\ ~mode.sync /\ updTensor = {}
  /\ UpdateVersion(localUpdMat)
  /\ localUpdCnt' = 0
  /\ UNCHANGED <<ghostvars, localUpdMat>>

ApplySync ==
  /\ mode.sync
  /\ UpdateVersion(localUpdMat \cup ghostUpdMat)
  /\ localUpdMat' = {} /\ localUpdCnt' = 0
  /\ ghostUpdMat' = {} /\ ghostUpdCnt' = 0

ApplyGhost(updTensor) ==
  /\ ~mode.sync /\ updTensor # {}
  /\ UpdateVersion(updTensor)
  /\ UNCHANGED <<locals, ghostvars>>

ApplyLocal(updTensor) ==
  /\ ~mode.sync /\ updTensor = {}
  /\ UpdateVersion(localUpdMat)
  /\ localUpdMat' = {} /\ localUpdCnt' = 0
  /\ UNCHANGED ghostvars

TryApplyUpdate(updTensor) ==
  \/ NotReady(updTensor)
  \/ /\ Ready(updTensor)
     /\ ApplySync \/ ApplyGhost(updTensor) \/ ApplyLocal(updTensor)

\* tryApplyUpdateFake ("Simulate weight update"): only the counters move.
TryApplyUpdateFake ==
  /\ localUpdCnt' = 0 /\ ghostUpdCnt' = 0
  /\ UNCHANGED <<store, localUpdMat, ghostUpdMat>>

-----------------------------------------------------------------------------
(* Lambdas and the workers that serve them.                                *)

\* The graph server invokes or relaunches a lambda for the phase it waits
\* for, and the lambda's request for data is granted (a request that comes
\* after the phase is refused, and that lambda pulls no weights).
Launch(c, l) ==
  /\ lam[c, l].st = "off"
  /\ phase[c] # "done"
  /\ \A d \in Before[c] : phase[d] = "done"
  /\ mode.fake => \A m \in Lambdas : lam[c, m].st = "off"
  /\ lam' = [lam EXCEPT ![<<c, l>>] = [@ EXCEPT !.st = "on", !.dir = phase[c]]]
  /\ UNCHANGED <<store, locals, ghostvars, rcv, inbox, published, env>>

\* sendTensors: the reply refers to the version's buffer; nothing is copied.
SendTensors(c, l) ==
  /\ lam[c, l].st = "on"
  /\ GetMatFound(c) \/ GetMatNew(c)
  /\ lam' = [lam EXCEPT ![<<c, l>>] =
               [@ EXCEPT !.st = "sent", !.buf = ver2Mat'[chunk2Ver'[c]].mat]]
  /\ UNCHANGED <<locals, ghostvars, rcv, inbox, published, env>>

\* The reply leaves the server: only now is the buffer read.
Receive(c, l) ==
  /\ lam[c, l].st = "sent"
  /\ lam' = [lam EXCEPT ![<<c, l>>] =
               [@ EXCEPT !.st = "has",
                         !.val = IF lam[c, l].buf \in DOMAIN heap
                                   THEN heap[lam[c, l].buf] ELSE Garbage]]
  /\ UNCHANGED <<store, locals, ghostvars, rcv, inbox, published, env>>

\* Mutant: a second backward result of the chunk is accepted too.
FinishBackwardAgain(c, l) ==
  /\ lam[c, l].st = "has"
  /\ lam[c, l].dir = "backward" /\ phase[c] \in {"backward", "done"}
  /\ used' = [used EXCEPT ![c] = @ \cup {lam[c, l].val}]
  /\ phase' = [phase EXCEPT ![c] = "done"]
  /\ lam' = [lam EXCEPT ![<<c, l>>].st = "push"]
  /\ UNCHANGED <<store, locals, ghostvars, rcv, inbox, published, mode>>

\* The graph server accepts the result of the phase it waits for, and the
\* lambda goes on: a forward one ends, a backward one pushes its gradient.
FinishForward(c, l) ==
  /\ lam[c, l].st = "has"
  /\ lam[c, l].dir = "forward" /\ phase[c] = "forward"
  /\ used' = [used EXCEPT ![c] = @ \cup {lam[c, l].val}]
  /\ phase' = [phase EXCEPT ![c] = "backward"]
  /\ lam' = [lam EXCEPT ![<<c, l>>] = NoLambda]
  /\ UNCHANGED <<store, locals, ghostvars, rcv, inbox, published, mode>>

FinishBackward(c, l) ==
  /\ lam[c, l].st = "has"
  /\ lam[c, l].dir = "backward" /\ phase[c] = "backward"
  /\ used' = [used EXCEPT ![c] = @ \cup {lam[c, l].val}]
  /\ phase' = [phase EXCEPT ![c] = "done"]
  /\ lam' = [lam EXCEPT ![<<c, l>>].st = "push"]
  /\ UNCHANGED <<store, locals, ghostvars, rcv, inbox, published, mode>>

\* "This chunk is already done": a duplicate result ends the lambda.
Refused(c, l) ==
  /\ lam[c, l].st = "has"
  /\ lam[c, l].dir # phase[c]
  /\ lam' = [lam EXCEPT ![<<c, l>>] = NoLambda]
  /\ UNCHANGED <<store, locals, ghostvars, rcv, inbox, published, env>>

\* A lambda dies, possibly between the two pushes of its results.
Fail(c, l) ==
  /\ Faulty
  /\ lam[c, l].st \in {"on", "sent", "has", "push"}
  /\ lam' = [lam EXCEPT ![<<c, l>>] = NoLambda]
  /\ UNCHANGED <<store, locals, ghostvars, rcv, inbox, published, env>>

\* recvUpdateTensor: decRef, localUpdate, and the last one of a round applies.
RecvUpdateTensor(c, l) ==
  /\ lam[c, l].st = "push"
  /\ DecRefKeep(c) \/ DecRefFree(c) \/ DecRefWrong(c)
  /\ lam' = [lam EXCEPT ![<<c, l>>].st = "update"]
  /\ UNCHANGED <<locals, ghostvars, rcv, inbox, published, env>>

LocalUpdate(c, l) ==
  /\ lam[c, l].st = "update"
  /\ localUpdMat' = localUpdMat \cup {c}
  /\ localUpdCnt' = localUpdCnt + 1
  /\ lam' = [lam EXCEPT ![<<c, l>>] =
               IF localUpdCnt + 1 = LocalUpdTot THEN [@ EXCEPT !.st = "publish"] ELSE NoLambda]
  /\ UNCHANGED <<store, ghostvars, rcv, inbox, published, env>>

\* WeightServer::applyUpdate sends the accumulated gradient to the peers (only
\* that it does matters here), and then tries to apply it.
Publish(c, l) ==
  /\ lam[c, l].st = "publish"
  /\ published' = published + 1
  /\ lam' = [lam EXCEPT ![<<c, l>>].st = "apply"]
  /\ UNCHANGED <<store, locals, ghostvars, rcv, inbox, env>>

ApplyUpdate(c, l) ==
  /\ lam[c, l].st = "apply"
  /\ IF mode.fake THEN TryApplyUpdateFake ELSE TryApplyUpdate({})
  /\ lam' = [lam EXCEPT ![<<c, l>>] = NoLambda]
  /\ UNCHANGED <<rcv, inbox, published, env>>

-----------------------------------------------------------------------------
(* The receiver thread.  ghostUpdate takes no lock, so its two increments  *)
(* are a read and a write each, which a worker's tryApplyUpdate can split. *)
(* In sync mode a peer closes its next round only after it has this        *)
(* server's update of the round before.                                    *)

RecvGhost(g) ==
  /\ rcv.pc = "idle" /\ g \in inbox
  /\ mode.sync => Round[g] <= published + 1
  /\ inbox' = inbox \ {g}
  /\ rcv' = IF mode.sync THEN [rcv EXCEPT !.pc = "add", !.upd = {g}, !.mat = ghostUpdMat]
                    ELSE [rcv EXCEPT !.pc = "apply", !.upd = {g}]
  /\ UNCHANGED <<store, locals, ghostvars, published, lam, env>>

GhostAdd ==
  /\ rcv.pc = "add"
  /\ ghostUpdMat' = rcv.mat \cup rcv.upd
  /\ rcv' = [rcv EXCEPT !.pc = "count"]
  /\ UNCHANGED <<store, locals, ghostUpdCnt, inbox, published, lam, env>>

GhostReadCnt ==
  /\ rcv.pc = "count"
  /\ rcv' = [rcv EXCEPT !.pc = "inc", !.cnt = ghostUpdCnt]
  /\ UNCHANGED <<store, locals, ghostvars, inbox, published, lam, env>>

GhostWriteCnt ==
  /\ rcv.pc = "inc"
  /\ ghostUpdCnt' = rcv.cnt + 1
  /\ rcv' = [Listening EXCEPT !.pc = IF rcv.cnt + 1 = GhostUpdTot THEN "apply" ELSE "idle"]
  /\ UNCHANGED <<store, locals, ghostUpdMat, inbox, published, lam, env>>

RecvApply ==
  /\ rcv.pc = "apply"
  /\ TryApplyUpdate(rcv.upd)
  /\ rcv' = Listening
  /\ UNCHANGED <<inbox, published, lam, env>>

-----------------------------------------------------------------------------
LambdaStep(c, l) ==
  \/ Launch(c, l) \/ SendTensors(c, l) \/ Receive(c, l)
  \/ FinishForward(c, l) \/ FinishBackward(c, l) \/ Refused(c, l)
  \/ RecvUpdateTensor(c, l) \/ LocalUpdate(c, l)
  \/ Publish(c, l) \/ ApplyUpdate(c, l)

ReceiverStep ==
  \/ \E g \in Ghosts : RecvGhost(g)
  \/ GhostAdd \/ GhostReadCnt \/ GhostWriteCnt \/ RecvApply

Next ==
  \/ \E c \in Chunks, l \in Lambdas : LambdaStep(c, l) \/ Fail(c, l)
  \/ ReceiverStep

Spec == Init /\ [][Next]_vars

\* Every thread and every lambda keeps running; lambdas that die are
\* relaunched, and nothing says how often they die.
Fairness ==
  /\ \A c \in Chunks, l \in Lambdas : WF_vars(LambdaStep(c, l))
  /\ WF_vars(ReceiverStep)

FairSpec == Spec /\ Fairness

-----------------------------------------------------------------------------
(* Properties.                                                             *)

Pinned(v) == {c \in DOMAIN chunk2Ver : chunk2Ver[c] = v}

\* The values the variables may take.
TypeOK ==
  /\ mode \in Modes
  /\ currVer \in Nat
  /\ DOMAIN ver2Mat \subseteq Nat
  /\ ver2Mat \in [DOMAIN ver2Mat -> [refCnt : Nat, mat : Nat]]
  /\ DOMAIN heap \subseteq Nat
  /\ heap \in [DOMAIN heap -> SUBSET Grads]
  /\ DOMAIN chunk2Ver \subseteq Chunks
  /\ chunk2Ver \in [DOMAIN chunk2Ver -> Nat]
  /\ localUpdMat \subseteq Grads /\ localUpdCnt \in Nat
  /\ ghostUpdMat \subseteq Grads /\ ghostUpdCnt \in Nat
  /\ rcv \in [pc : {"idle", "add", "count", "inc", "apply"},
              upd : SUBSET Grads, mat : SUBSET Grads, cnt : Nat]
  /\ inbox \subseteq Ghosts
  /\ published \in Nat
  /\ phase \in [Chunks -> {"forward", "backward", "done"}]
  /\ lam \in [Chunks \X Lambdas ->
                [st : {"off", "on", "sent", "has", "push", "update", "publish", "apply"},
                 dir : {"forward", "backward"}, buf : Nat,
                 val : (SUBSET Grads) \cup {Garbage}]]
  /\ used \in [Chunks -> SUBSET ((SUBSET Grads) \cup {Garbage})]

\* The two maps of a tensor "should map to the same RefMat set"
\* (weighttensor.hpp:24): every pinned version is stored, every stored version
\* except the newest is pinned, so neither map dangles and no version leaks.
SameRefMats ==
  /\ currVer \in DOMAIN ver2Mat
  /\ \A v \in DOMAIN ver2Mat : v <= currVer
  /\ \A c \in DOMAIN chunk2Ver : chunk2Ver[c] \in DOMAIN ver2Mat
  /\ \A v \in DOMAIN ver2Mat \ {currVer} : Pinned(v) # {}

\* The reference count of a version is the number of chunks pinned to it, so
\* decRef never decrements zero and never frees a version still in use.
RefCntExact ==
  \A v \in DOMAIN ver2Mat : ver2Mat[v].refCnt = Cardinality(Pinned(v))

\* Each stored version has a buffer of its own, which is allocated, and no
\* allocated buffer is forgotten: no double free, no leak, no sharing.
BuffersOwned ==
  /\ DOMAIN heap = {ver2Mat[v].mat : v \in DOMAIN ver2Mat}
  /\ \A v, w \in DOMAIN ver2Mat : ver2Mat[v].mat = ver2Mat[w].mat => v = w

\* All accepted results of a chunk were computed from the same weights, never
\* from freed memory: its forward and its backward pass agree, however many
\* updates, relaunches and failures come between them.
SameWeights ==
  \A c \in Chunks : /\ Cardinality(used[c]) <= 1
                    /\ Garbage \notin used[c]

\* A worker that receives an update finds the chunk pinned: the "wrong chunk
\* dec ref!" path of decRef is unreachable.
PushIsPinned ==
  \A c \in Chunks, l \in Lambdas : lam[c, l].st = "push" => c \in DOMAIN chunk2Ver

\* The weights a pinned chunk sees: its version's buffer.
View(c) == heap[ver2Mat[chunk2Ver[c]].mat]

\* No gradient of this server's lambdas is lost or applied twice: each one
\* accumulated so far is either still in localUpdMat or in the weights.
GradientsConserved ==
  LET accumulated == {c \in Chunks : /\ phase[c] = "done"
                                     /\ \A l \in Lambdas : lam[c, l].st \notin {"push", "update"}}
      applied == Chunks \cap heap[currMat]
  IN  /\ localUpdMat \cap applied = {}
      /\ localUpdMat \cup applied \subseteq accumulated
      /\ ~Faulty => localUpdMat \cup applied = accumulated

\* As long as a chunk stays pinned its weights do not change and are not
\* freed: the optimizer only writes in place to a version that nobody holds.
PinnedImmutable ==
  [][\A c \in DOMAIN chunk2Ver :
       c \in DOMAIN chunk2Ver' => View(c)' = View(c)]_vars

\* Once its chunks are through, a tensor keeps no version but the newest: the
\* stashed ones are given back.
Reclaimed == <>[](DOMAIN ver2Mat = {currVer})

\* The tensor implements the snapshots promised to the chunks.
Weights == heap[currMat]
Snap == [c \in DOMAIN chunk2Ver |-> View(c)]
Released == {c \in Chunks : /\ phase[c] = "done"
                            /\ \A l \in Lambdas : lam[c, l].st # "push"}

Snapshots == INSTANCE WeightSnapshots WITH
  weights <- Weights, snap <- Snap, released <- Released
SnapshotSpec == Snapshots!Spec

-----------------------------------------------------------------------------
(* What comments in the source say and the code does not keep.             *)

\* "An old stashed weights is done. We can safely delete it."
\* (weighttensor.cpp:111): no reply that still refers to a buffer outlives it.
SafelyDeleted ==
  \A c \in Chunks, l \in Lambdas : lam[c, l].st = "sent" => lam[c, l].buf \in DOMAIN heap

=============================================================================
