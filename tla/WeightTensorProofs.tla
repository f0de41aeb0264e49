-------------------------- MODULE WeightTensorProofs --------------------------
(* Proofs about WeightTensor, for any chunks, lambdas and peer updates, in *)
(* sync and asynchronous mode, with and without failures.                  *)
EXTENDS WeightTensor, FiniteSetTheorems, TLAPS

(***************************************************************************)
(* The inductive invariant.  StoreInv speaks of the version store alone,   *)
(* LamInv relates what the lambdas hold to the store.                      *)
(***************************************************************************)
StoreType ==
  /\ currVer \in Nat
  /\ DOMAIN ver2Mat \subseteq Nat
  /\ ver2Mat \in [DOMAIN ver2Mat -> [refCnt : Nat, mat : Nat]]
  /\ DOMAIN heap \subseteq Nat
  /\ heap \in [DOMAIN heap -> SUBSET Grads]
  /\ DOMAIN chunk2Ver \subseteq Chunks
  /\ chunk2Ver \in [DOMAIN chunk2Ver -> Nat]

\* A copy gets a fresh buffer because every buffer is older than the next
\* version.
BuffersOld == \A v \in DOMAIN ver2Mat : ver2Mat[v].mat <= currVer

StoreInv ==
  /\ StoreType
  /\ SameRefMats
  /\ RefCntExact
  /\ BuffersOwned
  /\ BuffersOld

Mat(c) == ver2Mat[chunk2Ver[c]].mat

\* What one step of the store may do to the chunks that stay pinned: nothing.
KeepsViews ==
  \A c \in DOMAIN chunk2Ver :
    c \in DOMAIN chunk2Ver' => Mat(c)' = Mat(c) /\ View(c)' = View(c)

-----------------------------------------------------------------------------
\* The chunks pinned to a version are finitely many.
LEMMA PinnedFinite ==
  ASSUME StoreType, NEW v
  PROVE  /\ IsFiniteSet(Pinned(v))
         /\ Cardinality(Pinned(v)) \in Nat
         /\ Cardinality(Pinned(v)) = 0 <=> Pinned(v) = {}
<1>1. Pinned(v) \in SUBSET Chunks
  BY DEF Pinned, StoreType
<1>2. IsFiniteSet(Chunks)
  BY ConstantsOK
<1>3. IsFiniteSet(Pinned(v))
  BY <1>1, <1>2, FS_Subset
<1>4. QED
  BY <1>3, FS_CardinalityType, FS_EmptySet

\* A version nobody holds is held by no chunk: its count is zero.
LEMMA UnheldVersion ==
  ASSUME StoreInv, NEW v \in DOMAIN ver2Mat, ver2Mat[v].refCnt = 0
  PROVE  Pinned(v) = {}
BY PinnedFinite DEF StoreInv, RefCntExact

\* An update moves the newest version, or stashes it, and leaves every pinned
\* chunk's weights alone.
LEMMA MoveVersionInv ==
  ASSUME StoreInv, NEW upd \in SUBSET Grads, MoveVersion(upd),
         currVer' = currVer + 1, UNCHANGED chunk2Ver
  PROVE  StoreInv' /\ KeepsViews /\ heap'[currMat'] = heap[currMat] \cup upd
<1> DEFINE new == currVer + 1
<1>1. /\ currVer \in Nat /\ new \in Nat
      /\ currVer \in DOMAIN ver2Mat
      /\ \A v \in DOMAIN ver2Mat : v \in Nat /\ v <= currVer
      /\ new \notin DOMAIN ver2Mat
  BY DEF StoreInv, StoreType, SameRefMats
<1>2. Pinned(currVer) = {}
  BY <1>1, UnheldVersion DEF MoveVersion
<1>3. /\ DOMAIN ver2Mat' = (DOMAIN ver2Mat \ {currVer}) \cup {new}
      /\ ver2Mat'[new] = ver2Mat[currVer]
      /\ \A v \in DOMAIN ver2Mat \ {currVer} : ver2Mat'[v] = ver2Mat[v]
      /\ ver2Mat' = [v \in DOMAIN ver2Mat' |-> ver2Mat'[v]]
  BY <1>1 DEF MoveVersion, Put, Drop
<1>4. currMat \in DOMAIN heap
  BY <1>1 DEF StoreInv, BuffersOwned, currMat
<1>5. /\ DOMAIN heap' = DOMAIN heap
      /\ heap'[currMat] = heap[currMat] \cup upd
      /\ \A b \in DOMAIN heap : b # currMat => heap'[b] = heap[b]
      /\ heap' = [b \in DOMAIN heap |-> heap'[b]]
  BY <1>4 DEF MoveVersion, StoreInv, StoreType
<1>6. currMat' = currMat
  BY <1>3 DEF currMat
<1>7. \A v : Pinned(v)' = Pinned(v)
  BY DEF Pinned
<1>8. StoreType'
  BY <1>1, <1>3, <1>4, <1>5 DEF StoreInv, StoreType
<1>9. SameRefMats'
  <2>1. \A c \in DOMAIN chunk2Ver : chunk2Ver[c] # currVer
    BY <1>2 DEF Pinned
  <2>2. QED
    BY <1>1, <1>3, <1>7, <2>1 DEF StoreInv, SameRefMats
<1>10. RefCntExact'
  <2>1. Pinned(new) = {}
    BY <1>1 DEF Pinned, StoreInv, SameRefMats
  <2>2. ver2Mat[currVer].refCnt = Cardinality(Pinned(new))
    BY <1>1, <1>2, <2>1 DEF StoreInv, RefCntExact
  <2>3. QED
    BY <1>1, <1>3, <1>7, <2>2 DEF StoreInv, RefCntExact
<1>11. BuffersOwned'
  BY <1>1, <1>3, <1>5 DEF StoreInv, BuffersOwned
<1>12. BuffersOld'
  BY <1>1, <1>3 DEF StoreInv, BuffersOld, StoreType
<1>13. KeepsViews
  <2> SUFFICES ASSUME NEW c \in DOMAIN chunk2Ver
               PROVE  Mat(c)' = Mat(c) /\ View(c)' = View(c)
    BY DEF KeepsViews
  <2>1. chunk2Ver[c] \in DOMAIN ver2Mat \ {currVer}
    BY <1>2 DEF Pinned, StoreInv, SameRefMats
  <2>2. Mat(c)' = Mat(c)
    BY <1>3, <2>1 DEF Mat
  <2>3. Mat(c) # currMat /\ Mat(c) \in DOMAIN heap
    BY <1>1, <2>1 DEF Mat, currMat, StoreInv, BuffersOwned
  <2>4. QED
    BY <1>5, <2>2, <2>3 DEF View, Mat
<1>14. QED
  BY <1>5, <1>6, <1>8, <1>9, <1>10, <1>11, <1>12, <1>13 DEF StoreInv

LEMMA StashVersionInv ==
  ASSUME StoreInv, NEW upd \in SUBSET Grads, StashVersion(upd),
         currVer' = currVer + 1, UNCHANGED chunk2Ver
  PROVE  StoreInv' /\ KeepsViews /\ heap'[currMat'] = heap[currMat] \cup upd
<1> DEFINE new == currVer + 1
<1>1. /\ currVer \in Nat /\ new \in Nat
      /\ currVer \in DOMAIN ver2Mat
      /\ \A v \in DOMAIN ver2Mat : v \in Nat /\ v <= currVer
      /\ new \notin DOMAIN ver2Mat
  BY DEF StoreInv, StoreType, SameRefMats
<1>2. Pinned(currVer) # {}
  <2>1. ver2Mat[currVer].refCnt # 0 /\ ver2Mat[currVer].refCnt = Cardinality(Pinned(currVer))
    BY <1>1 DEF StashVersion, StoreInv, RefCntExact
  <2>2. QED
    BY <2>1, PinnedFinite DEF StoreInv
<1>3. /\ DOMAIN ver2Mat' = DOMAIN ver2Mat \cup {new}
      /\ ver2Mat'[new] = [refCnt |-> 0, mat |-> new]
      /\ \A v \in DOMAIN ver2Mat : ver2Mat'[v] = ver2Mat[v]
      /\ ver2Mat' = [v \in DOMAIN ver2Mat' |-> ver2Mat'[v]]
  BY <1>1 DEF StashVersion, Put
<1>4. /\ currMat \in DOMAIN heap
      /\ \A b \in DOMAIN heap : b <= currVer /\ b # new
      /\ \A v \in DOMAIN ver2Mat : ver2Mat[v].mat # new
  BY <1>1 DEF StoreInv, StoreType, BuffersOwned, BuffersOld, currMat
<1>5. /\ DOMAIN heap' = DOMAIN heap \cup {new}
      /\ heap'[new] = heap[currMat] \cup upd
      /\ \A b \in DOMAIN heap : heap'[b] = heap[b]
      /\ heap' = [b \in DOMAIN heap' |-> heap'[b]]
  BY <1>4 DEF StashVersion, Put
<1>6. currMat' = new
  BY <1>3 DEF currMat
<1>7. \A v : Pinned(v)' = Pinned(v)
  BY DEF Pinned
<1>8. StoreType'
  BY <1>1, <1>3, <1>4, <1>5 DEF StoreInv, StoreType
<1>9. SameRefMats'
  BY <1>1, <1>2, <1>3, <1>7 DEF StoreInv, SameRefMats
<1>10. RefCntExact'
  <2>1. Pinned(new) = {}
    BY <1>1 DEF Pinned, StoreInv, SameRefMats
  <2>2. Cardinality(Pinned(new)) = 0
    BY <2>1, FS_EmptySet
  <2>3. QED
    BY <1>1, <1>3, <1>7, <2>2 DEF StoreInv, RefCntExact
<1>11. BuffersOwned'
  BY <1>1, <1>3, <1>4, <1>5 DEF StoreInv, BuffersOwned
<1>12. BuffersOld'
  BY <1>1, <1>3 DEF StoreInv, BuffersOld, StoreType
<1>13. KeepsViews
  <2> SUFFICES ASSUME NEW c \in DOMAIN chunk2Ver
               PROVE  Mat(c)' = Mat(c) /\ View(c)' = View(c)
    BY DEF KeepsViews
  <2>1. chunk2Ver[c] \in DOMAIN ver2Mat
    BY DEF StoreInv, SameRefMats
  <2>2. Mat(c)' = Mat(c) /\ Mat(c) \in DOMAIN heap
    BY <1>3, <2>1 DEF Mat, StoreInv, BuffersOwned
  <2>3. QED
    BY <1>5, <2>2 DEF View, Mat
<1>14. QED
  BY <1>5, <1>6, <1>8, <1>9, <1>10, <1>11, <1>12, <1>13 DEF StoreInv

LEMMA UpdateVersionInv ==
  ASSUME StoreInv, NEW upd \in SUBSET Grads, UpdateVersion(upd)
  PROVE  /\ StoreInv' /\ KeepsViews
         /\ heap'[currMat'] = heap[currMat] \cup upd
         /\ UNCHANGED chunk2Ver
BY MoveVersionInv, StashVersionInv DEF UpdateVersion

\* getMat: afterwards the chunk is pinned, to a version that is stored.
LEMMA GetMatFoundInv ==
  ASSUME StoreInv, NEW c \in Chunks, GetMatFound(c)
  PROVE  StoreInv' /\ KeepsViews /\ c \in DOMAIN chunk2Ver'
BY DEF GetMatFound, store, StoreInv, StoreType, SameRefMats, RefCntExact, BuffersOwned,
       BuffersOld, Pinned, KeepsViews, Mat, View

LEMMA GetMatNewInv ==
  ASSUME StoreInv, NEW c \in Chunks, GetMatNew(c)
  PROVE  /\ StoreInv' /\ KeepsViews
         /\ DOMAIN chunk2Ver' = DOMAIN chunk2Ver \cup {c}
         /\ View(c)' = heap[currMat] /\ currMat' = currMat
<1>1. /\ currVer \in Nat /\ currVer' = currVer /\ heap' = heap
      /\ currVer \in DOMAIN ver2Mat
      /\ c \notin DOMAIN chunk2Ver
  BY DEF GetMatNew, StoreInv, StoreType, SameRefMats
<1>2. /\ DOMAIN ver2Mat' = DOMAIN ver2Mat
      /\ ver2Mat' \in [DOMAIN ver2Mat -> [refCnt : Nat, mat : Nat]]
      /\ \A v \in DOMAIN ver2Mat : /\ ver2Mat'[v].mat = ver2Mat[v].mat
                                   /\ v # currVer => ver2Mat'[v].refCnt = ver2Mat[v].refCnt
      /\ ver2Mat'[currVer].refCnt = ver2Mat[currVer].refCnt + 1
  BY <1>1 DEF GetMatNew, StoreInv, StoreType
<1>3. /\ DOMAIN chunk2Ver' = DOMAIN chunk2Ver \cup {c}
      /\ chunk2Ver'[c] = currVer
      /\ \A d \in DOMAIN chunk2Ver : chunk2Ver'[d] = chunk2Ver[d]
      /\ chunk2Ver' = [d \in DOMAIN chunk2Ver' |-> chunk2Ver'[d]]
  BY <1>1 DEF GetMatNew, Put
<1>4. /\ Pinned(currVer)' = Pinned(currVer) \cup {c}
      /\ c \notin Pinned(currVer)
      /\ \A v : v # currVer => Pinned(v)' = Pinned(v)
  BY <1>1, <1>3 DEF Pinned
<1>5. StoreType'
  BY <1>1, <1>2, <1>3 DEF StoreInv, StoreType
<1>6. SameRefMats'
  BY <1>1, <1>2, <1>3, <1>4 DEF StoreInv, SameRefMats
<1>7. RefCntExact'
  <2>1. Cardinality(Pinned(currVer) \cup {c}) = Cardinality(Pinned(currVer)) + 1
    BY <1>4, PinnedFinite, FS_AddElement DEF StoreInv
  <2>2. QED
    BY <1>1, <1>2, <1>4, <2>1 DEF StoreInv, RefCntExact
<1>8. BuffersOwned' /\ BuffersOld'
  BY <1>1, <1>2 DEF StoreInv, BuffersOwned, BuffersOld
<1>9. KeepsViews
  BY <1>1, <1>2, <1>3 DEF KeepsViews, Mat, View, StoreInv, SameRefMats
<1>10. View(c)' = heap[currMat] /\ currMat' = currMat
  BY <1>1, <1>2, <1>3 DEF View, currMat
<1>11. QED
  BY <1>3, <1>5, <1>6, <1>7, <1>8, <1>9, <1>10 DEF StoreInv

\* decRef: afterwards the chunk is not pinned, and the version it held is
\* freed exactly if it was an old one that nobody else holds.
LEMMA DecRefKeepInv ==
  ASSUME StoreInv, NEW c \in Chunks, DecRefKeep(c)
  PROVE  /\ StoreInv' /\ KeepsViews
         /\ DOMAIN chunk2Ver' = DOMAIN chunk2Ver \ {c}
         /\ currMat' = currMat /\ heap'[currMat] = heap[currMat]
<1>0. PICK ver : ver = chunk2Ver[c]
  OBVIOUS
<1>1. /\ currVer \in Nat /\ currVer' = currVer /\ heap' = heap
      /\ currVer \in DOMAIN ver2Mat /\ ver \in DOMAIN ver2Mat
      /\ c \in DOMAIN chunk2Ver
      /\ ~(ver < currVer /\ ver2Mat[ver].refCnt = 1)
      /\ ver2Mat' = [ver2Mat EXCEPT ![ver].refCnt = @ - 1]
      /\ ver \in Nat /\ ver <= currVer
  BY <1>0 DEF DecRefKeep, StoreInv, StoreType, SameRefMats
<1>2. /\ DOMAIN chunk2Ver' = DOMAIN chunk2Ver \ {c}
      /\ \A d \in DOMAIN chunk2Ver \ {c} : chunk2Ver'[d] = chunk2Ver[d]
      /\ chunk2Ver' = [d \in DOMAIN chunk2Ver' |-> chunk2Ver'[d]]
  BY DEF DecRefKeep, Drop
<1>3. /\ Pinned(ver)' = Pinned(ver) \ {c}
      /\ c \in Pinned(ver)
      /\ \A v : v # ver => Pinned(v)' = Pinned(v)
  BY <1>0, <1>1, <1>2 DEF Pinned
<1>4. Cardinality(Pinned(ver) \ {c}) = Cardinality(Pinned(ver)) - 1
  BY <1>3, PinnedFinite, FS_RemoveElement DEF StoreInv
<1>5. /\ ver2Mat[ver].refCnt = Cardinality(Pinned(ver))
      /\ ver2Mat[ver].refCnt \in Nat \ {0}
  BY <1>1, <1>3, PinnedFinite DEF StoreInv, RefCntExact
<1>6. /\ DOMAIN ver2Mat' = DOMAIN ver2Mat
      /\ ver2Mat' \in [DOMAIN ver2Mat -> [refCnt : Nat, mat : Nat]]
      /\ \A v \in DOMAIN ver2Mat : /\ ver2Mat'[v].mat = ver2Mat[v].mat
                                   /\ v # ver => ver2Mat'[v].refCnt = ver2Mat[v].refCnt
      /\ ver2Mat'[ver].refCnt = ver2Mat[ver].refCnt - 1
  BY <1>1, <1>5 DEF StoreInv, StoreType
<1>7. StoreType'
  BY <1>1, <1>2, <1>6 DEF StoreInv, StoreType
<1>8. RefCntExact'
  BY <1>3, <1>4, <1>5, <1>6 DEF StoreInv, RefCntExact
<1>9. SameRefMats'
  <2>1. ver # currVer => Pinned(ver) \ {c} # {}
    <3>1. ver # currVer => Cardinality(Pinned(ver) \ {c}) # 0
      BY <1>1, <1>4, <1>5
    <3>2. QED
      BY <3>1, FS_EmptySet
  <2>2. QED
    BY <1>1, <1>2, <1>3, <1>6, <2>1 DEF StoreInv, SameRefMats
<1>10. BuffersOwned' /\ BuffersOld'
  BY <1>1, <1>6 DEF StoreInv, BuffersOwned, BuffersOld
<1>11. KeepsViews
  BY <1>1, <1>2, <1>6 DEF KeepsViews, Mat, View, StoreInv, SameRefMats
<1>12. currMat' = currMat /\ heap'[currMat] = heap[currMat]
  BY <1>1, <1>6 DEF currMat
<1>13. QED
  BY <1>2, <1>7, <1>8, <1>9, <1>10, <1>11, <1>12 DEF StoreInv

LEMMA DecRefFreeInv ==
  ASSUME StoreInv, NEW c \in Chunks, DecRefFree(c)
  PROVE  /\ StoreInv' /\ KeepsViews
         /\ DOMAIN chunk2Ver' = DOMAIN chunk2Ver \ {c}
         /\ currMat' = currMat /\ heap'[currMat] = heap[currMat]
<1> DEFINE ver == chunk2Ver[c]
           buf == ver2Mat[ver].mat
<1>1. /\ currVer \in Nat /\ currVer' = currVer
      /\ currVer \in DOMAIN ver2Mat /\ ver \in DOMAIN ver2Mat
      /\ c \in DOMAIN chunk2Ver
      /\ ver # currVer /\ ver2Mat[ver].refCnt = 1
  BY DEF DecRefFree, StoreInv, StoreType, SameRefMats
<1>2. /\ DOMAIN chunk2Ver' = DOMAIN chunk2Ver \ {c}
      /\ \A d \in DOMAIN chunk2Ver \ {c} : chunk2Ver'[d] = chunk2Ver[d]
      /\ chunk2Ver' = [d \in DOMAIN chunk2Ver' |-> chunk2Ver'[d]]
  BY DEF DecRefFree, Drop
<1>3. /\ DOMAIN ver2Mat' = DOMAIN ver2Mat \ {ver}
      /\ \A v \in DOMAIN ver2Mat \ {ver} : ver2Mat'[v] = ver2Mat[v]
      /\ ver2Mat' = [v \in DOMAIN ver2Mat' |-> ver2Mat'[v]]
  BY DEF DecRefFree, Drop
<1>4. /\ DOMAIN heap' = DOMAIN heap \ {buf}
      /\ \A b \in DOMAIN heap \ {buf} : heap'[b] = heap[b]
      /\ heap' = [b \in DOMAIN heap' |-> heap'[b]]
  BY DEF DecRefFree, Drop
<1>5. Pinned(ver) = {c}
  <2>1. Cardinality(Pinned(ver)) = 1 /\ c \in Pinned(ver)
    BY <1>1 DEF StoreInv, RefCntExact, Pinned
  <2>2. QED
    BY <2>1, PinnedFinite, FS_Singleton DEF StoreInv
<1>6. \A d \in DOMAIN chunk2Ver' : chunk2Ver[d] \in DOMAIN ver2Mat \ {ver}
  BY <1>2, <1>5 DEF Pinned, StoreInv, SameRefMats
<1>7. \A v \in DOMAIN ver2Mat \ {ver} : Pinned(v)' = Pinned(v)
  BY <1>1, <1>2 DEF Pinned
<1>8. \A v \in DOMAIN ver2Mat \ {ver} : ver2Mat[v].mat \in DOMAIN heap \ {buf}
  BY <1>1 DEF StoreInv, BuffersOwned
<1>9. StoreType'
  BY <1>1, <1>2, <1>3, <1>4 DEF StoreInv, StoreType
<1>10. SameRefMats'
  BY <1>1, <1>2, <1>3, <1>6, <1>7 DEF StoreInv, SameRefMats
<1>11. RefCntExact'
  BY <1>3, <1>7 DEF StoreInv, RefCntExact
<1>12. BuffersOwned'
  BY <1>1, <1>3, <1>4, <1>8 DEF StoreInv, BuffersOwned
<1>13. BuffersOld'
  BY <1>1, <1>3 DEF StoreInv, BuffersOld
<1>14. KeepsViews
  BY <1>2, <1>3, <1>4, <1>6, <1>8 DEF KeepsViews, Mat, View
<1>15. currMat' = currMat /\ heap'[currMat] = heap[currMat]
  BY <1>1, <1>3, <1>4, <1>8 DEF currMat
<1>16. QED
  BY <1>2, <1>9, <1>10, <1>11, <1>12, <1>13, <1>14, <1>15 DEF StoreInv

LEMMA StoreUnchanged ==
  ASSUME StoreInv, UNCHANGED store
  PROVE  StoreInv' /\ KeepsViews
BY DEF store, StoreInv, StoreType, SameRefMats, RefCntExact, BuffersOwned, BuffersOld,
       Pinned, KeepsViews, Mat, View

-----------------------------------------------------------------------------
(***************************************************************************)
(* The lambdas.  While its chunk is in progress, a lambda that has a reply *)
(* has the weights the chunk is pinned to; only the one lambda whose       *)
(* backward result was accepted pushes, and it finds the chunk pinned.     *)
(***************************************************************************)
LamOK(c, l) ==
  /\ lam[c, l].st \in {"sent", "has"} /\ phase[c] # "done" => c \in DOMAIN chunk2Ver
  /\ lam[c, l].st = "sent" /\ phase[c] # "done" => lam[c, l].buf = Mat(c)
  /\ lam[c, l].st = "has" /\ phase[c] # "done" => lam[c, l].val = View(c)
  /\ lam[c, l].st \in {"push", "update", "publish", "apply"} => phase[c] = "done"
  /\ lam[c, l].st = "push" => c \in DOMAIN chunk2Ver
  /\ \A m \in Lambdas : lam[c, l].st = "push" /\ lam[c, m].st = "push" => l = m

LamInv == \A c \in Chunks, l \in Lambdas : LamOK(c, l)

\* The accepted results of a chunk in progress come from the version it is
\* pinned to, and those of any chunk from one set of weights.
UsedOK(c) ==
  /\ phase[c] # "done" /\ used[c] # {} => c \in DOMAIN chunk2Ver /\ used[c] = {View(c)}
  /\ \E w \in SUBSET Grads : used[c] \subseteq {w}

UsedInv == \A c \in Chunks : UsedOK(c)

Lambda == [st : {"off", "on", "sent", "has", "push", "update", "publish", "apply"},
           dir : {"forward", "backward"}, buf : Nat,
           val : (SUBSET Grads) \cup {Garbage}]

LamType == lam \in [Chunks \X Lambdas -> Lambda]

PhaseType ==
  /\ phase \in [Chunks -> {"forward", "backward", "done"}]
  /\ used \in [Chunks -> SUBSET ((SUBSET Grads) \cup {Garbage})]

UpdType ==
  /\ localUpdMat \subseteq Grads /\ localUpdCnt \in Nat
  /\ ghostUpdMat \subseteq Grads /\ ghostUpdCnt \in Nat
  /\ rcv \in [pc : {"idle", "add", "count", "inc", "apply"},
              upd : SUBSET Grads, mat : SUBSET Grads, cnt : Nat]
  /\ inbox \subseteq Ghosts
  /\ published \in Nat

ChunkInv == LamType /\ PhaseType /\ LamInv /\ UsedInv

IInv == StoreInv /\ UpdType /\ ChunkInv

LEMMA IInvType == IInv /\ mode \in Modes => TypeOK
BY DEF IInv, StoreInv, StoreType, UpdType, ChunkInv, LamType, Lambda, PhaseType, TypeOK

\* A stored version's view is a set of gradients.
LEMMA ViewType ==
  ASSUME StoreInv, NEW c \in DOMAIN chunk2Ver
  PROVE  View(c) \in SUBSET Grads /\ Mat(c) \in DOMAIN heap /\ Mat(c) \in Nat
BY DEF StoreInv, StoreType, SameRefMats, BuffersOwned, View, Mat

\* A step that keeps the pinned chunks pinned, to the same weights, and lets
\* lambdas only stop or move on past their push, keeps the lambda invariant.
LEMMA ChunkInvKept ==
  ASSUME ChunkInv, KeepsViews, DOMAIN chunk2Ver \subseteq DOMAIN chunk2Ver',
         UNCHANGED env, LamType',
         \A c \in Chunks, l \in Lambdas :
           \/ lam'[c, l] = lam[c, l]
           \/ lam'[c, l].st \in {"off", "on"}
           \/ phase[c] = "done" /\ lam'[c, l].st \in {"update", "publish", "apply"}
  PROVE  ChunkInv'
<1>1. PhaseType'
  BY DEF ChunkInv, PhaseType, env
<1>2. LamInv'
  <2> SUFFICES ASSUME NEW c \in Chunks, NEW l \in Lambdas
               PROVE  LamOK(c, l)'
    BY DEF LamInv
  <2>1. CASE lam'[c, l] = lam[c, l]
    BY <2>1 DEF ChunkInv, LamInv, LamOK, KeepsViews, env
  <2>2. CASE lam'[c, l].st \in {"off", "on", "update", "publish", "apply"}
    BY <2>2 DEF ChunkInv, LamInv, LamOK, env
  <2>3. QED
    BY <2>1, <2>2
<1>3. UsedInv'
  <2> SUFFICES ASSUME NEW c \in Chunks
               PROVE  UsedOK(c)'
    BY DEF UsedInv
  <2>1. QED
    BY DEF ChunkInv, UsedInv, UsedOK, KeepsViews, env
<1>4. QED
  BY <1>1, <1>2, <1>3 DEF ChunkInv

-----------------------------------------------------------------------------
(* One lemma per action: it preserves the inductive invariant.             *)

\* A step of one lambda, which does not push: only what it now holds matters.
LEMMA LamInvStep ==
  ASSUME LamInv, KeepsViews, DOMAIN chunk2Ver \subseteq DOMAIN chunk2Ver', phase' = phase,
         NEW c \in Chunks, NEW l \in Lambdas,
         \A d \in Chunks, m \in Lambdas : <<d, m>> # <<c, l>> => lam'[d, m] = lam[d, m],
         lam'[c, l].st \in {"sent", "has"},
         phase[c] # "done" => /\ c \in DOMAIN chunk2Ver'
                              /\ lam'[c, l].st = "sent" => lam'[c, l].buf = Mat(c)'
                              /\ lam'[c, l].st = "has" => lam'[c, l].val = View(c)'
  PROVE  LamInv'
<1> SUFFICES ASSUME NEW d \in Chunks, NEW k \in Lambdas
             PROVE  LamOK(d, k)'
  BY DEF LamInv
<1>1. CASE <<d, k>> = <<c, l>>
  BY <1>1 DEF LamOK
<1>2. CASE <<d, k>> # <<c, l>>
  <2>1. lam'[d, k] = lam[d, k]
    BY <1>2
  <2>2. \A m \in Lambdas : lam'[d, m].st = "push" => lam[d, m].st = "push"
    OBVIOUS
  <2>3. QED
    BY <2>1, <2>2 DEF LamInv, LamOK, KeepsViews
<1>3. QED
  BY <1>1, <1>2

LEMMA LaunchInv ==
  ASSUME IInv, NEW c \in Chunks, NEW l \in Lambdas, Launch(c, l)
  PROVE  IInv'
<1>1. StoreInv' /\ KeepsViews /\ UNCHANGED <<chunk2Ver, env>>
  BY StoreUnchanged DEF IInv, Launch, store
<1>2. UpdType'
  BY DEF IInv, UpdType, Launch, locals, ghostvars
<1>3. phase[c] \in {"forward", "backward"}
  BY DEF IInv, ChunkInv, PhaseType, Launch
<1>4. LamType
  BY DEF IInv, ChunkInv
<1>5. PICK r : r = [lam[c, l] EXCEPT !.st = "on", !.dir = phase[c]]
  OBVIOUS
<1>6. r \in Lambda /\ r.st = "on"
  <2>1. lam[c, l] \in Lambda
    BY <1>4 DEF LamType
  <2>2. QED
    BY <1>3, <1>5, <2>1 DEF Lambda
<1>7. lam' = [lam EXCEPT ![<<c, l>>] = r]
  BY <1>5 DEF Launch
<1>8. LamType' /\ lam'[c, l] = r
      /\ \A d \in Chunks, m \in Lambdas : <<d, m>> # <<c, l>> => lam'[d, m] = lam[d, m]
  BY <1>4, <1>6, <1>7 DEF LamType
<1>9. ChunkInv'
  BY <1>1, <1>6, <1>8, ChunkInvKept DEF IInv
<1>10. QED
  BY <1>1, <1>2, <1>9 DEF IInv

\* A lambda that ends for whatever reason, without an effect on the server.
LEMMA EndInv ==
  ASSUME IInv, NEW c \in Chunks, NEW l \in Lambdas,
         lam' = [lam EXCEPT ![<<c, l>>] = NoLambda],
         UNCHANGED <<store, locals, ghostvars, rcv, inbox, published, env>>
  PROVE  IInv'
<1>1. StoreInv' /\ KeepsViews /\ UNCHANGED chunk2Ver
  BY StoreUnchanged DEF IInv, store
<1>2. UpdType'
  BY DEF IInv, UpdType, locals, ghostvars
<1>3. LamType /\ NoLambda \in Lambda /\ NoLambda.st = "off"
  BY DEF IInv, ChunkInv, NoLambda, Lambda
<1>4. LamType' /\ lam'[c, l] = NoLambda
      /\ \A d \in Chunks, m \in Lambdas : <<d, m>> # <<c, l>> => lam'[d, m] = lam[d, m]
  BY <1>3 DEF LamType
<1>5. ChunkInv'
  BY <1>1, <1>3, <1>4, ChunkInvKept DEF IInv
<1>6. QED
  BY <1>1, <1>2, <1>5 DEF IInv

LEMMA SendTensorsInv ==
  ASSUME IInv, NEW c \in Chunks, NEW l \in Lambdas, SendTensors(c, l)
  PROVE  /\ IInv' /\ KeepsViews
         /\ DOMAIN chunk2Ver' = DOMAIN chunk2Ver \cup {c}
         /\ currMat' = currMat /\ heap' = heap
<1>1. /\ StoreInv' /\ KeepsViews
      /\ DOMAIN chunk2Ver' = DOMAIN chunk2Ver \cup {c}
      /\ currMat' = currMat /\ heap' = heap
  <2>1. CASE GetMatFound(c)
    BY <2>1, GetMatFoundInv DEF IInv, GetMatFound, store, currMat
  <2>2. CASE GetMatNew(c)
    BY <2>2, GetMatNewInv DEF IInv, GetMatNew
  <2>3. QED
    BY <2>1, <2>2 DEF SendTensors
<1>2. UpdType'
  BY DEF IInv, UpdType, SendTensors, locals, ghostvars
<1>3. UNCHANGED <<phase, used>> /\ LamType
  BY DEF SendTensors, env, IInv, ChunkInv
<1>4. Mat(c)' \in Nat
  BY <1>1, ViewType DEF StoreInv, StoreType, SameRefMats, Mat
<1>5. PICK b, r : b = Mat(c)' /\ r = [lam[c, l] EXCEPT !.st = "sent", !.buf = b]
  OBVIOUS
<1>6. r \in Lambda /\ r.st = "sent" /\ r.buf = b
  <2>1. lam[c, l] \in Lambda
    BY <1>3 DEF LamType
  <2>2. QED
    BY <1>4, <1>5, <2>1 DEF Lambda
<1>7. lam' = [lam EXCEPT ![<<c, l>>] = r]
  BY <1>5 DEF SendTensors, Mat
<1>8. LamType' /\ lam'[c, l] = r
      /\ \A d \in Chunks, m \in Lambdas : <<d, m>> # <<c, l>> => lam'[d, m] = lam[d, m]
  BY <1>3, <1>6, <1>7 DEF LamType
<1>9. PhaseType'
  BY <1>3 DEF IInv, ChunkInv, PhaseType
<1>10. LamInv'
  <2>1. LamInv /\ phase' = phase /\ DOMAIN chunk2Ver \subseteq DOMAIN chunk2Ver'
        /\ c \in DOMAIN chunk2Ver'
    BY <1>1, <1>3 DEF IInv, ChunkInv
  <2>2. lam'[c, l].st = "sent" /\ lam'[c, l].buf = Mat(c)'
    BY <1>5, <1>6, <1>8
  <2>3. QED
    BY <1>1, <1>8, <2>1, <2>2, LamInvStep
<1>11. UsedInv'
  BY <1>1, <1>3 DEF IInv, ChunkInv, UsedInv, UsedOK, KeepsViews
<1>12. QED
  BY <1>1, <1>2, <1>8, <1>9, <1>10, <1>11 DEF IInv, ChunkInv

\* While its chunk is in progress, a lambda finds its version's buffer.
LEMMA ReceiveInv ==
  ASSUME IInv, NEW c \in Chunks, NEW l \in Lambdas, Receive(c, l)
  PROVE  IInv'
<1>1. StoreInv' /\ KeepsViews /\ UNCHANGED <<chunk2Ver, phase, used>>
  BY StoreUnchanged DEF IInv, Receive, store, env
<1>2. UpdType' /\ PhaseType' /\ LamType
  BY <1>1 DEF IInv, ChunkInv, UpdType, PhaseType, Receive, locals, ghostvars
<1>3. PICK val : val = IF lam[c, l].buf \in DOMAIN heap THEN heap[lam[c, l].buf] ELSE Garbage
  OBVIOUS
<1>4. val \in (SUBSET Grads) \cup {Garbage}
  BY <1>3 DEF IInv, StoreInv, StoreType
<1>5. PICK r : r = [lam[c, l] EXCEPT !.st = "has", !.val = val]
  OBVIOUS
<1>6. r \in Lambda /\ r.st = "has" /\ r.val = val
  <2>1. lam[c, l] \in Lambda
    BY <1>2 DEF LamType
  <2>2. QED
    BY <1>4, <1>5, <2>1 DEF Lambda
<1>7. lam' = [lam EXCEPT ![<<c, l>>] = r]
  BY <1>3, <1>5 DEF Receive
<1>8. LamType' /\ lam'[c, l] = r
      /\ \A d \in Chunks, m \in Lambdas : <<d, m>> # <<c, l>> => lam'[d, m] = lam[d, m]
  BY <1>2, <1>6, <1>7 DEF LamType
<1>9. phase[c] # "done" => c \in DOMAIN chunk2Ver' /\ val = View(c)'
  <2>1. phase[c] # "done" => c \in DOMAIN chunk2Ver /\ lam[c, l].buf = Mat(c)
    BY DEF IInv, ChunkInv, LamInv, LamOK, Receive
  <2>2. QED
    BY <1>1, <1>3, <2>1, ViewType DEF IInv, View, Mat, KeepsViews
<1>10. LamInv'
  <2>1. LamInv /\ phase' = phase /\ DOMAIN chunk2Ver \subseteq DOMAIN chunk2Ver'
    BY <1>1 DEF IInv, ChunkInv
  <2>2. QED
    BY <1>1, <1>6, <1>8, <1>9, <2>1, LamInvStep
<1>11. UsedInv'
  BY <1>1 DEF IInv, ChunkInv, UsedInv, UsedOK, KeepsViews
<1>12. QED
  BY <1>1, <1>2, <1>8, <1>10, <1>11 DEF IInv, ChunkInv

\* An accepted result was computed from the weights its chunk is pinned to,
\* and so was every result of the chunk accepted before.
LEMMA AcceptedView ==
  ASSUME IInv, NEW c \in Chunks, NEW l \in Lambdas,
         lam[c, l].st = "has", phase[c] # "done"
  PROVE  /\ c \in DOMAIN chunk2Ver
         /\ View(c) \in SUBSET Grads
         /\ used[c] \cup {lam[c, l].val} = {View(c)}
<1>1. c \in DOMAIN chunk2Ver /\ lam[c, l].val = View(c)
  BY DEF IInv, ChunkInv, LamInv, LamOK
<1>2. used[c] = {} \/ used[c] = {View(c)}
  BY DEF IInv, ChunkInv, UsedInv, UsedOK
<1>3. QED
  BY <1>1, <1>2, ViewType DEF IInv

LEMMA FinishForwardInv ==
  ASSUME IInv, NEW c \in Chunks, NEW l \in Lambdas, FinishForward(c, l)
  PROVE  IInv'
<1>1. StoreInv' /\ KeepsViews /\ UNCHANGED chunk2Ver
  BY StoreUnchanged DEF IInv, FinishForward, store
<1>2. UpdType'
  BY DEF IInv, UpdType, FinishForward, locals, ghostvars
<1>3. LamType /\ PhaseType /\ LamInv /\ UsedInv
  BY DEF IInv, ChunkInv
<1>4. NoLambda \in Lambda /\ NoLambda.st = "off"
  BY DEF NoLambda, Lambda
<1>5. LamType' /\ lam'[c, l] = NoLambda
      /\ \A d \in Chunks, m \in Lambdas : <<d, m>> # <<c, l>> => lam'[d, m] = lam[d, m]
  BY <1>3, <1>4 DEF LamType, FinishForward
<1>6. /\ lam[c, l].st = "has" /\ phase[c] # "done"
      /\ phase' = [phase EXCEPT ![c] = "backward"]
      /\ used' = [used EXCEPT ![c] = @ \cup {lam[c, l].val}]
  BY DEF FinishForward
<1>7. /\ c \in DOMAIN chunk2Ver /\ View(c) \in SUBSET Grads
      /\ used'[c] = {View(c)} /\ View(c)' = View(c)
  BY <1>1, <1>3, <1>6, AcceptedView DEF PhaseType, KeepsViews
<1>8. /\ phase'[c] = "backward"
      /\ \A d \in Chunks \ {c} : phase'[d] = phase[d] /\ used'[d] = used[d]
  BY <1>3, <1>6 DEF PhaseType
<1>9. PhaseType'
  BY <1>3, <1>6, <1>7 DEF PhaseType
<1>10. LamInv'
  <2> SUFFICES ASSUME NEW d \in Chunks, NEW k \in Lambdas
               PROVE  LamOK(d, k)'
    BY DEF LamInv
  <2>1. CASE <<d, k>> = <<c, l>>
    BY <1>4, <1>5, <2>1 DEF LamOK
  <2>2. CASE <<d, k>> # <<c, l>>
    <3>1. lam'[d, k] = lam[d, k] /\ (phase'[d] # "done" => phase[d] # "done")
      BY <1>5, <1>6, <1>8, <2>2
    <3>2. lam[d, k].st \in {"push", "update", "publish", "apply"} => phase'[d] = "done"
      BY <1>3, <1>6, <1>8 DEF LamInv, LamOK
    <3>3. \A m \in Lambdas : lam'[d, m].st = "push" => lam[d, m].st = "push"
      BY <1>4, <1>5
    <3>4. QED
      BY <1>1, <1>3, <3>1, <3>2, <3>3 DEF LamInv, LamOK, KeepsViews
  <2>3. QED
    BY <2>1, <2>2
<1>11. UsedInv'
  <2> SUFFICES ASSUME NEW d \in Chunks
               PROVE  UsedOK(d)'
    BY DEF UsedInv
  <2>1. CASE d = c
    BY <1>1, <1>7, <2>1 DEF UsedOK
  <2>2. CASE d # c
    BY <1>1, <1>3, <1>8, <2>2 DEF UsedInv, UsedOK, KeepsViews
  <2>3. QED
    BY <2>1, <2>2
<1>12. QED
  BY <1>1, <1>2, <1>5, <1>9, <1>10, <1>11 DEF IInv, ChunkInv

LEMMA FinishBackwardInv ==
  ASSUME IInv, NEW c \in Chunks, NEW l \in Lambdas, FinishBackward(c, l)
  PROVE  IInv'
<1>1. StoreInv' /\ KeepsViews /\ UNCHANGED chunk2Ver
  BY StoreUnchanged DEF IInv, FinishBackward, store
<1>2. UpdType'
  BY DEF IInv, UpdType, FinishBackward, locals, ghostvars
<1>3. LamType /\ PhaseType /\ LamInv /\ UsedInv
  BY DEF IInv, ChunkInv
<1>4. PICK r : r = [lam[c, l] EXCEPT !.st = "push"]
  OBVIOUS
<1>5. r \in Lambda /\ r.st = "push"
  <2>1. lam[c, l] \in Lambda
    BY <1>3 DEF LamType
  <2>2. QED
    BY <1>4, <2>1 DEF Lambda
<1>6. /\ lam[c, l].st = "has" /\ phase[c] = "backward"
      /\ phase' = [phase EXCEPT ![c] = "done"]
      /\ used' = [used EXCEPT ![c] = @ \cup {lam[c, l].val}]
      /\ lam' = [lam EXCEPT ![<<c, l>>] = r]
  BY <1>4 DEF FinishBackward
<1>7. LamType' /\ lam'[c, l] = r
      /\ \A d \in Chunks, m \in Lambdas : <<d, m>> # <<c, l>> => lam'[d, m] = lam[d, m]
  BY <1>3, <1>5, <1>6 DEF LamType
<1>8. /\ c \in DOMAIN chunk2Ver /\ View(c) \in SUBSET Grads
      /\ used'[c] = {View(c)}
  BY <1>3, <1>6, AcceptedView DEF PhaseType
<1>9. /\ phase'[c] = "done"
      /\ \A d \in Chunks \ {c} : phase'[d] = phase[d] /\ used'[d] = used[d]
  BY <1>3, <1>6 DEF PhaseType
<1>10. PhaseType'
  BY <1>3, <1>6, <1>8 DEF PhaseType
<1>11. LamInv'
  <2> SUFFICES ASSUME NEW d \in Chunks, NEW k \in Lambdas
               PROVE  LamOK(d, k)'
    BY DEF LamInv
  <2>1. CASE d = c
    <3>1. \A m \in Lambdas : m # l => lam'[c, m] = lam[c, m] /\ lam[c, m].st # "push"
      BY <1>3, <1>6, <1>7 DEF LamInv, LamOK
    <3>2. QED
      BY <1>1, <1>5, <1>7, <1>8, <1>9, <2>1, <3>1 DEF LamOK
  <2>2. CASE d # c
    <3>1. \A m \in Lambdas : lam'[d, m] = lam[d, m]
      BY <1>7, <2>2
    <3>2. phase'[d] = phase[d]
      BY <1>9, <2>2
    <3>3. QED
      BY <1>1, <1>3, <3>1, <3>2 DEF LamInv, LamOK, KeepsViews
  <2>3. QED
    BY <2>1, <2>2
<1>12. UsedInv'
  <2> SUFFICES ASSUME NEW d \in Chunks
               PROVE  UsedOK(d)'
    BY DEF UsedInv
  <2>1. CASE d = c
    BY <1>8, <1>9, <2>1 DEF UsedOK
  <2>2. CASE d # c
    BY <1>1, <1>3, <1>9, <2>2 DEF UsedInv, UsedOK, KeepsViews
  <2>3. QED
    BY <2>1, <2>2
<1>13. QED
  BY <1>1, <1>2, <1>7, <1>10, <1>11, <1>12 DEF IInv, ChunkInv

\* The push of a chunk finds it pinned and gives its version back; the chunk
\* is done, so nothing else is said of it any longer.
LEMMA RecvUpdateTensorInv ==
  ASSUME IInv, NEW c \in Chunks, NEW l \in Lambdas, RecvUpdateTensor(c, l)
  PROVE  /\ IInv' /\ KeepsViews
         /\ DOMAIN chunk2Ver' = DOMAIN chunk2Ver \ {c}
         /\ currMat' = currMat /\ heap'[currMat] = heap[currMat]
<1>1. LamType /\ PhaseType /\ LamInv /\ UsedInv
  BY DEF IInv, ChunkInv
<1>2. c \in DOMAIN chunk2Ver /\ phase[c] = "done" /\ lam[c, l].st = "push"
  BY <1>1 DEF RecvUpdateTensor, LamInv, LamOK
<1>3. /\ StoreInv' /\ KeepsViews
      /\ DOMAIN chunk2Ver' = DOMAIN chunk2Ver \ {c}
      /\ currMat' = currMat /\ heap'[currMat] = heap[currMat]
  BY <1>2, DecRefKeepInv, DecRefFreeInv DEF IInv, RecvUpdateTensor, DecRefWrong
<1>4. UpdType'
  BY DEF IInv, UpdType, RecvUpdateTensor, locals, ghostvars
<1>5. UNCHANGED <<phase, used>>
  BY DEF RecvUpdateTensor, env
<1>6. PICK r : r = [lam[c, l] EXCEPT !.st = "update"]
  OBVIOUS
<1>7. r \in Lambda /\ r.st = "update"
  <2>1. lam[c, l] \in Lambda
    BY <1>1 DEF LamType
  <2>2. QED
    BY <1>6, <2>1 DEF Lambda
<1>8. lam' = [lam EXCEPT ![<<c, l>>] = r]
  BY <1>6 DEF RecvUpdateTensor
<1>9. LamType' /\ lam'[c, l] = r
      /\ \A d \in Chunks, m \in Lambdas : <<d, m>> # <<c, l>> => lam'[d, m] = lam[d, m]
  BY <1>1, <1>7, <1>8 DEF LamType
<1>10. PhaseType'
  BY <1>1, <1>5 DEF PhaseType
<1>11. LamInv'
  <2> SUFFICES ASSUME NEW d \in Chunks, NEW k \in Lambdas
               PROVE  LamOK(d, k)'
    BY DEF LamInv
  <2>1. CASE d = c
    <3>1. \A m \in Lambdas : lam'[c, m].st # "push"
      BY <1>1, <1>2, <1>7, <1>9 DEF LamInv, LamOK
    <3>2. phase'[d] = "done" /\ lam'[d, k].st # "push"
      BY <1>2, <1>5, <2>1, <3>1
    <3>3. QED
      BY <3>2 DEF LamOK
  <2>2. CASE d # c
    <3>1. \A m \in Lambdas : lam'[d, m] = lam[d, m]
      BY <1>9, <2>2
    <3>2. phase'[d] = phase[d] /\ (d \in DOMAIN chunk2Ver => d \in DOMAIN chunk2Ver')
      BY <1>3, <1>5, <2>2
    <3>3. QED
      BY <1>1, <1>3, <3>1, <3>2 DEF LamInv, LamOK, KeepsViews
  <2>3. QED
    BY <2>1, <2>2
<1>12. UsedInv'
  BY <1>1, <1>2, <1>3, <1>5 DEF UsedInv, UsedOK, KeepsViews
<1>13. QED
  BY <1>3, <1>4, <1>9, <1>10, <1>11, <1>12 DEF IInv, ChunkInv

LEMMA LocalUpdateInv ==
  ASSUME IInv, NEW c \in Chunks, NEW l \in Lambdas, LocalUpdate(c, l)
  PROVE  IInv'
<1>1. StoreInv' /\ KeepsViews /\ UNCHANGED <<chunk2Ver, env>>
  BY StoreUnchanged DEF IInv, LocalUpdate, store
<1>2. UpdType'
  <2>1. UpdType /\ c \in Grads
    BY DEF IInv, Grads
  <2>2. /\ localUpdMat' = localUpdMat \cup {c} /\ localUpdCnt' = localUpdCnt + 1
        /\ UNCHANGED <<ghostUpdMat, ghostUpdCnt, rcv, inbox, published>>
    BY DEF LocalUpdate, ghostvars
  <2>3. QED
    BY <2>1, <2>2 DEF UpdType
<1>3. LamType /\ phase[c] = "done"
  BY DEF IInv, ChunkInv, LamInv, LamOK, LocalUpdate
<1>4. PICK r : r = IF localUpdCnt + 1 = LocalUpdTot
                     THEN [lam[c, l] EXCEPT !.st = "publish"] ELSE NoLambda
  OBVIOUS
<1>5. r \in Lambda /\ r.st \in {"off", "publish"}
  <2>1. lam[c, l] \in Lambda /\ NoLambda \in Lambda /\ NoLambda.st = "off"
    BY <1>3 DEF LamType, NoLambda, Lambda
  <2>2. [lam[c, l] EXCEPT !.st = "publish"] \in Lambda
    BY <2>1 DEF Lambda
  <2>3. [lam[c, l] EXCEPT !.st = "publish"].st = "publish"
    BY <2>1 DEF Lambda
  <2>4. QED
    BY <1>4, <2>1, <2>2, <2>3
<1>6. lam' = [lam EXCEPT ![<<c, l>>] = r]
  BY <1>4 DEF LocalUpdate
<1>7. LamType' /\ lam'[c, l] = r
      /\ \A d \in Chunks, m \in Lambdas : <<d, m>> # <<c, l>> => lam'[d, m] = lam[d, m]
  BY <1>3, <1>5, <1>6 DEF LamType
<1>8. ChunkInv'
  BY <1>1, <1>3, <1>5, <1>7, ChunkInvKept DEF IInv
<1>9. QED
  BY <1>1, <1>2, <1>8 DEF IInv

LEMMA PublishInv ==
  ASSUME IInv, NEW c \in Chunks, NEW l \in Lambdas, Publish(c, l)
  PROVE  IInv'
<1>1. StoreInv' /\ KeepsViews /\ UNCHANGED <<chunk2Ver, env>>
  BY StoreUnchanged DEF IInv, Publish, store
<1>2. UpdType'
  <2>1. UpdType
    BY DEF IInv
  <2>2. /\ published' = published + 1
        /\ UNCHANGED <<localUpdMat, localUpdCnt, ghostUpdMat, ghostUpdCnt, rcv, inbox>>
    BY DEF Publish, locals, ghostvars
  <2>3. QED
    BY <2>1, <2>2 DEF UpdType
<1>3. LamType /\ phase[c] = "done"
  BY DEF IInv, ChunkInv, LamInv, LamOK, Publish
<1>4. PICK r : r = [lam[c, l] EXCEPT !.st = "apply"]
  OBVIOUS
<1>5. r \in Lambda /\ r.st = "apply"
  <2>1. lam[c, l] \in Lambda
    BY <1>3 DEF LamType
  <2>2. QED
    BY <1>4, <2>1 DEF Lambda
<1>6. lam' = [lam EXCEPT ![<<c, l>>] = r]
  BY <1>4 DEF Publish
<1>7. LamType' /\ lam'[c, l] = r
      /\ \A d \in Chunks, m \in Lambdas : <<d, m>> # <<c, l>> => lam'[d, m] = lam[d, m]
  BY <1>3, <1>5, <1>6 DEF LamType
<1>8. ChunkInv'
  BY <1>1, <1>3, <1>5, <1>7, ChunkInvKept DEF IInv
<1>9. QED
  BY <1>1, <1>2, <1>8 DEF IInv

\* Whoever tries to apply an update, and in whichever mode: the store stays
\* consistent, no chunk loses its version, and the weights only gain the batch.
LEMMA TryApplyUpdateInv ==
  ASSUME StoreInv, UpdType, NEW upd \in SUBSET Grads, TryApplyUpdate(upd)
  PROVE  /\ StoreInv' /\ KeepsViews /\ UNCHANGED chunk2Ver
         /\ localUpdMat' \in SUBSET Grads /\ localUpdCnt' \in Nat
         /\ ghostUpdMat' \in SUBSET Grads /\ ghostUpdCnt' \in Nat
         /\ \E batch \in SUBSET Grads : heap'[currMat'] = heap[currMat] \cup batch
<1>1. /\ localUpdMat \in SUBSET Grads /\ localUpdCnt \in Nat
      /\ ghostUpdMat \in SUBSET Grads /\ ghostUpdCnt \in Nat
  BY DEF UpdType
<1>2. CASE NotReady(upd)
  <2>1. UNCHANGED store /\ UNCHANGED locals /\ UNCHANGED ghostvars
    BY <1>2 DEF NotReady
  <2>2. heap'[currMat'] = heap[currMat] \cup {}
    BY <2>1 DEF store, currMat
  <2>3. QED
    BY <1>1, <2>1, <2>2, StoreUnchanged DEF store, locals, ghostvars
<1>3. CASE ApplySync
  <2>1. localUpdMat \cup ghostUpdMat \in SUBSET Grads
    BY <1>1
  <2>2. QED
    BY <1>3, <2>1, UpdateVersionInv DEF ApplySync
<1>4. CASE ApplyGhost(upd)
  BY <1>1, <1>4, UpdateVersionInv DEF ApplyGhost, locals, ghostvars
<1>5. CASE ApplyLocal(upd)
  BY <1>1, <1>5, UpdateVersionInv DEF ApplyLocal, ghostvars
<1>6. QED
  BY <1>2, <1>3, <1>4, <1>5 DEF TryApplyUpdate

LEMMA ApplyUpdateInv ==
  ASSUME IInv, NEW c \in Chunks, NEW l \in Lambdas, ApplyUpdate(c, l)
  PROVE  /\ IInv' /\ KeepsViews /\ UNCHANGED chunk2Ver
         /\ \E batch \in SUBSET Grads : heap'[currMat'] = heap[currMat] \cup batch
<1>1. /\ StoreInv' /\ KeepsViews /\ UNCHANGED chunk2Ver
      /\ localUpdMat' \in SUBSET Grads /\ localUpdCnt' \in Nat
      /\ ghostUpdMat' \in SUBSET Grads /\ ghostUpdCnt' \in Nat
      /\ \E batch \in SUBSET Grads : heap'[currMat'] = heap[currMat] \cup batch
  <2>1. CASE TryApplyUpdateFake
    <3>1. UNCHANGED store /\ UNCHANGED localUpdMat /\ UNCHANGED ghostUpdMat
          /\ localUpdCnt' = 0 /\ ghostUpdCnt' = 0
      BY <2>1 DEF TryApplyUpdateFake
    <3>2. heap'[currMat'] = heap[currMat] \cup {}
      BY <3>1 DEF store, currMat
    <3>3. localUpdMat \in SUBSET Grads /\ ghostUpdMat \in SUBSET Grads
      BY DEF IInv, UpdType
    <3>4. QED
      BY <3>1, <3>2, <3>3, StoreUnchanged DEF IInv, store
  <2>2. CASE TryApplyUpdate({})
    BY <2>2, TryApplyUpdateInv DEF IInv
  <2>3. QED
    BY <2>1, <2>2 DEF ApplyUpdate
<1>2. UpdType'
  BY <1>1 DEF IInv, UpdType, ApplyUpdate
<1>3. UNCHANGED env /\ LamType
  BY DEF IInv, ChunkInv, ApplyUpdate
<1>4. NoLambda \in Lambda /\ NoLambda.st = "off"
  BY DEF NoLambda, Lambda
<1>5. lam' = [lam EXCEPT ![<<c, l>>] = NoLambda]
  BY DEF ApplyUpdate
<1>6. LamType' /\ lam'[c, l] = NoLambda
      /\ \A d \in Chunks, m \in Lambdas : <<d, m>> # <<c, l>> => lam'[d, m] = lam[d, m]
  BY <1>3, <1>4, <1>5 DEF LamType
<1>7. ChunkInv'
  BY <1>1, <1>3, <1>4, <1>6, ChunkInvKept DEF IInv
<1>8. QED
  BY <1>1, <1>2, <1>7 DEF IInv

-----------------------------------------------------------------------------
(* The receiver thread does not touch the lambdas.                         *)
LEMMA ReceiverInv ==
  ASSUME IInv, ReceiverStep
  PROVE  /\ IInv' /\ KeepsViews /\ UNCHANGED <<chunk2Ver, lam, env>>
         /\ \E batch \in SUBSET Grads : heap'[currMat'] = heap[currMat] \cup batch
<1>1. UNCHANGED <<lam, env>>
  BY DEF ReceiverStep, RecvGhost, GhostAdd, GhostReadCnt, GhostWriteCnt, RecvApply
<1>2. StoreInv /\ UpdType /\ LamType
  BY DEF IInv, ChunkInv
<1>3. LET kept == /\ StoreInv' /\ KeepsViews /\ UNCHANGED chunk2Ver
                  /\ \E batch \in SUBSET Grads : heap'[currMat'] = heap[currMat] \cup batch
      IN UNCHANGED store => kept
  <2> SUFFICES ASSUME UNCHANGED store
               PROVE  /\ StoreInv' /\ KeepsViews /\ UNCHANGED chunk2Ver
                      /\ \E batch \in SUBSET Grads : heap'[currMat'] = heap[currMat] \cup batch
    OBVIOUS
  <2>1. heap'[currMat'] = heap[currMat] \cup {}
    BY DEF store, currMat
  <2>2. QED
    BY <1>2, <2>1, StoreUnchanged DEF store
<1>4. UpdType' /\ StoreInv' /\ KeepsViews /\ UNCHANGED chunk2Ver
      /\ \E batch \in SUBSET Grads : heap'[currMat'] = heap[currMat] \cup batch
  <2>1. CASE \E g \in Ghosts : RecvGhost(g)
    <3>1. PICK g \in Ghosts : RecvGhost(g)
      BY <2>1
    <3>2. UNCHANGED store /\ UNCHANGED locals /\ UNCHANGED ghostvars
      BY <3>1 DEF RecvGhost
    <3>3. {g} \in SUBSET Grads
      BY DEF Grads
    <3>4. UpdType'
      BY <1>2, <3>1, <3>2, <3>3 DEF UpdType, RecvGhost, locals, ghostvars
    <3>5. QED
      BY <1>3, <3>2, <3>4
  <2>2. CASE GhostAdd
    <3>1. UNCHANGED store /\ UpdType'
      BY <1>2, <2>2 DEF UpdType, GhostAdd, locals
    <3>2. QED
      BY <1>3, <3>1
  <2>3. CASE GhostReadCnt
    <3>1. UNCHANGED store /\ UpdType'
      BY <1>2, <2>3 DEF UpdType, GhostReadCnt, locals, ghostvars
    <3>2. QED
      BY <1>3, <3>1
  <2>4. CASE GhostWriteCnt
    <3>1. UNCHANGED store /\ UpdType'
      BY <1>2, <2>4 DEF UpdType, GhostWriteCnt, Listening, locals
    <3>2. QED
      BY <1>3, <3>1
  <2>5. CASE RecvApply
    <3>1. rcv.upd \in SUBSET Grads
      BY <1>2 DEF UpdType
    <3>2. /\ StoreInv' /\ KeepsViews /\ UNCHANGED chunk2Ver
          /\ localUpdMat' \in SUBSET Grads /\ localUpdCnt' \in Nat
          /\ ghostUpdMat' \in SUBSET Grads /\ ghostUpdCnt' \in Nat
          /\ \E batch \in SUBSET Grads : heap'[currMat'] = heap[currMat] \cup batch
      BY <1>2, <2>5, <3>1, TryApplyUpdateInv DEF RecvApply
    <3>3. UpdType'
      BY <1>2, <2>5, <3>2 DEF UpdType, RecvApply, Listening
    <3>4. QED
      BY <3>2, <3>3
  <2>6. QED
    BY <2>1, <2>2, <2>3, <2>4, <2>5 DEF ReceiverStep
<1>5. LamType' /\ \A c \in Chunks, l \in Lambdas : lam'[c, l] = lam[c, l]
  BY <1>1, <1>2 DEF LamType
<1>6. ChunkInv'
  BY <1>1, <1>4, <1>5, ChunkInvKept DEF IInv
<1>7. QED
  BY <1>1, <1>4, <1>6 DEF IInv

-----------------------------------------------------------------------------
(* The inductive invariant, and what follows from it.                      *)

LEMMA InitInv == Init => IInv
<1> SUFFICES ASSUME Init
             PROVE  IInv
  OBVIOUS
<1>1. StoreType /\ SameRefMats /\ BuffersOwned /\ BuffersOld
  BY DEF Init, StoreType, SameRefMats, BuffersOwned, BuffersOld, Pinned
<1>2. RefCntExact
  <2>1. Pinned(0) = {}
    BY DEF Init, Pinned
  <2>2. QED
    BY <2>1, FS_EmptySet DEF Init, RefCntExact
<1>3. UpdType
  BY DEF Init, UpdType, Listening
<1>4. LamType /\ PhaseType
  BY DEF Init, LamType, Lambda, NoLambda, PhaseType
<1>5. \A c \in Chunks, l \in Lambdas : lam[c, l].st = "off"
  BY DEF Init, NoLambda
<1>6. LamInv
  BY <1>5 DEF LamInv, LamOK
<1>7. UsedInv
  BY DEF Init, UsedInv, UsedOK
<1>8. QED
  BY <1>1, <1>2, <1>3, <1>4, <1>6, <1>7 DEF IInv, StoreInv, ChunkInv

LEMMA StutterInv ==
  ASSUME IInv, UNCHANGED vars
  PROVE  IInv' /\ KeepsViews
<1>1. StoreInv' /\ KeepsViews /\ UNCHANGED <<chunk2Ver, env>> /\ UpdType'
  BY StoreUnchanged DEF IInv, vars, store, UpdType, locals, ghostvars
<1>2. LamType' /\ \A c \in Chunks, l \in Lambdas : lam'[c, l] = lam[c, l]
  BY DEF vars, IInv, ChunkInv, LamType
<1>3. ChunkInv'
  BY <1>1, <1>2, ChunkInvKept DEF IInv
<1>4. QED
  BY <1>1, <1>3 DEF IInv

LEMMA LambdaStepInv ==
  ASSUME IInv, NEW c \in Chunks, NEW l \in Lambdas, LambdaStep(c, l) \/ Fail(c, l)
  PROVE  IInv' /\ KeepsViews
<1>1. CASE Launch(c, l)
  BY <1>1, LaunchInv, StoreUnchanged DEF Launch, IInv
<1>2. CASE SendTensors(c, l)
  BY <1>2, SendTensorsInv
<1>3. CASE Receive(c, l)
  BY <1>3, ReceiveInv, StoreUnchanged DEF Receive, IInv
<1>4. CASE FinishForward(c, l)
  BY <1>4, FinishForwardInv, StoreUnchanged DEF FinishForward, IInv
<1>5. CASE FinishBackward(c, l)
  BY <1>5, FinishBackwardInv, StoreUnchanged DEF FinishBackward, IInv
<1>6. CASE Refused(c, l)
  BY <1>6, EndInv, StoreUnchanged DEF Refused, IInv
<1>7. CASE RecvUpdateTensor(c, l)
  BY <1>7, RecvUpdateTensorInv
<1>8. CASE LocalUpdate(c, l)
  BY <1>8, LocalUpdateInv, StoreUnchanged DEF LocalUpdate, IInv
<1>9. CASE Publish(c, l)
  BY <1>9, PublishInv, StoreUnchanged DEF Publish, IInv
<1>10. CASE ApplyUpdate(c, l)
  BY <1>10, ApplyUpdateInv
<1>11. CASE Fail(c, l)
  BY <1>11, EndInv, StoreUnchanged DEF Fail, IInv
<1>12. QED
  BY <1>1, <1>2, <1>3, <1>4, <1>5, <1>6, <1>7, <1>8, <1>9, <1>10, <1>11 DEF LambdaStep

LEMMA NextInv ==
  ASSUME IInv, [Next]_vars
  PROVE  IInv' /\ KeepsViews
<1>1. CASE \E c \in Chunks, l \in Lambdas : LambdaStep(c, l) \/ Fail(c, l)
  BY <1>1, LambdaStepInv
<1>2. CASE ReceiverStep
  BY <1>2, ReceiverInv
<1>3. CASE UNCHANGED vars
  BY <1>3, StutterInv
<1>4. QED
  BY <1>1, <1>2, <1>3 DEF Next

\* IInv is an invariant.
THEOREM Invariance == Spec => []IInv
<1>1. Init => IInv
  BY InitInv
<1>2. IInv /\ [Next]_vars => IInv'
  BY NextInv
<1>3. QED
  BY <1>1, <1>2, PTL DEF Spec

\* The mode is chosen when the server starts and never changes.
LEMMA ModeFixed ==
  ASSUME [Next]_vars
  PROVE  mode' = mode
<1>1. ASSUME NEW c \in Chunks, NEW l \in Lambdas, LambdaStep(c, l) \/ Fail(c, l)
      PROVE  mode' = mode
  <2>1. CASE FinishForward(c, l) \/ FinishBackward(c, l)
    BY <2>1 DEF FinishForward, FinishBackward
  <2>2. CASE ~(FinishForward(c, l) \/ FinishBackward(c, l))
    <3>1. UNCHANGED env
      BY <1>1, <2>2 DEF LambdaStep, Launch, SendTensors, Receive, Refused, RecvUpdateTensor,
                        LocalUpdate, Publish, ApplyUpdate, Fail
    <3>2. QED
      BY <3>1 DEF env
  <2>3. QED
    BY <2>1, <2>2
<1>2. ASSUME ReceiverStep
      PROVE  mode' = mode
  <2>1. UNCHANGED env
    BY <1>2 DEF ReceiverStep, RecvGhost, GhostAdd, GhostReadCnt, GhostWriteCnt, RecvApply
  <2>2. QED
    BY <2>1 DEF env
<1>3. QED
  BY <1>1, <1>2 DEF Next, vars, env

\* Every variable of the weight tensor and of its callers keeps its type.
THEOREM TypeCorrect == Spec => []TypeOK
<1>1. Init => mode \in Modes
  BY DEF Init
<1>2. mode \in Modes /\ [Next]_vars => (mode \in Modes)'
  BY ModeFixed
<1>3. QED
  <2>1. Spec => [](mode \in Modes)
    BY <1>1, <1>2, PTL DEF Spec
  <2>2. QED
    BY <2>1, Invariance, IInvType, PTL

\* The two version maps agree: no pinned version is missing, no old version
\* that nobody is pinned to is kept (getMat, decRef, updateVersion).
THEOREM MapsAgree == Spec => []SameRefMats
<1>1. IInv => SameRefMats
  BY DEF IInv, StoreInv
<1>2. QED
  BY <1>1, Invariance, PTL

\* Reference counts are exact, whatever lambdas are relaunched or die.
THEOREM RefCntCorrect == Spec => []RefCntExact
<1>1. IInv => RefCntExact
  BY DEF IInv, StoreInv
<1>2. QED
  BY <1>1, Invariance, PTL

\* No buffer is shared between versions, freed twice or leaked.
THEOREM MemorySafe == Spec => []BuffersOwned
<1>1. IInv => BuffersOwned
  BY DEF IInv, StoreInv
<1>2. QED
  BY <1>1, Invariance, PTL

\* The "wrong chunk dec ref!" path of decRef is dead code.
THEOREM PushFindsPin == Spec => []PushIsPinned
<1>1. IInv => PushIsPinned
  BY DEF IInv, ChunkInv, LamInv, LamOK, PushIsPinned
<1>2. QED
  BY <1>1, Invariance, PTL

\* Weight stashing works: every accepted result of a chunk, forward or
\* backward, was computed from one and the same set of weights.
THEOREM OneSnapshotPerChunk == Spec => []SameWeights
<1>1. ASSUME IInv
      PROVE  SameWeights
  <2> SUFFICES ASSUME NEW c \in Chunks
               PROVE  Cardinality(used[c]) <= 1 /\ Garbage \notin used[c]
    BY DEF SameWeights
  <2>1. PICK w \in SUBSET Grads : used[c] \subseteq {w}
    BY <1>1 DEF IInv, ChunkInv, UsedInv, UsedOK
  <2>2. used[c] = {} \/ used[c] = {w}
    BY <2>1
  <2>3. Cardinality(used[c]) <= 1
    <3>1. Cardinality({}) = 0 /\ Cardinality({w}) = 1
      BY FS_EmptySet, FS_Singleton
    <3>2. QED
      BY <2>2, <3>1
  <2>4. Garbage \notin SUBSET Grads
    BY ConstantsOK DEF Garbage
  <2>5. QED
    BY <2>1, <2>3, <2>4
<1>2. QED
  BY <1>1, Invariance, PTL

\* No update, and no other chunk, changes or frees the weights of a chunk as
\* long as it is pinned.
THEOREM StashIsImmutable == Spec => PinnedImmutable
<1>1. ASSUME IInv, [Next]_vars
      PROVE  \A c \in DOMAIN chunk2Ver : c \in DOMAIN chunk2Ver' => View(c)' = View(c)
  BY <1>1, NextInv DEF KeepsViews
<1>2. IInv /\ [Next]_vars =>
        [\A c \in DOMAIN chunk2Ver : c \in DOMAIN chunk2Ver' => View(c)' = View(c)]_vars
  BY <1>1
<1>3. QED
  BY <1>2, Invariance, PTL DEF Spec, PinnedImmutable

-----------------------------------------------------------------------------
(***************************************************************************)
(* Refinement: pulling is Pin or a stutter, accepting a result is Use, the *)
(* push is Release, the death of the lambda that should push is Abandon,   *)
(* and tryApplyUpdate, on a worker or on the receiver, is Apply.           *)
(***************************************************************************)
LEMMA SnapKept ==
  ASSUME StoreInv, KeepsViews, DOMAIN chunk2Ver' = DOMAIN chunk2Ver
  PROVE  Snap' = Snap
<1>1. \A c \in DOMAIN chunk2Ver : View(c)' = View(c)
  BY DEF KeepsViews
<1>2. QED
  BY <1>1 DEF Snap

\* What is released changes only when a chunk finishes or its push goes.
LEMMA ReleasedKept ==
  ASSUME phase' = phase, NEW c \in Chunks, NEW l \in Lambdas, LamType, NEW r \in Lambda,
         lam' = [lam EXCEPT ![<<c, l>>] = r],
         lam[c, l].st # "push", r.st # "push"
  PROVE  Released' = Released
<1>1. /\ lam'[c, l] = r
      /\ \A d \in Chunks, m \in Lambdas : <<d, m>> # <<c, l>> => lam'[d, m] = lam[d, m]
  BY DEF LamType
<1>2. \A d \in Chunks, m \in Lambdas : lam'[d, m].st # "push" <=> lam[d, m].st # "push"
  BY <1>1
<1>3. QED
  BY <1>2 DEF Released

\* The one lambda that pushes the update of c stops doing so.
LEMMA ReleasedAdds ==
  ASSUME IInv, phase' = phase, NEW c \in Chunks, NEW l \in Lambdas, NEW r \in Lambda,
         lam' = [lam EXCEPT ![<<c, l>>] = r],
         lam[c, l].st = "push", r.st # "push"
  PROVE  c \notin Released /\ Released' = Released \cup {c}
<1>1. LamType /\ LamInv
  BY DEF IInv, ChunkInv
<1>2. /\ lam'[c, l] = r
      /\ \A d \in Chunks, m \in Lambdas : <<d, m>> # <<c, l>> => lam'[d, m] = lam[d, m]
  BY <1>1 DEF LamType
<1>3. phase[c] = "done" /\ \A m \in Lambdas : lam'[c, m].st # "push"
  BY <1>1, <1>2 DEF LamInv, LamOK
<1>4. \A d \in Chunks \ {c} : \A m \in Lambdas : lam'[d, m] = lam[d, m]
  BY <1>2
<1>5. QED
  BY <1>3, <1>4 DEF Released

LEMMA PinStep ==
  ASSUME IInv, NEW c \in Chunks, NEW l \in Lambdas, SendTensors(c, l)
  PROVE  Snapshots!Pin(c) \/ UNCHANGED Snapshots!vars
<1>1. /\ StoreInv /\ KeepsViews /\ DOMAIN chunk2Ver' = DOMAIN chunk2Ver \cup {c}
      /\ Weights' = Weights
  BY SendTensorsInv DEF IInv, Weights
<1>2. phase' = phase /\ used' = used /\ LamType
  BY DEF SendTensors, env, IInv, ChunkInv
<1>3. Released' = Released
  <2>1. lam'[c, l].st = "sent" /\ lam[c, l].st = "on"
        /\ \A d \in Chunks, m \in Lambdas : <<d, m>> # <<c, l>> => lam'[d, m] = lam[d, m]
    BY <1>2 DEF SendTensors, LamType, Lambda
  <2>2. \A d \in Chunks, m \in Lambdas : lam'[d, m].st # "push" <=> lam[d, m].st # "push"
    BY <2>1
  <2>3. QED
    BY <1>2, <2>2 DEF Released
<1>4. CASE c \in DOMAIN chunk2Ver
  <2>1. Snap' = Snap
    BY <1>1, <1>4, SnapKept
  <2>2. QED
    BY <1>1, <1>2, <1>3, <2>1 DEF Snapshots!vars
<1>5. CASE c \notin DOMAIN chunk2Ver
  <2>1. GetMatNew(c)
    BY <1>5 DEF SendTensors, GetMatFound
  <2>2. View(c)' = Weights
    BY <2>1, GetMatNewInv DEF IInv, Weights
  <2>3. \A d \in DOMAIN chunk2Ver : View(d)' = View(d)
    BY <1>1 DEF KeepsViews
  <2>4. Snap' = [d \in DOMAIN Snap \cup {c} |-> IF d = c THEN Weights ELSE Snap[d]]
    BY <1>1, <1>5, <2>2, <2>3 DEF Snap
  <2>5. c \notin DOMAIN Snap
    BY <1>5 DEF Snap
  <2>6. QED
    BY <1>1, <1>2, <1>3, <2>4, <2>5 DEF Snapshots!Pin
<1>6. QED
  BY <1>4, <1>5

LEMMA UseStep ==
  ASSUME IInv, NEW c \in Chunks, NEW l \in Lambdas,
         FinishForward(c, l) \/ FinishBackward(c, l)
  PROVE  Snapshots!Use(c)
<1>1. UNCHANGED store
  BY DEF FinishForward, FinishBackward
<1>2. Weights' = Weights /\ Snap' = Snap
  BY <1>1 DEF store, Weights, currMat, Snap, View
<1>3. LamType /\ PhaseType /\ LamInv
  BY DEF IInv, ChunkInv
<1>4. /\ lam[c, l].st = "has" /\ phase[c] # "done"
      /\ used' = [used EXCEPT ![c] = @ \cup {lam[c, l].val}]
  BY DEF FinishForward, FinishBackward
<1>5. c \in DOMAIN chunk2Ver /\ lam[c, l].val = View(c)
  BY <1>3, <1>4 DEF LamInv, LamOK
<1>6. c \in DOMAIN Snap /\ Snap[c] = lam[c, l].val
  BY <1>5 DEF Snap
<1>7. c \notin Released
  BY <1>4 DEF Released
<1>8. Released' = Released
  <2>1. CASE FinishForward(c, l)
    <3>1. phase'[c] = "backward" /\ \A d \in Chunks \ {c} : phase'[d] = phase[d]
      BY <1>3, <2>1 DEF FinishForward, PhaseType
    <3>2. \A d \in Chunks \ {c}, m \in Lambdas : lam'[d, m] = lam[d, m]
      BY <1>3, <2>1 DEF FinishForward, LamType
    <3>3. QED
      BY <1>7, <3>1, <3>2 DEF Released
  <2>2. CASE FinishBackward(c, l)
    <3>1. phase'[c] = "done" /\ \A d \in Chunks \ {c} : phase'[d] = phase[d]
      BY <1>3, <2>2 DEF FinishBackward, PhaseType
    <3>2. /\ lam'[c, l].st = "push"
          /\ \A d \in Chunks \ {c}, m \in Lambdas : lam'[d, m] = lam[d, m]
      BY <1>3, <2>2 DEF FinishBackward, LamType, Lambda
    <3>3. QED
      BY <1>7, <3>1, <3>2 DEF Released
  <2>3. QED
    BY <2>1, <2>2
<1>9. used' = [used EXCEPT ![c] = @ \cup {Snap[c]}]
  BY <1>4, <1>6
<1>10. QED
  BY <1>2, <1>6, <1>7, <1>8, <1>9 DEF Snapshots!Use

LEMMA ReleaseStep ==
  ASSUME IInv, NEW c \in Chunks, NEW l \in Lambdas, RecvUpdateTensor(c, l)
  PROVE  Snapshots!Release(c)
<1>1. /\ KeepsViews /\ DOMAIN chunk2Ver' = DOMAIN chunk2Ver \ {c}
      /\ Weights' = Weights
  BY RecvUpdateTensorInv DEF Weights
<1>2. phase' = phase /\ used' = used /\ LamType /\ LamInv
  BY DEF RecvUpdateTensor, env, IInv, ChunkInv
<1>3. c \in DOMAIN chunk2Ver
  BY <1>2 DEF RecvUpdateTensor, LamInv, LamOK
<1>4. \A d \in DOMAIN chunk2Ver \ {c} : View(d)' = View(d)
  BY <1>1 DEF KeepsViews
<1>5. c \in DOMAIN Snap /\ Snap' = [d \in DOMAIN Snap \ {c} |-> Snap[d]]
  BY <1>1, <1>3, <1>4 DEF Snap
<1>6. PICK r : r = [lam[c, l] EXCEPT !.st = "update"]
  OBVIOUS
<1>7. r \in Lambda /\ r.st = "update"
  <2>1. lam[c, l] \in Lambda
    BY <1>2 DEF LamType
  <2>2. QED
    BY <1>6, <2>1 DEF Lambda
<1>8. lam' = [lam EXCEPT ![<<c, l>>] = r] /\ lam[c, l].st = "push"
  BY <1>6 DEF RecvUpdateTensor
<1>9. c \notin Released /\ Released' = Released \cup {c}
  BY <1>2, <1>7, <1>8, ReleasedAdds
<1>10. QED
  BY <1>1, <1>2, <1>5, <1>9 DEF Snapshots!Release

\* The steps that only move one lambda on, or end it.
LEMMA LambdaOnlyStep ==
  ASSUME IInv, NEW c \in Chunks, NEW l \in Lambdas,
         \/ Launch(c, l) \/ Receive(c, l) \/ Refused(c, l)
         \/ LocalUpdate(c, l) \/ Publish(c, l) \/ Fail(c, l)
  PROVE  Snapshots!Abandon(c) \/ UNCHANGED Snapshots!vars
<1>1. UNCHANGED <<store, phase, used>> /\ LamType
  BY DEF Launch, Receive, Refused, LocalUpdate, Publish, Fail, env, IInv, ChunkInv
<1>2. Weights' = Weights /\ Snap' = Snap
  BY <1>1 DEF store, Weights, currMat, Snap, View
<1>3. lam[c, l] \in Lambda /\ NoLambda \in Lambda /\ NoLambda.st = "off"
  BY <1>1 DEF LamType, NoLambda, Lambda
<1>4. CASE lam[c, l].st = "push"
  <2>1. lam' = [lam EXCEPT ![<<c, l>>] = NoLambda]
    BY <1>4 DEF Launch, Receive, Refused, LocalUpdate, Publish, Fail
  <2>2. c \notin Released /\ Released' = Released \cup {c}
    BY <1>1, <1>3, <1>4, <2>1, ReleasedAdds
  <2>3. QED
    BY <1>1, <1>2, <2>2 DEF Snapshots!Abandon
<1>5. CASE lam[c, l].st # "push"
  <2>1. /\ lam'[c, l].st # "push"
        /\ \A d \in Chunks, m \in Lambdas : <<d, m>> # <<c, l>> => lam'[d, m] = lam[d, m]
    <3>1. CASE Launch(c, l)
      BY <1>1, <1>3, <3>1 DEF Launch, LamType, Lambda
    <3>2. CASE Receive(c, l)
      BY <1>1, <1>3, <3>2 DEF Receive, LamType, Lambda
    <3>3. CASE Refused(c, l) \/ Fail(c, l)
      BY <1>1, <1>3, <3>3 DEF Refused, Fail, LamType
    <3>4. CASE LocalUpdate(c, l)
      BY <1>1, <1>3, <3>4 DEF LocalUpdate, LamType, Lambda
    <3>5. CASE Publish(c, l)
      BY <1>1, <1>3, <3>5 DEF Publish, LamType, Lambda
    <3>6. QED
      BY <3>1, <3>2, <3>3, <3>4, <3>5
  <2>2. \A d \in Chunks, m \in Lambdas : lam'[d, m].st # "push" <=> lam[d, m].st # "push"
    BY <1>5, <2>1
  <2>3. Released' = Released
    BY <1>1, <2>2 DEF Released
  <2>4. QED
    BY <1>1, <1>2, <2>3 DEF Snapshots!vars
<1>6. QED
  BY <1>4, <1>5

LEMMA ApplyStep ==
  ASSUME IInv, ReceiverStep \/ \E c \in Chunks, l \in Lambdas : ApplyUpdate(c, l)
  PROVE  \E upd \in SUBSET Grads : Snapshots!Apply(upd)
<1>1. /\ KeepsViews /\ UNCHANGED <<chunk2Ver, phase, used>>
      /\ \E batch \in SUBSET Grads : Weights' = Weights \cup batch
  BY ReceiverInv, ApplyUpdateInv DEF ApplyUpdate, env, Weights
<1>2. Snap' = Snap
  BY <1>1, SnapKept DEF IInv
<1>3. Released' = Released
  <2>1. CASE ReceiverStep
    BY <1>1, <2>1, ReceiverInv DEF Released
  <2>2. CASE \E c \in Chunks, l \in Lambdas : ApplyUpdate(c, l)
    <3>1. PICK c \in Chunks, l \in Lambdas : ApplyUpdate(c, l)
      BY <2>2
    <3>2. LamType /\ NoLambda \in Lambda /\ NoLambda.st # "push"
      BY DEF IInv, ChunkInv, NoLambda, Lambda
    <3>3. lam' = [lam EXCEPT ![<<c, l>>] = NoLambda] /\ lam[c, l].st # "push"
      BY <3>1 DEF ApplyUpdate
    <3>4. QED
      BY <1>1, <3>2, <3>3, ReleasedKept
  <2>3. QED
    BY <2>1, <2>2
<1>4. QED
  BY <1>1, <1>2, <1>3 DEF Snapshots!Apply

LEMMA SnapshotInit == Init => Snapshots!Init
<1> SUFFICES ASSUME Init
             PROVE  Snapshots!Init
  OBVIOUS
<1>1. Weights = {} /\ Snap = [c \in {} |-> {}]
  BY DEF Init, Weights, currMat, Snap
<1>2. Released = {}
  BY DEF Init, Released
<1>3. QED
  BY <1>1, <1>2 DEF Init, Snapshots!Init

LEMMA SnapshotStep ==
  ASSUME IInv, [Next]_vars
  PROVE  [Snapshots!Next]_(Snapshots!vars)
<1>1. CASE \E c \in Chunks, l \in Lambdas : LambdaStep(c, l) \/ Fail(c, l)
  <2>1. PICK c \in Chunks, l \in Lambdas : LambdaStep(c, l) \/ Fail(c, l)
    BY <1>1
  <2>2. CASE SendTensors(c, l)
    BY <2>2, PinStep DEF Snapshots!Next
  <2>3. CASE FinishForward(c, l) \/ FinishBackward(c, l)
    BY <2>3, UseStep DEF Snapshots!Next
  <2>4. CASE RecvUpdateTensor(c, l)
    BY <2>4, ReleaseStep DEF Snapshots!Next
  <2>5. CASE ApplyUpdate(c, l)
    BY <2>5, ApplyStep DEF Snapshots!Next
  <2>6. CASE \/ Launch(c, l) \/ Receive(c, l) \/ Refused(c, l)
             \/ LocalUpdate(c, l) \/ Publish(c, l) \/ Fail(c, l)
    BY <2>6, LambdaOnlyStep DEF Snapshots!Next
  <2>7. QED
    BY <2>1, <2>2, <2>3, <2>4, <2>5, <2>6 DEF LambdaStep
<1>2. CASE ReceiverStep
  BY <1>2, ApplyStep DEF Snapshots!Next
<1>3. CASE UNCHANGED vars
  BY <1>3 DEF vars, store, env, Snapshots!vars, Weights, currMat, Snap, View, Released
<1>4. QED
  BY <1>1, <1>2, <1>3 DEF Next

\* The versioned store with its reference counts implements snapshots: the
\* chunks cannot tell it from a private copy of the weights at first pull.
THEOREM Refinement == Spec => SnapshotSpec
<1>1. Init => Snapshots!Init
  BY SnapshotInit
<1>2. IInv /\ [Next]_vars => [Snapshots!Next]_(Snapshots!vars)
  BY SnapshotStep
<1>3. QED
  BY <1>1, <1>2, Invariance, PTL DEF Spec, SnapshotSpec, Snapshots!Spec

-----------------------------------------------------------------------------
(***************************************************************************)
(* Gradients.  A chunk's gradient is accumulated by the one lambda whose   *)
(* backward result was accepted, which is either on its way (Pushing) or   *)
(* has ended; what is accumulated lies in localUpdMat until tryApplyUpdate *)
(* moves it to the weights, and the receiver handles gradients of others.  *)
(***************************************************************************)
Pushing == {"push", "update"}

Accumulated ==
  {c \in Chunks : phase[c] = "done" /\ \A l \in Lambdas : lam[c, l].st \notin Pushing}

Applied == Chunks \cap heap[currMat]

OnePush ==
  \A c \in Chunks, l, m \in Lambdas :
    lam[c, l].st \in Pushing /\ lam[c, m].st \in Pushing => l = m

Foreign == ghostUpdMat \subseteq Ghosts /\ rcv.upd \subseteq Ghosts /\ rcv.mat \subseteq Ghosts

Conserved ==
  /\ localUpdMat \subseteq Chunks
  /\ localUpdMat \cap Applied = {}
  /\ localUpdMat \cup Applied \subseteq Accumulated
  /\ ~Faulty => localUpdMat \cup Applied = Accumulated

GradInv == OnePush /\ Foreign /\ Conserved

\* The phase of a chunk with a gradient on its way.
LEMMA PushingDone ==
  ASSUME IInv, NEW c \in Chunks, NEW l \in Lambdas, lam[c, l].st \in Pushing
  PROVE  phase[c] = "done" /\ c \notin Accumulated
BY DEF IInv, ChunkInv, LamInv, LamOK, Pushing, Accumulated

\* Steps of a lambda that is not pushing.
LEMMA IdleLambda ==
  ASSUME IInv, OnePush, phase' = phase, NEW c \in Chunks, NEW l \in Lambdas,
         \A d \in Chunks, m \in Lambdas : <<d, m>> # <<c, l>> => lam'[d, m] = lam[d, m],
         lam[c, l].st \notin Pushing, lam'[c, l].st \notin Pushing
  PROVE  Accumulated' = Accumulated /\ OnePush'
<1>1. \A d \in Chunks, m \in Lambdas : lam'[d, m].st \in Pushing <=> lam[d, m].st \in Pushing
  OBVIOUS
<1>2. Accumulated' = Accumulated
  BY <1>1 DEF Accumulated
<1>3. QED
  BY <1>1, <1>2 DEF OnePush

\* The pushing lambda goes on to the accumulation.
LEMMA StillPushing ==
  ASSUME IInv, OnePush, phase' = phase, NEW c \in Chunks, NEW l \in Lambdas,
         \A d \in Chunks, m \in Lambdas : <<d, m>> # <<c, l>> => lam'[d, m] = lam[d, m],
         lam[c, l].st \in Pushing, lam'[c, l].st \in Pushing
  PROVE  Accumulated' = Accumulated /\ OnePush'
<1>1. \A d \in Chunks, m \in Lambdas : lam'[d, m].st \in Pushing <=> lam[d, m].st \in Pushing
  OBVIOUS
<1>2. Accumulated' = Accumulated
  BY <1>1 DEF Accumulated
<1>3. QED
  BY <1>1, <1>2 DEF OnePush

\* The pushing lambda is through, or dead.
LEMMA PushOver ==
  ASSUME IInv, OnePush, phase' = phase, NEW c \in Chunks, NEW l \in Lambdas,
         \A d \in Chunks, m \in Lambdas : <<d, m>> # <<c, l>> => lam'[d, m] = lam[d, m],
         lam[c, l].st \in Pushing, lam'[c, l].st \notin Pushing
  PROVE  Accumulated' = Accumulated \cup {c} /\ OnePush'
<1>1. \A m \in Lambdas : lam'[c, m].st \notin Pushing
  BY DEF OnePush
<1>2. \A d \in Chunks \ {c}, m \in Lambdas : lam'[d, m] = lam[d, m]
  OBVIOUS
<1>3. phase[c] = "done"
  BY PushingDone
<1>4. Accumulated' = Accumulated \cup {c}
  BY <1>1, <1>2, <1>3 DEF Accumulated
<1>5. QED
  BY <1>1, <1>2, <1>4 DEF OnePush

\* What a step that leaves the gradients alone has to show.
LEMMA ConservedKept ==
  ASSUME GradInv, OnePush', UNCHANGED <<rcv, ghostUpdMat, localUpdMat>>,
         heap'[currMat'] = heap[currMat], Accumulated' = Accumulated
  PROVE  GradInv'
<1>1. Applied' = Applied
  BY DEF Applied
<1>2. QED
  BY <1>1 DEF GradInv, Foreign, Conserved

\* tryApplyUpdate moves all local gradients to the weights, or none.
LEMMA TryApplyMoves ==
  ASSUME IInv, Foreign, localUpdMat \subseteq Chunks,
         NEW upd \in SUBSET Ghosts, TryApplyUpdate(upd)
  PROVE  /\ ghostUpdMat' \subseteq Ghosts
         /\ \/ Applied' = Applied /\ localUpdMat' = localUpdMat
            \/ Applied' = Applied \cup localUpdMat /\ localUpdMat' = {}
<1>1. StoreInv /\ ghostUpdMat \subseteq Ghosts /\ upd \in SUBSET Grads
      /\ localUpdMat \in SUBSET Grads /\ localUpdMat \cup ghostUpdMat \in SUBSET Grads
  BY DEF IInv, Foreign, Grads
<1>2. Chunks \cap Ghosts = {}
  BY ConstantsOK
<1>3. CASE NotReady(upd)
  BY <1>1, <1>3 DEF NotReady, store, locals, ghostvars, Applied, currMat
<1>4. CASE ApplySync
  <2>1. heap'[currMat'] = heap[currMat] \cup (localUpdMat \cup ghostUpdMat)
    BY <1>1, <1>4, UpdateVersionInv DEF ApplySync
  <2>2. Applied' = Applied \cup localUpdMat
    BY <1>1, <1>2, <2>1 DEF Applied
  <2>3. QED
    BY <1>4, <2>2 DEF ApplySync
<1>5. CASE ApplyGhost(upd)
  <2>1. heap'[currMat'] = heap[currMat] \cup upd
    BY <1>1, <1>5, UpdateVersionInv DEF ApplyGhost
  <2>2. Applied' = Applied
    BY <1>2, <2>1 DEF Applied
  <2>3. QED
    BY <1>1, <1>5, <2>2 DEF ApplyGhost, locals, ghostvars
<1>6. CASE ApplyLocal(upd)
  <2>1. heap'[currMat'] = heap[currMat] \cup localUpdMat
    BY <1>1, <1>6, UpdateVersionInv DEF ApplyLocal
  <2>2. Applied' = Applied \cup localUpdMat
    BY <2>1 DEF Applied
  <2>3. QED
    BY <1>1, <1>6, <2>2 DEF ApplyLocal, ghostvars
<1>7. QED
  BY <1>3, <1>4, <1>5, <1>6 DEF TryApplyUpdate

\* An update of the weights loses no gradient and applies none twice.
LEMMA MovesConserve ==
  ASSUME Conserved, Accumulated' = Accumulated,
         \/ Applied' = Applied /\ localUpdMat' = localUpdMat
         \/ Applied' = Applied \cup localUpdMat /\ localUpdMat' = {}
  PROVE  Conserved'
BY DEF Conserved

\* The other lambdas stay as they are.
LEMMA OneLambda ==
  ASSUME IInv, NEW c \in Chunks, NEW l \in Lambdas, NEW r, lam' = [lam EXCEPT ![<<c, l>>] = r]
  PROVE  /\ lam'[c, l] = r
         /\ \A d \in Chunks, m \in Lambdas : <<d, m>> # <<c, l>> => lam'[d, m] = lam[d, m]
BY DEF IInv, ChunkInv, LamType

LEMMA LambdaStepConserves ==
  ASSUME IInv, GradInv, NEW c \in Chunks, NEW l \in Lambdas, LambdaStep(c, l) \/ Fail(c, l)
  PROVE  GradInv'
<1>1. lam[c, l] \in Lambda /\ NoLambda \in Lambda /\ NoLambda.st = "off" /\ OnePush /\ LamType
  BY DEF IInv, ChunkInv, LamType, Lambda, NoLambda, GradInv
<1>2. CASE Launch(c, l)
  <2>1. lam'[c, l].st = "on"
        /\ \A d \in Chunks, m \in Lambdas : <<d, m>> # <<c, l>> => lam'[d, m] = lam[d, m]
    BY <1>1, <1>2 DEF Launch, LamType, Lambda
  <2>2. Accumulated' = Accumulated /\ OnePush'
    BY <1>1, <1>2, <2>1, IdleLambda DEF Launch, env, Pushing
  <2>3. QED
    BY <1>2, <2>2, ConservedKept DEF Launch, store, locals, ghostvars, currMat
<1>3. CASE SendTensors(c, l)
  <2>1. lam'[c, l].st = "sent"
        /\ \A d \in Chunks, m \in Lambdas : <<d, m>> # <<c, l>> => lam'[d, m] = lam[d, m]
    BY <1>1, <1>3 DEF SendTensors, LamType, Lambda
  <2>2. Accumulated' = Accumulated /\ OnePush'
    BY <1>1, <1>3, <2>1, IdleLambda DEF SendTensors, env, Pushing
  <2>3. heap'[currMat'] = heap[currMat]
    BY <1>3, SendTensorsInv
  <2>4. QED
    BY <1>3, <2>2, <2>3, ConservedKept DEF SendTensors, locals, ghostvars
<1>4. CASE Receive(c, l)
  <2>1. lam'[c, l].st = "has"
        /\ \A d \in Chunks, m \in Lambdas : <<d, m>> # <<c, l>> => lam'[d, m] = lam[d, m]
    BY <1>1, <1>4 DEF Receive, LamType, Lambda
  <2>2. Accumulated' = Accumulated /\ OnePush'
    BY <1>1, <1>4, <2>1, IdleLambda DEF Receive, env, Pushing
  <2>3. QED
    BY <1>4, <2>2, ConservedKept DEF Receive, store, locals, ghostvars, currMat
<1>5. CASE FinishForward(c, l)
  <2>1. lam'[c, l].st = "off"
        /\ \A d \in Chunks, m \in Lambdas : <<d, m>> # <<c, l>> => lam'[d, m] = lam[d, m]
    BY <1>1, <1>5 DEF FinishForward, LamType
  <2>2. phase[c] = "forward" /\ phase'[c] = "backward"
        /\ \A d \in Chunks \ {c} : phase'[d] = phase[d]
    BY <1>5 DEF FinishForward, IInv, ChunkInv, PhaseType
  <2>3. \A d \in Chunks, m \in Lambdas : lam'[d, m].st \in Pushing <=> lam[d, m].st \in Pushing
    BY <1>5, <2>1 DEF FinishForward, Pushing
  <2>4. Accumulated' = Accumulated /\ OnePush'
    <3>1. \A d \in Chunks : phase'[d] = "done" <=> phase[d] = "done"
      BY <2>2
    <3>2. Accumulated' = Accumulated
      BY <2>3, <3>1 DEF Accumulated
    <3>3. OnePush'
      BY <1>1, <2>3 DEF OnePush
    <3>4. QED
      BY <3>2, <3>3
  <2>5. QED
    BY <1>5, <2>4, ConservedKept DEF FinishForward, store, locals, ghostvars, currMat
<1>6. CASE FinishBackward(c, l)
  <2>1. lam'[c, l].st = "push"
        /\ \A d \in Chunks, m \in Lambdas : <<d, m>> # <<c, l>> => lam'[d, m] = lam[d, m]
    <3>1. PICK r : r = [lam[c, l] EXCEPT !.st = "push"]
      OBVIOUS
    <3>2. r.st = "push"
      BY <1>1, <3>1 DEF Lambda
    <3>3. lam' = [lam EXCEPT ![<<c, l>>] = r]
      BY <1>6, <3>1 DEF FinishBackward
    <3>4. QED
      BY <3>2, <3>3, OneLambda
  <2>2. phase[c] = "backward" /\ phase'[c] = "done"
        /\ \A d \in Chunks \ {c} : phase'[d] = phase[d]
    BY <1>6 DEF FinishBackward, IInv, ChunkInv, PhaseType
  <2>3. \A m \in Lambdas : lam[c, m].st \notin Pushing
    BY <2>2, PushingDone
  <2>4. Accumulated' = Accumulated
    <3>1. c \notin Accumulated /\ c \notin Accumulated'
      BY <2>1, <2>2 DEF Accumulated, Pushing
    <3>2. \A d \in Chunks \ {c} : d \in Accumulated' <=> d \in Accumulated
      BY <2>1, <2>2 DEF Accumulated
    <3>3. QED
      BY <3>1, <3>2 DEF Accumulated
  <2>5. OnePush'
    <3> SUFFICES ASSUME NEW d \in Chunks, NEW k \in Lambdas, NEW m \in Lambdas,
                        lam'[d, k].st \in Pushing, lam'[d, m].st \in Pushing
                 PROVE  k = m
      BY DEF OnePush
    <3>1. CASE d = c
      BY <2>1, <2>3, <3>1
    <3>2. CASE d # c
      BY <1>1, <2>1, <3>2 DEF OnePush
    <3>3. QED
      BY <3>1, <3>2
  <2>6. QED
    BY <1>6, <2>4, <2>5, ConservedKept DEF FinishBackward, store, locals, ghostvars, currMat
<1>7. CASE Refused(c, l)
  <2>1. lam'[c, l].st = "off"
        /\ \A d \in Chunks, m \in Lambdas : <<d, m>> # <<c, l>> => lam'[d, m] = lam[d, m]
    BY <1>1, <1>7 DEF Refused, LamType
  <2>2. Accumulated' = Accumulated /\ OnePush'
    BY <1>1, <1>7, <2>1, IdleLambda DEF Refused, env, Pushing
  <2>3. QED
    BY <1>7, <2>2, ConservedKept DEF Refused, store, locals, ghostvars, currMat
<1>8. CASE RecvUpdateTensor(c, l)
  <2>1. lam'[c, l].st = "update"
        /\ \A d \in Chunks, m \in Lambdas : <<d, m>> # <<c, l>> => lam'[d, m] = lam[d, m]
    <3>1. PICK r : r = [lam[c, l] EXCEPT !.st = "update"]
      OBVIOUS
    <3>2. r.st = "update"
      BY <1>1, <3>1 DEF Lambda
    <3>3. lam' = [lam EXCEPT ![<<c, l>>] = r]
      BY <1>8, <3>1 DEF RecvUpdateTensor
    <3>4. QED
      BY <3>2, <3>3, OneLambda
  <2>2. Accumulated' = Accumulated /\ OnePush'
    BY <1>1, <1>8, <2>1, StillPushing DEF RecvUpdateTensor, env, Pushing
  <2>3. heap'[currMat'] = heap[currMat]
    BY <1>8, RecvUpdateTensorInv
  <2>4. QED
    BY <1>8, <2>2, <2>3, ConservedKept DEF RecvUpdateTensor, locals, ghostvars
<1>9. CASE LocalUpdate(c, l)
  <2>1. lam'[c, l].st \in {"publish", "off"}
        /\ \A d \in Chunks, m \in Lambdas : <<d, m>> # <<c, l>> => lam'[d, m] = lam[d, m]
    <3>1. PICK r : r = IF localUpdCnt + 1 = LocalUpdTot
                         THEN [lam[c, l] EXCEPT !.st = "publish"] ELSE NoLambda
      OBVIOUS
    <3>2. r.st \in {"publish", "off"}
      BY <1>1, <3>1 DEF Lambda
    <3>3. lam' = [lam EXCEPT ![<<c, l>>] = r]
      BY <1>9, <3>1 DEF LocalUpdate
    <3>4. QED
      BY <3>2, <3>3, OneLambda
  <2>2. lam[c, l].st \in Pushing /\ lam'[c, l].st \notin Pushing
    BY <1>9, <2>1 DEF LocalUpdate, Pushing
  <2>3. Accumulated' = Accumulated \cup {c} /\ OnePush'
    BY <1>1, <1>9, <2>1, <2>2, PushOver DEF LocalUpdate, env
  <2>4. c \notin Accumulated
    BY <2>2, PushingDone
  <2>5. Applied' = Applied /\ localUpdMat' = localUpdMat \cup {c}
    BY <1>9 DEF LocalUpdate, store, Applied, currMat
  <2>6. Conserved'
    BY <2>3, <2>4, <2>5 DEF GradInv, Conserved
  <2>7. Foreign'
    BY <1>9 DEF GradInv, Foreign, LocalUpdate, ghostvars
  <2>8. QED
    BY <2>3, <2>6, <2>7 DEF GradInv
<1>10. CASE Publish(c, l)
  <2>1. lam'[c, l].st = "apply"
        /\ \A d \in Chunks, m \in Lambdas : <<d, m>> # <<c, l>> => lam'[d, m] = lam[d, m]
    <3>1. PICK r : r = [lam[c, l] EXCEPT !.st = "apply"]
      OBVIOUS
    <3>2. r.st = "apply"
      BY <1>1, <3>1 DEF Lambda
    <3>3. lam' = [lam EXCEPT ![<<c, l>>] = r]
      BY <1>10, <3>1 DEF Publish
    <3>4. QED
      BY <3>2, <3>3, OneLambda
  <2>2. Accumulated' = Accumulated /\ OnePush'
    BY <1>1, <1>10, <2>1, IdleLambda DEF Publish, env, Pushing
  <2>3. QED
    BY <1>10, <2>2, ConservedKept DEF Publish, store, locals, ghostvars, currMat
<1>11. CASE ApplyUpdate(c, l)
  <2>1. lam'[c, l].st = "off"
        /\ \A d \in Chunks, m \in Lambdas : <<d, m>> # <<c, l>> => lam'[d, m] = lam[d, m]
    BY <1>1, <1>11 DEF ApplyUpdate, LamType
  <2>2. Accumulated' = Accumulated /\ OnePush'
    BY <1>1, <1>11, <2>1, IdleLambda DEF ApplyUpdate, env, Pushing
  <2>3. /\ ghostUpdMat' \subseteq Ghosts
        /\ \/ Applied' = Applied /\ localUpdMat' = localUpdMat
           \/ Applied' = Applied \cup localUpdMat /\ localUpdMat' = {}
    <3>1. CASE TryApplyUpdateFake
      BY <3>1 DEF TryApplyUpdateFake, store, Applied, currMat, GradInv, Foreign
    <3>2. CASE TryApplyUpdate({})
      BY <3>2, TryApplyMoves DEF GradInv, Conserved
    <3>3. QED
      BY <1>11, <3>1, <3>2 DEF ApplyUpdate
  <2>4. Conserved'
    BY <2>2, <2>3, MovesConserve DEF GradInv
  <2>5. QED
    BY <1>11, <2>2, <2>3, <2>4 DEF ApplyUpdate, GradInv, Foreign
<1>12. CASE Fail(c, l)
  <2>1. lam'[c, l].st = "off"
        /\ \A d \in Chunks, m \in Lambdas : <<d, m>> # <<c, l>> => lam'[d, m] = lam[d, m]
    BY <1>1, <1>12 DEF Fail, LamType
  <2>2. CASE lam[c, l].st \notin Pushing
    <3>1. Accumulated' = Accumulated /\ OnePush'
      BY <1>1, <1>12, <2>1, <2>2, IdleLambda DEF Fail, env, Pushing
    <3>2. QED
      BY <1>12, <3>1, ConservedKept DEF Fail, store, locals, ghostvars, currMat
  <2>3. CASE lam[c, l].st \in Pushing
    <3>1. Accumulated' = Accumulated \cup {c} /\ OnePush'
      BY <1>1, <1>12, <2>1, <2>3, PushOver DEF Fail, env, Pushing
    <3>2. Applied' = Applied /\ localUpdMat' = localUpdMat /\ Faulty
      BY <1>12 DEF Fail, store, locals, Applied, currMat
    <3>3. Conserved'
      BY <3>1, <3>2 DEF GradInv, Conserved
    <3>4. Foreign'
      BY <1>12 DEF GradInv, Foreign, Fail, ghostvars
    <3>5. QED
      BY <3>1, <3>3, <3>4 DEF GradInv
  <2>4. QED
    BY <2>2, <2>3
<1>13. QED
  BY <1>2, <1>3, <1>4, <1>5, <1>6, <1>7, <1>8, <1>9, <1>10, <1>11, <1>12 DEF LambdaStep

LEMMA ReceiverConserves ==
  ASSUME IInv, GradInv, ReceiverStep
  PROVE  GradInv'
<1>1. UNCHANGED <<lam, phase>>
  BY DEF ReceiverStep, RecvGhost, GhostAdd, GhostReadCnt, GhostWriteCnt, RecvApply, env
<1>2. Accumulated' = Accumulated /\ OnePush'
  BY <1>1 DEF Accumulated, OnePush, GradInv
<1>3. /\ rcv \in [pc : {"idle", "add", "count", "inc", "apply"},
                  upd : SUBSET Grads, mat : SUBSET Grads, cnt : Nat]
      /\ Foreign /\ Listening.upd = {} /\ Listening.mat = {}
  BY DEF IInv, UpdType, GradInv, Listening
<1>4. Foreign' /\ (\/ Applied' = Applied /\ localUpdMat' = localUpdMat
                   \/ Applied' = Applied \cup localUpdMat /\ localUpdMat' = {})
  <2>1. CASE \E g \in Ghosts : RecvGhost(g)
    <3>1. PICK g \in Ghosts : RecvGhost(g)
      BY <2>1
    <3>2. rcv'.upd = {g} /\ rcv'.mat \subseteq Ghosts
      BY <1>3, <3>1 DEF RecvGhost, Foreign
    <3>3. QED
      BY <1>3, <3>1, <3>2 DEF RecvGhost, Foreign, store, locals, ghostvars, Applied, currMat
  <2>2. CASE GhostAdd
    <3>1. rcv'.upd = rcv.upd /\ rcv'.mat = rcv.mat
      BY <1>3, <2>2 DEF GhostAdd
    <3>2. QED
      BY <1>3, <2>2, <3>1 DEF GhostAdd, Foreign, store, locals, Applied, currMat
  <2>3. CASE GhostReadCnt
    <3>1. rcv'.upd = rcv.upd /\ rcv'.mat = rcv.mat
      BY <1>3, <2>3 DEF GhostReadCnt
    <3>2. QED
      BY <1>3, <2>3, <3>1 DEF GhostReadCnt, Foreign, store, locals, ghostvars, Applied, currMat
  <2>4. CASE GhostWriteCnt
    <3>1. rcv'.upd = {} /\ rcv'.mat = {}
      BY <2>4 DEF GhostWriteCnt, Listening
    <3>2. QED
      BY <1>3, <2>4, <3>1 DEF GhostWriteCnt, Foreign, store, locals, Applied, currMat
  <2>5. CASE RecvApply
    <3>1. localUpdMat \subseteq Chunks /\ rcv.upd \in SUBSET Ghosts /\ TryApplyUpdate(rcv.upd)
      BY <1>3, <2>5 DEF GradInv, Conserved, Foreign, RecvApply
    <3>2. QED
      BY <1>3, <2>5, <3>1, TryApplyMoves DEF RecvApply, Foreign
  <2>6. QED
    BY <2>1, <2>2, <2>3, <2>4, <2>5 DEF ReceiverStep
<1>5. Conserved'
  BY <1>2, <1>4, MovesConserve DEF GradInv
<1>6. QED
  BY <1>2, <1>4, <1>5 DEF GradInv

LEMMA InitConserves == Init => GradInv
<1> SUFFICES ASSUME Init
             PROVE  GradInv
  OBVIOUS
<1>1. Accumulated = {} /\ Applied = {}
  BY DEF Init, Accumulated, Applied, currMat
<1>2. OnePush
  BY DEF Init, OnePush, NoLambda, Pushing
<1>3. Foreign /\ localUpdMat = {}
  BY DEF Init, Foreign, Listening
<1>4. QED
  BY <1>1, <1>2, <1>3 DEF GradInv, Conserved

LEMMA NextConserves ==
  ASSUME IInv, GradInv, [Next]_vars
  PROVE  GradInv'
<1>1. CASE \E c \in Chunks, l \in Lambdas : LambdaStep(c, l) \/ Fail(c, l)
  BY <1>1, LambdaStepConserves
<1>2. CASE ReceiverStep
  BY <1>2, ReceiverConserves
<1>3. CASE UNCHANGED vars
  BY <1>3 DEF vars, store, locals, ghostvars, env, GradInv, OnePush, Foreign, Conserved,
              Accumulated, Applied, currMat
<1>4. QED
  BY <1>1, <1>2, <1>3 DEF Next

\* The gradient of every chunk that a worker accumulated is in localUpdMat or
\* in the weights, in one of them only, and none is there before its chunk is
\* through; when no lambda dies, none is missing (localUpdate, tryApplyUpdate,
\* tryApplyUpdateFake, for any rounds, modes and interleavings).
THEOREM NoGradientLost == Spec => []GradientsConserved
<1>1. Init => GradInv
  BY InitConserves
<1>2. IInv /\ GradInv /\ [Next]_vars => GradInv'
  BY NextConserves
<1>3. GradInv => GradientsConserved
  BY DEF GradInv, Conserved, GradientsConserved, Accumulated, Applied, Pushing
<1>4. QED
  BY <1>1, <1>2, <1>3, Invariance, PTL DEF Spec

=============================================================================
