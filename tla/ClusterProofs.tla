----------------------------- MODULE ClusterProofs -----------------------------
(***************************************************************************)
(* For any number of graph servers: the two flushes of the data channels   *)
(* are barriers, the handshake leaves nothing behind on the control        *)
(* sockets, and the master's count of the workers never wraps around.      *)
(***************************************************************************)
EXTENDS Cluster, FiniteSetTheorems, SequenceTheorems, WellFoundedInduction, TLAPS

USE DEF At, Go

LEMMA Nodes ==
  /\ numNodes \in Nat /\ numNodes >= 2
  /\ IsFiniteSet(Node) /\ Cardinality(Node) = numNodes
  /\ Node \subseteq Int /\ Master \in Node
<1>1. numNodes \in Nat /\ numNodes >= 2
  BY ClusterOK
<1>2. IsFiniteSet(0 .. numNodes - 1) /\ Cardinality(0 .. numNodes - 1) = numNodes
  BY <1>1, FS_Interval
<1> QED BY <1>1, <1>2 DEF Node, Master

-----------------------------------------------------------------------------
(* The invariant.                                                          *)

\* How many data flushes a node has begun when it is at stage s, and whether it is
\* in one.
FlushCount(s) ==
  IF s \in {"down", "polls", "sleeps", "done", "waits", "ready", "hello"} THEN 0
  ELSE IF s \in {"lastdata", "closed"} THEN 2 ELSE 1
InFlush(s) == s \in {"data", "lastdata"}

\* The data flushes that a node has left, and how many nodes have begun their k-th.
Left(n) == IF stage[n] \in {"data", "lastdata"} THEN flush[n] - 1 ELSE flush[n]
Begun(k) == Cardinality({m \in Node : flush[m] >= k})

Types ==
  /\ stage \in [Node -> Stages] /\ flush \in [Node -> Nat] /\ marks \in [Node -> Nat]

Stage == \A n \in Node : flush[n] = FlushCount(stage[n])

\* A node has got a mark of every flush that was begun; it takes numNodes of them to
\* leave a flush.
Marks ==
  \A n \in Node :
    /\ Left(n) = 0 => marks[n] = Begun(1) + Begun(2)
    /\ Left(n) = 1 => marks[n] + numNodes = Begun(1) + Begun(2)
    /\ Left(n) = 2 => marks[n] + numNodes + numNodes = Begun(1) + Begun(2)

\* What a node has left, everybody has begun.
Together == \A n \in Node, m \in Node : flush[m] >= Left(n)

IInv == Types /\ Stage /\ Marks /\ Together

LEMMA BegunBounds ==
  ASSUME Types, NEW k
  PROVE  /\ Begun(k) \in Nat /\ Begun(k) <= numNodes
         /\ Begun(k) = numNodes => \A m \in Node : flush[m] >= k
         /\ (\A m \in Node : flush[m] >= k) => Begun(k) = numNodes
<1> DEFINE S == {m \in Node : flush[m] >= k}
<1>1. S \in SUBSET Node
  OBVIOUS
<1>2. IsFiniteSet(S) /\ Cardinality(S) <= Cardinality(Node)
      /\ (Cardinality(Node) = Cardinality(S) => Node = S)
  BY <1>1, Nodes, FS_Subset
<1>3. Cardinality(S) \in Nat
  BY <1>2, FS_CardinalityType
<1>4. Begun(k) = Cardinality(S)
  BY DEF Begun
<1>5. (\A m \in Node : flush[m] >= k) => S = Node
  OBVIOUS
<1> QED BY <1>2, <1>3, <1>4, <1>5, Nodes

-----------------------------------------------------------------------------
(* Steps that are no flush of data.                                        *)

Quiet(n) ==
  /\ flush' = flush /\ marks' = marks
  /\ \E s \in Stages : /\ stage' = [stage EXCEPT ![n] = s]
                       /\ FlushCount(s) = FlushCount(stage[n])
                       /\ InFlush(s) <=> InFlush(stage[n])

LEMMA QuietSteps ==
  ASSUME Types, NEW n \in Node,
         \/ Manager(n) \/ Hello(n) \/ FlushControl(n) \/ FlushedControl(n) \/ Runs(n)
  PROVE  Quiet(n)
<1> USE DEF Types, Quiet, Stages, FlushCount, InFlush
<1>0. stage = [stage EXCEPT ![n] = stage[n]] /\ stage[n] \in Stages
  OBVIOUS
<1>1. CASE Start(n)
  BY <1>1 DEF Start, flushvars
<1>2. CASE Answer(n)
  BY <1>2 DEF Answer, flushvars
<1>3. CASE n = Master /\ Poll
  BY <1>3 DEF Poll, flushvars
<1>4. CASE n = Master /\ Drain
  BY <1>4 DEF Drain, flushvars
<1>5. CASE n = Master /\ InitDone
  BY <1>5 DEF InitDone, flushvars
<1>6. ASSUME NEW m \in Node, Await(n, m) PROVE Quiet(n)
  <2>1. CASE UNCHANGED stage
    BY <1>0, <1>6, <2>1 DEF Await, flushvars
  <2>2. CASE Go(n, "hello") /\ At(n, "ready")
    BY <1>6, <2>2 DEF Await, flushvars
  <2> QED BY <1>6, <2>1, <2>2 DEF Await
<1>7. ASSUME NEW m \in Node, IAmUp(n, m) \/ Turn(n, m) PROVE Quiet(n)
  BY <1>0, <1>7 DEF IAmUp, Turn, flushvars
<1>8. CASE FlushControl(n)
  BY <1>8 DEF FlushControl, flushvars
<1>9. CASE FlushedControl(n)
  BY <1>9 DEF FlushedControl
<1>10. CASE Call(n)
  BY <1>0, <1>10 DEF Call, flushvars
<1>11. CASE Destroy(n)
  BY <1>11 DEF Destroy, Up
<1> QED BY <1>1, <1>2, <1>3, <1>4, <1>5, <1>6, <1>7, <1>8, <1>9, <1>10, <1>11
        DEF Manager, Hello, Runs

LEMMA QuietInv ==
  ASSUME IInv, NEW n \in Node, Quiet(n)
  PROVE  IInv' /\ \A m \in Node : Left(m)' = Left(m)
<1> USE DEF IInv
<1>1. Types'
  BY DEF Types, Quiet
<1>2. \A m \in Node : FlushCount(stage'[m]) = FlushCount(stage[m]) /\ (InFlush(stage'[m]) <=> InFlush(stage[m]))
  BY DEF Types, Quiet
<1>3. \A m \in Node : Left(m)' = Left(m)
  BY <1>2 DEF Left, InFlush, Quiet
<1>4. \A k : Begun(k)' = Begun(k)
  BY DEF Begun, Quiet
<1>5. Stage'
  BY <1>2 DEF Stage, Quiet
<1>6. Marks'
  BY <1>3, <1>4 DEF Marks, Quiet
<1>7. Together'
  BY <1>3 DEF Together, Quiet
<1> QED BY <1>1, <1>3, <1>5, <1>6, <1>7

-----------------------------------------------------------------------------
(* The two steps of a flush of data.                                       *)

LEMMA FlushDataStep ==
  ASSUME IInv, NEW n \in Node, FlushData(n)
  PROVE  /\ IInv'
         /\ flush' = [flush EXCEPT ![n] = @ + 1]
         /\ Left(n) = flush[n]
         /\ \A m \in Node : Left(m)' = Left(m)
<1> USE DEF IInv
<1>1. /\ flush' = [flush EXCEPT ![n] = @ + 1]
      /\ marks' = [m \in Node |-> marks[m] + 1]
      /\ \/ stage[n] = "hello" /\ stage' = [stage EXCEPT ![n] = "data"] /\ flush[n] = 0
         \/ stage[n] = "lastflush" /\ stage' = [stage EXCEPT ![n] = "lastdata"] /\ flush[n] = 1
  BY DEF FlushData, Stage, FlushCount
<1>2. Types'
  BY <1>1 DEF Types, Stages
<1>3. Left(n) = flush[n] /\ \A m \in Node : Left(m)' = Left(m)
  BY <1>1 DEF Types, Left
<1>4. Stage'
  BY <1>1 DEF Stage, Types, FlushCount
<1>5. Begun(1)' + Begun(2)' = Begun(1) + Begun(2) + 1
  <2> DEFINE S(k) == {m \in Node : flush[m] >= k}
             j == flush[n] + 1
  <2>1. j \in {1, 2}
    BY <1>1
  <2>2. \A k \in {1, 2} : {m \in Node : flush'[m] >= k} = IF k = j THEN S(k) \cup {n} ELSE S(k)
    BY <1>1, <2>1 DEF Types
  <2>3. n \notin S(j)
    BY DEF Types
  <2>4. IsFiniteSet(S(j))
    BY Nodes, FS_Subset
  <2>5. Cardinality(S(j) \cup {n}) = Cardinality(S(j)) + 1
    BY <2>3, <2>4, FS_AddElement
  <2>6. \A k \in {1, 2} : Begun(k)' = IF k = j THEN Begun(k) + 1 ELSE Begun(k)
    BY <2>2, <2>5 DEF Begun
  <2> HIDE DEF j
  <2>7. Begun(1) \in Nat /\ Begun(2) \in Nat
    BY BegunBounds
  <2> QED BY <2>1, <2>6, <2>7
<1>6. Begun(1) \in Nat /\ Begun(2) \in Nat
  BY BegunBounds
<1>7. Marks'
  <2> SUFFICES ASSUME NEW m \in Node
               PROVE  /\ Left(m) = 0 => marks[m] + 1 = Begun(1)' + Begun(2)'
                      /\ Left(m) = 1 => marks[m] + 1 + numNodes = Begun(1)' + Begun(2)'
                      /\ Left(m) = 2 => marks[m] + 1 + numNodes + numNodes = Begun(1)' + Begun(2)'
    BY <1>1, <1>3 DEF Marks
  <2>1. marks[m] \in Nat
    BY DEF Types
  <2> QED BY <1>5, <1>6, <2>1, Nodes DEF Marks
<1>8. Together'
  <2> SUFFICES ASSUME NEW m \in Node, NEW p \in Node PROVE flush'[p] >= Left(m)
    BY <1>3 DEF Together
  <2>1. flush[p] >= Left(m) /\ flush[p] \in Nat /\ Left(m) \in Int
    BY DEF Together, Types, Left
  <2>2. flush'[p] = flush[p] \/ flush'[p] = flush[p] + 1
    BY <1>1 DEF Types
  <2> QED BY <2>1, <2>2
<1> QED BY <1>1, <1>2, <1>3, <1>4, <1>7, <1>8

\* The step that matters: a node that has its numNodes marks leaves only what all
\* have begun.  In the first flush marks of the second may be among them, but whoever
\* has begun the second has left the first, so that nobody is missing.
LEMMA FlushedDataStep ==
  ASSUME IInv, NEW n \in Node, FlushedData(n)
  PROVE  /\ IInv'
         /\ flush' = flush
         /\ Left(n) # flush[n]
         /\ \A m \in Node : flush[m] >= flush[n]
         /\ \A m \in Node : Left(m)' = IF m = n THEN Left(n) + 1 ELSE Left(m)
<1> USE DEF IInv
<1>1. /\ flush' = flush
      /\ marks[n] >= numNodes
      /\ marks' = [marks EXCEPT ![n] = @ - numNodes]
      /\ \/ stage[n] = "data" /\ stage' = [stage EXCEPT ![n] = "flush"] /\ flush[n] = 1
         \/ stage[n] = "lastdata" /\ stage' = [stage EXCEPT ![n] = "closed"] /\ flush[n] = 2
  BY DEF FlushedData, Stage, FlushCount
<1>2. Types'
  <2>1. marks[n] - numNodes \in Nat
    BY <1>1, Nodes DEF Types
  <2> QED BY <1>1, <2>1 DEF Types, Stages
<1>3. Left(n) = flush[n] - 1 /\ \A m \in Node : Left(m)' = IF m = n THEN Left(n) + 1 ELSE Left(m)
  BY <1>1 DEF Types, Left
<1>4. Stage'
  BY <1>1 DEF Stage, Types, FlushCount
<1>5. Begun(1) \in Nat /\ Begun(2) \in Nat /\ Begun(1) <= numNodes /\ Begun(2) <= numNodes
  BY BegunBounds
<1>6. \A m \in Node : flush[m] >= flush[n]
  <2>1. CASE flush[n] = 1
    <3>1. marks[n] = Begun(1) + Begun(2)
      BY <1>3, <2>1 DEF Marks
    <3>2. CASE Begun(2) = 0
      <4>1. Begun(1) = numNodes
        BY <1>1, <1>5, <3>1, <3>2, Nodes
      <4> QED BY <2>1, <4>1, BegunBounds
    <3>3. CASE Begun(2) # 0
      <4>1. PICK m \in Node : flush[m] >= 2
        <5> SUFFICES ASSUME {m \in Node : flush[m] >= 2} = {} PROVE Begun(2) = 0
          BY <3>3
        <5> QED BY FS_EmptySet DEF Begun
      <4>2. flush[m] <= 2
        BY DEF Stage, FlushCount
      <4>3. Left(m) >= 1
        BY <4>1, <4>2 DEF Left, Types
      <4>4. \A p \in Node : flush[p] \in Nat /\ flush[p] >= Left(m) /\ Left(m) \in Int
        BY DEF Together, Types, Left
      <4> QED BY <2>1, <4>3, <4>4
    <3> QED BY <3>2, <3>3
  <2>2. CASE flush[n] = 2
    <3>1. marks[n] + numNodes = Begun(1) + Begun(2)
      BY <1>3, <2>2 DEF Marks
    <3>2. marks[n] \in Nat
      BY DEF Types
    <3>3. Begun(2) = numNodes
      BY <1>1, <1>5, <3>1, <3>2, Nodes
    <3> QED BY <2>2, <3>3, BegunBounds
  <2> QED BY <1>1, <2>1, <2>2
<1>7. \A k : Begun(k)' = Begun(k)
  BY <1>1 DEF Begun
<1>8. Marks'
  <2> SUFFICES ASSUME NEW m \in Node
               PROVE  /\ Left(m)' = 0 => marks'[m] = Begun(1) + Begun(2)
                      /\ Left(m)' = 1 => marks'[m] + numNodes = Begun(1) + Begun(2)
                      /\ Left(m)' = 2 => marks'[m] + numNodes + numNodes = Begun(1) + Begun(2)
    BY <1>7 DEF Marks
  <2>1. CASE m # n
    <3>1. Left(m)' = Left(m) /\ marks'[m] = marks[m]
      BY <1>1, <1>3, <2>1 DEF Types
    <3> QED BY <3>1 DEF Marks
  <2>2. CASE m = n
    <3>1. Left(n)' = flush[n] /\ Left(n) = flush[n] - 1 /\ flush[n] \in {1, 2}
      BY <1>1, <1>3
    <3>2. marks'[n] = marks[n] - numNodes /\ marks[n] \in Nat
      BY <1>1 DEF Types
    <3>3. CASE flush[n] = 1
      <4>1. marks[n] = Begun(1) + Begun(2)
        BY <3>1, <3>3 DEF Marks
      <4> QED BY <2>2, <3>1, <3>2, <3>3, <4>1, <1>5, Nodes
    <3>4. CASE flush[n] = 2
      <4>1. marks[n] + numNodes = Begun(1) + Begun(2)
        BY <3>1, <3>4 DEF Marks
      <4> QED BY <2>2, <3>1, <3>2, <3>4, <4>1, <1>5, Nodes
    <3> QED BY <3>1, <3>3, <3>4
  <2> QED BY <2>1, <2>2
<1>9. Together'
  <2> SUFFICES ASSUME NEW m \in Node, NEW p \in Node PROVE flush[p] >= Left(m)'
    BY <1>1 DEF Together
  <2>1. CASE m = n
    <3>1. Left(m)' = flush[n]
      BY <1>1, <1>3, <2>1
    <3> QED BY <1>6, <3>1
  <2>2. CASE m # n
    <3>1. Left(m)' = Left(m)
      BY <1>3, <2>2
    <3> QED BY <3>1 DEF Together
  <2> QED BY <2>1, <2>2
<1>10. Left(n) # flush[n]
  BY <1>1, <1>3
<1> QED BY <1>1, <1>2, <1>3, <1>4, <1>6, <1>8, <1>9, <1>10

-----------------------------------------------------------------------------
LEMMA InitInv ==
  ASSUME Init
  PROVE  IInv /\ \A n \in Node : flush[n] = 0 /\ Left(n) = 0
<1>1. /\ stage = [n \in Node |-> "down"]
      /\ flush = [n \in Node |-> 0] /\ marks = [n \in Node |-> 0]
  BY DEF Init
<1>2. Types /\ Stage /\ \A n \in Node : flush[n] = 0 /\ Left(n) = 0
  BY <1>1 DEF Types, Stages, Stage, FlushCount, Left
<1>3. {m \in Node : flush[m] >= 1} = {} /\ {m \in Node : flush[m] >= 2} = {}
  BY <1>2
<1>4. Begun(1) = 0 /\ Begun(2) = 0
  BY <1>3, FS_EmptySet DEF Begun
<1>5. Marks /\ Together
  BY <1>1, <1>2, <1>4 DEF Marks, Together
<1> QED BY <1>2, <1>5 DEF IInv

LEMMA StepInv ==
  ASSUME IInv, [Next]_vars
  PROVE  IInv'
<1>1. CASE UNCHANGED vars
  <2>1. stage' = stage /\ flush' = flush /\ marks' = marks
    BY <1>1 DEF vars, flushvars
  <2> QED BY <2>1 DEF IInv, Types, Stage, Marks, Together, Left, Begun
<1>2. ASSUME NEW n \in Node, Step(n) PROVE IInv'
  <2>1. CASE FlushData(n)
    BY <2>1, FlushDataStep
  <2>2. CASE FlushedData(n)
    BY <2>2, FlushedDataStep
  <2>3. CASE \/ Manager(n) \/ Hello(n) \/ FlushControl(n) \/ FlushedControl(n) \/ Runs(n)
    <3>1. Quiet(n)
      BY <2>3, QuietSteps DEF IInv
    <3> QED BY <3>1, QuietInv
  <2> QED BY <1>2, <2>1, <2>2, <2>3 DEF Step, Flushes
<1> QED BY <1>1, <1>2 DEF Next

\* The marks of the two flushes are counted together and nobody looks whose they are:
\* still each node's count is that of the flushes begun less those it has left.
THEOREM FlushInvariance == Spec => []IInv
<1>1. Init => IInv
  BY InitInv
<1>2. IInv /\ [Next]_vars => IInv'
  BY StepInv
<1> QED BY <1>1, <1>2, PTL DEF Spec

LEMMA StepRefines ==
  ASSUME IInv, [Next]_vars
  PROVE  [F!Next]_<<flush, [n \in Node |-> IF stage[n] \in {"data", "lastdata"} THEN flush[n] - 1 ELSE flush[n]]>>
<1> DEFINE left == [n \in Node |-> IF stage[n] \in {"data", "lastdata"} THEN flush[n] - 1 ELSE flush[n]]
<1>0. left = [n \in Node |-> Left(n)] /\ left' = [n \in Node |-> Left(n)']
  BY DEF Left
<1>1. CASE UNCHANGED vars
  BY <1>1 DEF vars, flushvars
<1>2. ASSUME NEW n \in Node, Step(n) PROVE [F!Next]_<<flush, left>>
  <2>1. CASE FlushData(n)
    <3>1. F!Enter(n)
      BY <2>1, <1>0, FlushDataStep DEF F!Enter
    <3> QED BY <3>1 DEF F!Next
  <2>2. CASE FlushedData(n)
    <3>1. /\ left[n] # flush[n] /\ flush' = flush
          /\ \A m \in Node : flush[m] >= flush[n]
      BY <2>2, <1>0, FlushedDataStep
    <3>2. \A m \in Node : Left(m)' = IF m = n THEN Left(n) + 1 ELSE Left(m)
      BY <2>2, FlushedDataStep
    <3> HIDE DEF left
    <3>3. left' = [left EXCEPT ![n] = @ + 1]
      <4>1. left' = [p \in Node |-> IF p = n THEN Left(n) + 1 ELSE Left(p)]
        BY <1>0, <3>2
      <4> QED BY <1>0, <4>1
    <3>4. F!Leave(n)
      BY <3>1, <3>3 DEF F!Leave, left
    <3> QED BY <3>4 DEF F!Next
  <2>3. CASE \/ Manager(n) \/ Hello(n) \/ FlushControl(n) \/ FlushedControl(n) \/ Runs(n)
    <3>1. Quiet(n)
      BY <2>3, QuietSteps DEF IInv
    <3>2. \A m \in Node : Left(m)' = Left(m)
      BY <3>1, QuietInv
    <3> QED BY <3>1, <3>2, <1>0 DEF Quiet
  <2> QED BY <1>2, <2>1, <2>2, <2>3 DEF Step, Flushes
<1> QED BY <1>1, <1>2 DEF Next

\* CommManager::flushData, at the start and at the end, is a barrier for any number
\* of graph servers, whatever the order in which they come up.
THEOREM FlushIsBarrier == Spec => FlushSpec
<1>1. Init => F!Init
  <2> SUFFICES ASSUME Init PROVE F!Init
    OBVIOUS
  <2>1. stage = [n \in Node |-> "down"] /\ flush = [n \in Node |-> 0]
    BY DEF Init
  <2> QED BY <2>1 DEF F!Init
<1>2. IInv /\ [Next]_vars =>
        [F!Next]_<<flush, [n \in Node |-> IF stage[n] \in {"data", "lastdata"} THEN flush[n] - 1 ELSE flush[n]]>>
  BY StepRefines
<1> QED BY <1>1, <1>2, FlushInvariance, PTL DEF Spec, FlushSpec, F!Spec

-----------------------------------------------------------------------------
(* Control sockets: sequences that end in u marks and have no other.       *)

Ctl == {"IAMUP", "ISEEYOUUP", "CTRLNONE"}

Tailed(q, u) ==
  /\ u \in Nat /\ u <= Len(q)
  /\ \A i \in 1 .. Len(q) : q[i] = "CTRLNONE" <=> i > Len(q) - u

LEMMA TailedConcat ==
  ASSUME NEW q \in Seq(Ctl), NEW a \in Seq(Ctl), Tailed(q, 0),
         \A i \in 1 .. Len(a) : a[i] # "CTRLNONE"
  PROVE  Tailed(q \o a, 0)
<1>1. /\ Len(q) \in Nat /\ Len(a) \in Nat /\ Len(q \o a) = Len(q) + Len(a)
      /\ \A i \in 1 .. Len(q) + Len(a) : (q \o a)[i] = IF i <= Len(q) THEN q[i] ELSE a[i - Len(q)]
  BY ConcatProperties, LenProperties
<1>2. ASSUME NEW i \in 1 .. Len(q) + Len(a) PROVE (q \o a)[i] # "CTRLNONE"
  <2>1. CASE i <= Len(q)
    BY <1>1, <2>1 DEF Tailed
  <2>2. CASE i > Len(q)
    <3>1. i - Len(q) \in 1 .. Len(a)
      BY <1>1, <2>2
    <3> QED BY <1>1, <2>2, <3>1
  <2> QED BY <1>1, <2>1, <2>2
<1> QED BY <1>1, <1>2 DEF Tailed

LEMMA TailedMark ==
  ASSUME NEW q \in Seq(Ctl), NEW u, Tailed(q, u)
  PROVE  /\ Tailed(q \o <<"CTRLNONE">>, u + 1)
         /\ Len(q \o <<"CTRLNONE">>) = Len(q) + 1
<1>1. <<"CTRLNONE">> \in Seq(Ctl) /\ Len(<<"CTRLNONE">>) = 1 /\ <<"CTRLNONE">>[1] = "CTRLNONE"
  BY DEF Ctl
<1>2. /\ Len(q) \in Nat /\ Len(q \o <<"CTRLNONE">>) = Len(q) + 1
      /\ \A i \in 1 .. Len(q) + 1 :
           (q \o <<"CTRLNONE">>)[i] = IF i <= Len(q) THEN q[i] ELSE <<"CTRLNONE">>[i - Len(q)]
  BY <1>1, ConcatProperties, LenProperties
<1>3. \A i \in 1 .. Len(q) : (q \o <<"CTRLNONE">>)[i] = q[i]
  BY <1>2
<1>4. (q \o <<"CTRLNONE">>)[Len(q) + 1] = "CTRLNONE"
  BY <1>1, <1>2
<1> QED BY <1>2, <1>3, <1>4 DEF Tailed

LEMMA TailedSuffix ==
  ASSUME NEW q \in Seq(Ctl), NEW k \in 0 .. Len(q)
  PROVE  /\ SubSeq(q, k + 1, Len(q)) \in Seq(Ctl)
         /\ Len(SubSeq(q, k + 1, Len(q))) = Len(q) - k
         /\ \A i \in 1 .. Len(q) - k : SubSeq(q, k + 1, Len(q))[i] = q[k + i]
<1>1. Len(q) \in Nat /\ \A i \in 1 .. Len(q) : q[i] \in Ctl
  BY LenProperties
<1>2. k + 1 \in Int /\ Len(q) \in Int /\ \A i \in k + 1 .. Len(q) : q[i] \in Ctl
  BY <1>1
<1>3. /\ SubSeq(q, k + 1, Len(q)) \in Seq(Ctl)
      /\ Len(SubSeq(q, k + 1, Len(q))) = IF k + 1 <= Len(q) THEN Len(q) - (k + 1) + 1 ELSE 0
      /\ \A i \in 1 .. Len(q) - (k + 1) + 1 : SubSeq(q, k + 1, Len(q))[i] = q[k + 1 + i - 1]
  BY <1>2, SubSeqProperties
<1> QED BY <1>1, <1>3

LEMMA TailedRest ==
  ASSUME NEW q \in Seq(Ctl), NEW u, Tailed(q, u), NEW k \in 0 .. Len(q) - u
  PROVE  Tailed(SubSeq(q, k + 1, Len(q)), u)
<1>1. Len(q) \in Nat /\ u \in Nat /\ u <= Len(q) /\ k \in 0 .. Len(q)
  BY LenProperties DEF Tailed
<1>2. /\ Len(SubSeq(q, k + 1, Len(q))) = Len(q) - k
      /\ \A i \in 1 .. Len(q) - k : SubSeq(q, k + 1, Len(q))[i] = q[k + i]
  BY <1>1, TailedSuffix
<1> QED BY <1>1, <1>2 DEF Tailed

LEMMA TailedRead ==
  ASSUME NEW q \in Seq(Ctl), NEW u, Tailed(q, u), NEW i \in 1 .. Len(q), q[i] = "CTRLNONE",
         \A j \in 1 .. Len(q) : q[j] = "CTRLNONE" => i <= j
  PROVE  /\ u >= 1
         /\ SubSeq(q, i + 1, Len(q)) \in Seq(Ctl)
         /\ Len(SubSeq(q, i + 1, Len(q))) = u - 1
         /\ Tailed(SubSeq(q, i + 1, Len(q)), u - 1)
<1>1. Len(q) \in Nat /\ u \in Nat /\ u <= Len(q) /\ i \in 0 .. Len(q)
  BY LenProperties DEF Tailed
<1>2. i > Len(q) - u
  BY DEF Tailed
<1>3. Len(q) - u + 1 \in 1 .. Len(q)
  BY <1>1, <1>2
<1>4. q[Len(q) - u + 1] = "CTRLNONE"
  BY <1>1, <1>3 DEF Tailed
<1>5. i = Len(q) - u + 1
  BY <1>1, <1>2, <1>3, <1>4
<1>6. /\ SubSeq(q, i + 1, Len(q)) \in Seq(Ctl)
      /\ Len(SubSeq(q, i + 1, Len(q))) = Len(q) - i
      /\ \A j \in 1 .. Len(q) - i : SubSeq(q, i + 1, Len(q))[j] = q[i + j]
  BY <1>1, TailedSuffix
<1>7. \A j \in 1 .. Len(q) - i : q[i + j] = "CTRLNONE"
  BY <1>1, <1>5 DEF Tailed
<1> DEFINE r == SubSeq(q, i + 1, Len(q))
<1>8. Len(r) = u - 1 /\ u >= 1
  BY <1>1, <1>3, <1>5, <1>6
<1>9. \A j \in 1 .. Len(r) : r[j] = "CTRLNONE"
  BY <1>1, <1>5, <1>6, <1>7, <1>8
<1> HIDE DEF r
<1>10. Tailed(r, u - 1)
  BY <1>1, <1>8, <1>9 DEF Tailed
<1> QED BY <1>6, <1>8, <1>10 DEF r

LEMMA Least ==
  ASSUME NEW T \in SUBSET Nat, T # {}
  PROVE  \E x \in T : \A y \in T : x <= y
<1>1. T \subseteq Nat
  OBVIOUS
<1>2. \E x \in T : \A y \in T : ~ (<<y, x>> \in OpToRel(<, Nat))
  BY <1>1, NatLessThanWellFounded, WFMin
<1>3. PICK x \in T : \A y \in T : ~ (<<y, x>> \in OpToRel(<, Nat))
  BY <1>2
<1>4. \A y \in T : ~(y < x)
  BY <1>1, <1>3 DEF OpToRel
<1> QED BY <1>1, <1>4

\* A turn reads at least one message, and no further than the first ISEEYOUUP.
LEMMA TurnReadsFirst ==
  ASSUME NEW s \in Seq(Ctl), s # <<>>
  PROVE  /\ TurnReads(s) \in 1 .. Len(s)
         /\ \A i \in 1 .. Len(s) : s[i] = "ISEEYOUUP" => TurnReads(s) <= i
<1>1. Len(s) \in Nat /\ Len(s) > 0 /\ DOMAIN s = 1 .. Len(s) /\ Head(s) = s[1]
  BY LenProperties, EmptySeq
<1> DEFINE acks == {i \in DOMAIN s : s[i] = "ISEEYOUUP"}
<1>2. CASE Head(s) # "IAMUP"
  BY <1>1, <1>2 DEF TurnReads
<1>3. CASE Head(s) = "IAMUP" /\ acks = {}
  <2>1. TurnReads(s) = Len(s)
    BY <1>3 DEF TurnReads
  <2>2. \A i \in 1 .. Len(s) : s[i] # "ISEEYOUUP"
    BY <1>1, <1>3
  <2> QED BY <1>1, <2>1, <2>2
<1>4. CASE Head(s) = "IAMUP" /\ acks # {}
  <2>1. TurnReads(s) = CHOOSE i \in acks : \A j \in acks : i <= j
    BY <1>4 DEF TurnReads
  <2>2. acks \in SUBSET Nat
    BY <1>1
  <2>3. \E i \in acks : \A j \in acks : i <= j
    BY <1>4, <2>2, Least
  <2> HIDE DEF acks
  <2>4. TurnReads(s) \in acks /\ \A j \in acks : TurnReads(s) <= j
    BY <2>1, <2>3
  <2> QED BY <1>1, <2>4 DEF acks
<1> QED BY <1>2, <1>3, <1>4

-----------------------------------------------------------------------------
(* How far two nodes have come with each other.                            *)

\* The CTRLNONE of m that n has read, and those that n has sent to m.
Flushed(s) ==
  IF s \in {"lastflush", "lastdrain"} THEN 1 ELSE IF s \in {"lastdata", "closed"} THEN 2 ELSE 0
Read(n, m) ==
  Flushed(stage[n])
    + (IF stage[n] \in {"flush", "drain", "lastflush", "lastdrain"} /\ m < next[n] THEN 1 ELSE 0)
Sent(n, m) ==
  Read(n, m) + (IF stage[n] \in {"drain", "lastdrain"} /\ m = next[n] THEN 1 ELSE 0)

CTypes ==
  /\ ctl \in [Node -> [Node -> Seq(Ctl)]] /\ next \in [Node -> Nat]
  /\ subscribed \in [Node -> SUBSET Node] /\ linked \in SUBSET (Node \X Node)
  /\ \A n \in Node : stage[n] \in {"drain", "lastdrain"} => next[n] \in Node
  /\ \A n \in Node : stage[n] \notin {"down", "polls", "sleeps", "done", "waits", "ready", "hello"}
                       => Node \ {n} \subseteq subscribed[n]
  /\ \A n \in Node, m \in Node : <<n, m>> \in linked => HasSockets(n)

\* What has come to n from m ends in the CTRLNONE that n has not read, and has no
\* other; once n has read one, there is nothing else.
InOrder(n, m) ==
  /\ Tailed(ctl[n][m], Sent(m, n) - Read(n, m))
  /\ Read(n, m) > 0 => Len(ctl[n][m]) = Sent(m, n) - Read(n, m)

HasAck(q) == \E i \in 1 .. Len(q) : q[i] = "ISEEYOUUP"

\* Who has got something can be reached; an ISEEYOUUP answers something, and the last
\* one is there as long as its reader needs it.
Heard(n, m) ==
  /\ ctl[n][m] # <<>> => <<n, m>> \in linked
  /\ HasAck(ctl[n][m]) => <<m, n>> \in linked
  /\ m \in subscribed[n] => {<<n, m>>, <<m, n>>} \subseteq linked
  /\ n \in subscribed[m] /\ m \notin subscribed[n] => HasAck(ctl[n][m])

Control ==
  /\ Types /\ CTypes
  /\ \A n \in Node, m \in Node : n # m => InOrder(n, m) /\ Heard(n, m)

LEMMA Counts ==
  ASSUME Types, CTypes, NEW n \in Node, NEW m \in Node
  PROVE  /\ Read(n, m) \in 0 .. 2 /\ Sent(n, m) \in 0 .. 2
         /\ Sent(n, m) \in {Read(n, m), Read(n, m) + 1}
         /\ ~(stage[n] \in {"drain", "lastdrain"} /\ m = next[n]) => Sent(n, m) = Read(n, m)
<1>1. n \in Int /\ m \in Int /\ next[n] \in Int
  BY Nodes DEF CTypes
<1>2. CASE stage[n] \in {"flush", "drain", "lastflush", "lastdrain"}
  <2>1. Flushed(stage[n]) \in 0 .. 1
    BY <1>2 DEF Flushed
  <2>2. Read(n, m) = Flushed(stage[n]) + IF m < next[n] THEN 1 ELSE 0
    BY <1>2 DEF Read
  <2>3. CASE stage[n] \in {"drain", "lastdrain"} /\ m = next[n]
    <3>1. Sent(n, m) = Read(n, m) + 1
      BY <2>3 DEF Sent
    <3> QED BY <1>1, <2>1, <2>2, <2>3, <3>1
  <2>4. CASE ~(stage[n] \in {"drain", "lastdrain"} /\ m = next[n])
    <3>1. Sent(n, m) = Read(n, m) + 0
      BY <2>4 DEF Sent
    <3> QED BY <1>1, <2>1, <2>2, <2>4, <3>1
  <2> QED BY <2>3, <2>4
<1>3. CASE stage[n] \notin {"flush", "drain", "lastflush", "lastdrain"}
  <2>1. Flushed(stage[n]) \in {0, 2}
    BY <1>3 DEF Flushed
  <2>2. Read(n, m) = Flushed(stage[n]) + 0 /\ Sent(n, m) = Read(n, m) + 0
    BY <1>3 DEF Read, Sent
  <2> QED BY <1>3, <2>1, <2>2
<1> QED BY <1>2, <1>3

\* Steps that leave the control sockets alone.
LEMMA ControlKept ==
  ASSUME Control, Types', CTypes', UNCHANGED <<ctl, linked, subscribed>>,
         \A n \in Node, m \in Node : n # m => Read(n, m)' = Read(n, m) /\ Sent(n, m)' = Sent(n, m)
  PROVE  Control'
<1> SUFFICES ASSUME NEW n \in Node, NEW m \in Node, n # m PROVE InOrder(n, m)' /\ Heard(n, m)'
  BY DEF Control
<1>1. InOrder(n, m) /\ Heard(n, m)
  BY DEF Control
<1>2. Read(n, m)' = Read(n, m) /\ Sent(m, n)' = Sent(m, n)
  OBVIOUS
<1>3. InOrder(n, m)'
  BY <1>1, <1>2 DEF InOrder, Tailed
<1>4. Heard(n, m)'
  BY <1>1 DEF Heard, HasAck
<1> QED BY <1>3, <1>4

Early == {"down", "polls", "sleeps", "done", "waits", "ready"}

\* NodeManager::init: before the control sockets exist, and into CommManager::init.
LEMMA ControlEarly ==
  ASSUME Control, Types', NEW n \in Node, UNCHANGED <<ctlvars, next>>,
         \/ stage' = stage
         \/ stage[n] \in Early /\ \E s \in Early \cup {"hello"} : stage' = [stage EXCEPT ![n] = s]
  PROVE  Control'
<1>0. UNCHANGED <<ctl, linked, subscribed, next>>
  BY DEF ctlvars
<1>1. CASE stage' = stage
  <2>1. CTypes'
    BY <1>0, <1>1 DEF Control, CTypes, HasSockets
  <2>2. \A p \in Node, q \in Node : Read(p, q)' = Read(p, q) /\ Sent(p, q)' = Sent(p, q)
    BY <1>0, <1>1 DEF Read, Sent, Flushed
  <2> QED BY <1>0, <2>1, <2>2, ControlKept
<1>2. ASSUME stage[n] \in Early,
             NEW s \in Early \cup {"hello"}, stage' = [stage EXCEPT ![n] = s]
      PROVE  Control'
  <2>1. /\ stage'[n] = s /\ stage \in [Node -> Stages]
        /\ \A p \in Node : p # n => stage'[p] = stage[p]
    BY <1>2 DEF Control, Types
  <2>2. CTypes'
    BY <1>0, <1>2, <2>1 DEF Control, CTypes, HasSockets, Early
  <2>3. \A p \in Node, q \in Node : Read(p, q)' = Read(p, q) /\ Sent(p, q)' = Sent(p, q)
    <3> SUFFICES ASSUME NEW p \in Node, NEW q \in Node
                 PROVE  Read(p, q)' = Read(p, q) /\ Sent(p, q)' = Sent(p, q)
      OBVIOUS
    <3>1. CASE p # n
      BY <1>0, <2>1, <3>1 DEF Read, Sent, Flushed
    <3>2. CASE p = n
      <4>1. Read(n, q) = 0 + 0 /\ Sent(n, q) = Read(n, q) + 0
        BY <1>2 DEF Read, Sent, Flushed, Early
      <4>2. Read(n, q)' = 0 + 0 /\ Sent(n, q)' = Read(n, q)' + 0
        BY <1>2, <2>1 DEF Read, Sent, Flushed, Early
      <4> QED BY <3>2, <4>1, <4>2
    <3> QED BY <3>1, <3>2
  <2> QED BY <1>0, <2>2, <2>3, ControlKept
<1> QED BY <1>1, <1>2

LEMMA ControlManager ==
  ASSUME Control, Types', NEW n \in Node, Manager(n)
  PROVE  Control'
<1> USE DEF flushvars, Early
<1>1. CASE Start(n)
  BY <1>1, ControlEarly DEF Start
<1>2. CASE Answer(n)
  BY <1>2, ControlEarly DEF Answer
<1>3. CASE n = Master /\ Poll
  BY <1>3, ControlEarly DEF Poll
<1>4. CASE n = Master /\ Drain
  BY <1>4, ControlEarly DEF Drain
<1>5. CASE n = Master /\ InitDone
  BY <1>5, ControlEarly DEF InitDone
<1>6. ASSUME NEW m \in Node, Await(n, m) PROVE Control'
  <2>1. UNCHANGED <<ctlvars, next>>
    BY <1>6 DEF Await
  <2>2. \/ stage' = stage
        \/ stage[n] \in Early /\ \E s \in Early \cup {"hello"} : stage' = [stage EXCEPT ![n] = s]
    BY <1>6 DEF Await
  <2> QED BY <2>1, <2>2, ControlEarly
<1> QED BY <1>1, <1>2, <1>3, <1>4, <1>5, <1>6 DEF Manager

\* The flushes of the data channels, the run and the begin of destroy.
LEMMA ControlData ==
  ASSUME Control, Types', NEW n \in Node, FlushData(n) \/ FlushedData(n) \/ Runs(n)
  PROVE  Control'
<1>0. /\ UNCHANGED <<ctl, linked, subscribed>> /\ numNodes \in Nat
      /\ stage \in [Node -> Stages] /\ next \in [Node -> Nat] /\ CTypes
  BY Nodes DEF FlushData, FlushedData, Runs, Call, Destroy, ctlvars, Control, Types, CTypes
<1> DEFINE Same == \A q \in Node : q # n => Read(n, q)' = Read(n, q) /\ Sent(n, q)' = Sent(n, q)
<1>1. ASSUME NEW s \in Stages \ (Early \cup {"drain", "lastdrain", "hello"}), stage' = [stage EXCEPT ![n] = s],
             \/ stage[n] \notin Early \cup {"hello"}
             \/ Node \ {n} \subseteq subscribed[n] /\ stage[n] \notin Early,
             NEW y \in Nat, next' = [next EXCEPT ![n] = y], Same
      PROVE  Control'
  <2>1. /\ stage'[n] = s /\ next'[n] = y
        /\ \A p \in Node : p # n => stage'[p] = stage[p] /\ next'[p] = next[p]
    BY <1>0, <1>1
  <2>2. CTypes'
    <3>1. next' \in [Node -> Nat]
      BY <1>0, <1>1
    <3>2. Node \ {n} \subseteq subscribed[n] /\ stage[n] \notin Early
      BY <1>0, <1>1 DEF CTypes, Early
    <3> QED BY <1>0, <1>1, <2>1, <3>1, <3>2 DEF CTypes, HasSockets, Early
  <2>3. ASSUME NEW p \in Node, NEW q \in Node, p # q
        PROVE  Read(p, q)' = Read(p, q) /\ Sent(p, q)' = Sent(p, q)
    <3>1. CASE p # n
      BY <2>1, <3>1 DEF Read, Sent, Flushed
    <3> QED BY <1>1, <2>3, <3>1
  <2> QED BY <1>0, <2>2, <2>3, ControlKept
<1>2. CASE FlushData(n)
  <2>0. next' = [next EXCEPT ![n] = next[n]] /\ next[n] \in Nat
    BY <1>0, <1>2 DEF FlushData
  <2>1. CASE stage[n] = "hello" /\ AllSubscribed(n) /\ stage' = [stage EXCEPT ![n] = "data"]
    <3>1. stage'[n] = "data"
      BY <1>0, <2>1
    <3>2. \A q \in Node : /\ Read(n, q) = 0 + 0 /\ Sent(n, q) = Read(n, q) + 0
                          /\ Read(n, q)' = 0 + 0 /\ Sent(n, q)' = Read(n, q)' + 0
      BY <2>1, <3>1 DEF Read, Sent, Flushed
    <3>3. Same
      BY <3>2
    <3>4. Node \ {n} \subseteq subscribed[n]
      BY <2>1 DEF AllSubscribed
    <3>5. "data" \in Stages \ (Early \cup {"drain", "lastdrain", "hello"}) /\ stage[n] \notin Early
      BY <2>1 DEF Stages, Early
    <3> HIDE DEF Same
    <3> QED BY <1>1, <2>0, <2>1, <3>3, <3>4, <3>5
  <2>2. CASE stage[n] = "lastflush" /\ next[n] = numNodes /\ stage' = [stage EXCEPT ![n] = "lastdata"]
    <3>1. stage'[n] = "lastdata"
      BY <1>0, <2>2
    <3>2. \A q \in Node : q < next[n]
      BY <2>2, <1>0 DEF Node
    <3>3. \A q \in Node : /\ Read(n, q) = 1 + 1 /\ Sent(n, q) = Read(n, q) + 0
                          /\ Read(n, q)' = 2 + 0 /\ Sent(n, q)' = Read(n, q)' + 0
      BY <2>2, <3>1, <3>2 DEF Read, Sent, Flushed
    <3>4. Same
      BY <3>3
    <3>5. "lastdata" \in Stages \ (Early \cup {"drain", "lastdrain", "hello"}) /\ stage[n] \notin Early \cup {"hello"}
      BY <2>2 DEF Stages, Early
    <3> HIDE DEF Same
    <3> QED BY <1>1, <2>0, <2>2, <3>4, <3>5
  <2> QED BY <1>2, <2>1, <2>2 DEF FlushData
<1>3. PeerFrom(n, 0) \in Nat /\ \A q \in Node : q # n => ~(q < PeerFrom(n, 0))
  BY <1>0 DEF PeerFrom, Node
<1>4. CASE FlushedData(n)
  <2>1. CASE stage[n] = "data" /\ stage' = [stage EXCEPT ![n] = "flush"] /\ next' = [next EXCEPT ![n] = PeerFrom(n, 0)]
    <3>1. stage'[n] = "flush" /\ next'[n] = PeerFrom(n, 0)
      BY <1>0, <2>1
    <3>2. \A q \in Node : q # n =>
             /\ Read(n, q) = 0 + 0 /\ Sent(n, q) = Read(n, q) + 0
             /\ Read(n, q)' = 0 + 0 /\ Sent(n, q)' = Read(n, q)' + 0
      BY <1>3, <2>1, <3>1 DEF Read, Sent, Flushed
    <3>3. Same
      BY <3>2
    <3>4. "flush" \in Stages \ (Early \cup {"drain", "lastdrain", "hello"}) /\ stage[n] \notin Early \cup {"hello"}
      BY <2>1 DEF Stages, Early
    <3> HIDE DEF Same
    <3> QED BY <1>1, <1>3, <2>1, <3>3, <3>4
  <2>2. CASE stage[n] = "lastdata" /\ stage' = [stage EXCEPT ![n] = "closed"] /\ next' = next
    <3>0. next' = [next EXCEPT ![n] = next[n]] /\ next[n] \in Nat
      BY <1>0, <2>2
    <3>1. stage'[n] = "closed"
      BY <1>0, <2>2
    <3>2. \A q \in Node : /\ Read(n, q) = 2 + 0 /\ Sent(n, q) = Read(n, q) + 0
                          /\ Read(n, q)' = 2 + 0 /\ Sent(n, q)' = Read(n, q)' + 0
      BY <2>2, <3>1 DEF Read, Sent, Flushed
    <3>3. Same
      BY <3>2
    <3>4. "closed" \in Stages \ (Early \cup {"drain", "lastdrain", "hello"}) /\ stage[n] \notin Early \cup {"hello"}
      BY <2>2 DEF Stages, Early
    <3> HIDE DEF Same
    <3> QED BY <1>1, <2>2, <3>0, <3>3, <3>4
  <2> QED BY <1>4, <2>1, <2>2 DEF FlushedData
<1>5. CASE Call(n)
  <2>1. stage' = stage /\ UNCHANGED <<ctlvars, next>>
    BY <1>5 DEF Call, flushvars
  <2> QED BY <2>1, ControlEarly
<1>6. CASE Destroy(n)
  <2>1. /\ stage[n] = "flush" /\ next[n] = numNodes
        /\ stage' = [stage EXCEPT ![n] = "lastflush"] /\ next' = [next EXCEPT ![n] = PeerFrom(n, 0)]
    BY <1>6 DEF Destroy, Up
  <2>2. stage'[n] = "lastflush" /\ next'[n] = PeerFrom(n, 0)
    BY <1>0, <2>1
  <2>3. \A q \in Node : q < next[n]
    BY <2>1, <1>0 DEF Node
  <2>4. \A q \in Node : q # n =>
           /\ Read(n, q) = 0 + 1 /\ Sent(n, q) = Read(n, q) + 0
           /\ Read(n, q)' = 1 + 0 /\ Sent(n, q)' = Read(n, q)' + 0
    BY <1>3, <2>1, <2>2, <2>3 DEF Read, Sent, Flushed
  <2>5. Same
    BY <2>4
  <2>6. "lastflush" \in Stages \ (Early \cup {"drain", "lastdrain", "hello"}) /\ stage[n] \notin Early \cup {"hello"}
    BY <2>1 DEF Stages, Early
  <2> HIDE DEF Same
  <2> QED BY <1>1, <1>3, <2>1, <2>5, <2>6
<1> QED BY <1>2, <1>4, <1>5, <1>6 DEF Runs

-----------------------------------------------------------------------------
(* Steps on the control sockets.                                           *)

LEMMA HasAckConcat ==
  ASSUME NEW q \in Seq(Ctl), NEW a \in Seq(Ctl)
  PROVE  HasAck(q \o a) <=> HasAck(q) \/ HasAck(a)
<1>1. /\ Len(q) \in Nat /\ Len(a) \in Nat /\ Len(q \o a) = Len(q) + Len(a)
      /\ \A i \in 1 .. Len(q) + Len(a) : (q \o a)[i] = IF i <= Len(q) THEN q[i] ELSE a[i - Len(q)]
  BY ConcatProperties, LenProperties
<1>2. ASSUME HasAck(q) PROVE HasAck(q \o a)
  <2>1. PICK i \in 1 .. Len(q) : q[i] = "ISEEYOUUP"
    BY <1>2 DEF HasAck
  <2>2. i \in 1 .. Len(q) + Len(a) /\ (q \o a)[i] = q[i]
    BY <1>1
  <2> QED BY <1>1, <2>1, <2>2 DEF HasAck
<1>3. ASSUME HasAck(a) PROVE HasAck(q \o a)
  <2>1. PICK i \in 1 .. Len(a) : a[i] = "ISEEYOUUP"
    BY <1>3 DEF HasAck
  <2>2. Len(q) + i \in 1 .. Len(q) + Len(a) /\ (q \o a)[Len(q) + i] = a[i]
    BY <1>1
  <2> QED BY <1>1, <2>1, <2>2 DEF HasAck
<1>4. ASSUME HasAck(q \o a) PROVE HasAck(q) \/ HasAck(a)
  <2>1. PICK i \in 1 .. Len(q) + Len(a) : (q \o a)[i] = "ISEEYOUUP"
    BY <1>1, <1>4 DEF HasAck
  <2>2. CASE i <= Len(q)
    <3>1. i \in 1 .. Len(q) /\ q[i] = "ISEEYOUUP"
      BY <1>1, <2>1, <2>2
    <3> QED BY <3>1 DEF HasAck
  <2>3. CASE ~(i <= Len(q))
    <3>1. i - Len(q) \in 1 .. Len(a) /\ a[i - Len(q)] = "ISEEYOUUP"
      BY <1>1, <2>1, <2>3
    <3> QED BY <3>1 DEF HasAck
  <2> QED BY <2>2, <2>3
<1> QED BY <1>2, <1>3, <1>4

\* A suffix has an answer if the whole has one that is not cut off.
LEMMA HasAckSuffix ==
  ASSUME NEW q \in Seq(Ctl), NEW k \in 0 .. Len(q)
  PROVE  /\ HasAck(SubSeq(q, k + 1, Len(q))) => HasAck(q)
         /\ \A i \in 1 .. Len(q) : q[i] = "ISEEYOUUP" /\ k < i => HasAck(SubSeq(q, k + 1, Len(q)))
<1> DEFINE r == SubSeq(q, k + 1, Len(q))
<1>1. /\ Len(q) \in Nat /\ Len(r) = Len(q) - k
      /\ \A i \in 1 .. Len(q) - k : r[i] = q[k + i]
  BY LenProperties, TailedSuffix
<1> HIDE DEF r
<1>2. ASSUME HasAck(r) PROVE HasAck(q)
  <2>1. PICK i \in 1 .. Len(q) - k : r[i] = "ISEEYOUUP"
    BY <1>1, <1>2 DEF HasAck
  <2>2. k + i \in 1 .. Len(q) /\ q[k + i] = "ISEEYOUUP"
    BY <1>1, <2>1
  <2> QED BY <2>2 DEF HasAck
<1>3. ASSUME NEW i \in 1 .. Len(q), q[i] = "ISEEYOUUP", k < i PROVE HasAck(r)
  <2>1. i - k \in 1 .. Len(r) /\ r[i - k] = q[i]
    BY <1>1, <1>3
  <2> QED BY <1>3, <2>1 DEF HasAck
<1> QED BY <1>2, <1>3 DEF r

\* Pairs whose sequences, counts and subscriptions stay as they are.
LEMMA PairKept ==
  ASSUME NEW n \in Node, NEW m \in Node, InOrder(n, m), Heard(n, m),
         ctl'[n][m] = ctl[n][m], linked \subseteq linked',
         Read(n, m)' = Read(n, m), Sent(m, n)' = Sent(m, n),
         m \in subscribed'[n] <=> m \in subscribed[n],
         n \in subscribed'[m] <=> n \in subscribed[m]
  PROVE  InOrder(n, m)' /\ Heard(n, m)'
<1>1. InOrder(n, m)'
  BY DEF InOrder, Tailed
<1>2. Heard(n, m)'
  BY DEF Heard, HasAck
<1> QED BY <1>1, <1>2

LEMMA ControlIAmUp ==
  ASSUME Control, Types', NEW n \in Node, NEW m \in Node, m # n, IAmUp(n, m)
  PROVE  Control'
<1> DEFINE a == <<"IAMUP">>
<1>1. /\ stage' = stage /\ next' = next /\ subscribed' = subscribed
      /\ stage[n] = "hello" /\ HasSockets(m)
      /\ linked' = linked \cup {<<m, n>>}
      /\ ctl' = [ctl EXCEPT ![m][n] = Append(@, "IAMUP")]
  BY DEF IAmUp, flushvars
<1>2. Types /\ CTypes /\ \A p \in Node, q \in Node : p # q => InOrder(p, q) /\ Heard(p, q)
  BY DEF Control
<1>3. ctl \in [Node -> [Node -> Seq(Ctl)]] /\ ctl[m][n] \in Seq(Ctl)
  BY <1>2 DEF CTypes
<1>4. a \in Seq(Ctl) /\ Len(a) = 1 /\ a[1] = "IAMUP" /\ "IAMUP" \in Ctl
  BY DEF Ctl
<1>5. Append(ctl[m][n], "IAMUP") = ctl[m][n] \o a
  BY <1>3, <1>4, AppendIsConcat
<1> HIDE DEF a
<1>6. /\ ctl[m][n] \o a \in Seq(Ctl)
      /\ ctl'[m][n] = ctl[m][n] \o a
      /\ ctl' \in [Node -> [Node -> Seq(Ctl)]]
      /\ \A p \in Node, q \in Node : <<p, q>> # <<m, n>> => ctl'[p][q] = ctl[p][q]
  <2>1. ctl[m][n] \o a \in Seq(Ctl)
    BY <1>3, <1>4, ConcatProperties
  <2> QED BY <1>1, <1>3, <1>5, <2>1
<1>7. \A p \in Node, q \in Node : Read(p, q)' = Read(p, q) /\ Sent(p, q)' = Sent(p, q)
  BY <1>1 DEF Read, Sent, Flushed
<1>8. CTypes'
  BY <1>1, <1>2, <1>6 DEF CTypes, HasSockets
<1>9. ASSUME NEW p \in Node, NEW q \in Node, p # q, <<p, q>> # <<m, n>>
      PROVE  InOrder(p, q)' /\ Heard(p, q)'
  BY <1>1, <1>2, <1>6, <1>7, <1>9, PairKept
<1>10. InOrder(m, n)' /\ Heard(m, n)'
  <2>1. Sent(n, m) = 0 + 0
    BY <1>1 DEF Sent, Read, Flushed
  <2>2. Tailed(ctl[m][n], 0) /\ Read(m, n) = 0
    <3>1. Tailed(ctl[m][n], Sent(n, m) - Read(m, n)) /\ Read(m, n) \in 0 .. 2
      BY <1>2, Counts DEF InOrder
    <3>2. Sent(n, m) - Read(m, n) \in Nat
      BY <3>1 DEF Tailed
    <3>3. Read(m, n) = 0
      BY <2>1, <3>1, <3>2
    <3> QED BY <2>1, <3>1, <3>3
  <2>3. Tailed(ctl[m][n] \o a, 0)
    BY <1>3, <1>4, <2>2, TailedConcat
  <2>4. Sent(n, m)' - Read(m, n)' = 0 /\ ~(Read(m, n)' > 0)
    BY <1>7, <2>1, <2>2
  <2>5. InOrder(m, n)'
    <3>1. Tailed(ctl'[m][n], 0)
      BY <1>6, <2>3
    <3>2. Tailed(ctl'[m][n], Sent(n, m)' - Read(m, n)')
      BY <2>4, <3>1
    <3> QED BY <2>4, <3>2 DEF InOrder, Tailed
  <2>6. ~HasAck(a)
    BY <1>4 DEF HasAck
  <2>7. HasAck(ctl'[m][n]) <=> HasAck(ctl[m][n])
    BY <1>3, <1>4, <1>6, <2>6, HasAckConcat
  <2>8. Heard(m, n)
    BY <1>2
  <2>9. /\ ctl'[m][n] # <<>> => <<m, n>> \in linked'
        /\ HasAck(ctl'[m][n]) => <<n, m>> \in linked'
        /\ n \in subscribed'[m] => {<<m, n>>, <<n, m>>} \subseteq linked'
        /\ m \in subscribed'[n] /\ n \notin subscribed'[m] => HasAck(ctl'[m][n])
    BY <1>1, <2>7, <2>8 DEF Heard
  <2>10. Heard(m, n)'
    BY <2>9 DEF Heard, HasAck
  <2> QED BY <2>5, <2>10
<1> QED BY <1>8, <1>9, <1>10 DEF Control

LEMMA ControlTurn ==
  ASSUME Control, Types', NEW n \in Node, NEW m \in Node, m # n, Turn(n, m)
  PROVE  Control'
<1> DEFINE s == ctl[n][m]
           k == TurnReads(s)
           r == SubSeq(s, k + 1, Len(s))
           a == (IF Head(s) = "IAMUP" THEN <<"ISEEYOUUP">> ELSE <<>>)
                  \o (IF s[k] = "ISEEYOUUP" THEN <<"ISEEYOUUP">> ELSE <<>>)
<1>1. /\ stage' = stage /\ next' = next
      /\ stage[n] = "hello" /\ m \notin subscribed[n] /\ s # <<>>
      /\ subscribed' = IF s[k] = "ISEEYOUUP" THEN [subscribed EXCEPT ![n] = @ \cup {m}] ELSE subscribed
      /\ \/ /\ HasSockets(m) /\ linked' = linked \cup {<<m, n>>}
            /\ ctl' = [[ctl EXCEPT ![n][m] = r] EXCEPT ![m][n] = @ \o a]
         \/ /\ <<m, n>> \notin linked /\ linked' = linked
            /\ ctl' = [ctl EXCEPT ![n][m] = r]
  BY DEF Turn, SendControl, flushvars
<1>2. Types /\ CTypes /\ \A p \in Node, q \in Node : p # q => InOrder(p, q) /\ Heard(p, q)
  BY DEF Control
<1>3. /\ ctl \in [Node -> [Node -> Seq(Ctl)]] /\ s \in Seq(Ctl) /\ ctl[m][n] \in Seq(Ctl)
      /\ subscribed \in [Node -> SUBSET Node]
  BY <1>2 DEF CTypes
<1>4. /\ Len(s) \in Nat /\ k \in 1 .. Len(s) /\ k \in 0 .. Len(s)
      /\ \A i \in 1 .. Len(s) : s[i] = "ISEEYOUUP" => k <= i
  BY <1>1, <1>3, TurnReadsFirst, LenProperties
<1>5. r \in Seq(Ctl)
  BY <1>3, <1>4, TailedSuffix
<1>6. /\ a \in Seq(Ctl) /\ \A i \in 1 .. Len(a) : a[i] # "CTRLNONE"
      /\ s[k] = "ISEEYOUUP" => HasAck(a)
  <2> DEFINE a1 == IF Head(s) = "IAMUP" THEN <<"ISEEYOUUP">> ELSE <<>>
             a2 == IF s[k] = "ISEEYOUUP" THEN <<"ISEEYOUUP">> ELSE <<>>
  <2>1. a1 \in {<<>>, <<"ISEEYOUUP">>} /\ a2 \in {<<>>, <<"ISEEYOUUP">>}
    OBVIOUS
  <2>2. s[k] = "ISEEYOUUP" => a2 = <<"ISEEYOUUP">>
    OBVIOUS
  <2>3. a = a1 \o a2
    OBVIOUS
  <2> HIDE DEF a, a1, a2, k
  <2>4. ASSUME NEW x \in {<<>>, <<"ISEEYOUUP">>}
        PROVE  x \in Seq(Ctl) /\ Len(x) \in {0, 1} /\ \A i \in 1 .. Len(x) : x[i] = "ISEEYOUUP"
    <3>1. CASE x = <<>>
      BY <3>1
    <3>2. CASE x = <<"ISEEYOUUP">>
      BY <3>2 DEF Ctl
    <3> QED BY <3>1, <3>2
  <2>5. HasAck(<<"ISEEYOUUP">>)
    BY DEF HasAck
  <2>6. /\ a \in Seq(Ctl) /\ Len(a) = Len(a1) + Len(a2)
        /\ \A i \in 1 .. Len(a1) + Len(a2) : a[i] = IF i <= Len(a1) THEN a1[i] ELSE a2[i - Len(a1)]
    <3>1. a1 \in Seq(Ctl) /\ a2 \in Seq(Ctl)
      BY <2>1, <2>4
    <3> QED BY <2>3, <3>1, ConcatProperties
  <2>7. ASSUME NEW i \in 1 .. Len(a) PROVE a[i] = "ISEEYOUUP"
    <3>1. CASE i <= Len(a1)
      BY <2>1, <2>4, <2>6, <3>1
    <3>2. CASE ~(i <= Len(a1))
      <4>1. i - Len(a1) \in 1 .. Len(a2)
        BY <2>1, <2>4, <2>6, <3>2
      <4> QED BY <2>1, <2>4, <2>6, <3>2, <4>1
    <3> QED BY <3>1, <3>2
  <2>8. HasAck(a2) => HasAck(a)
    BY <2>1, <2>3, <2>4, HasAckConcat
  <2> QED BY <2>2, <2>5, <2>6, <2>7, <2>8
<1>7. s[k] = "ISEEYOUUP" => HasAck(s)
  BY <1>4 DEF HasAck
<1>8. HasAck(r) => HasAck(s)
  BY <1>3, <1>4, HasAckSuffix
<1>9. InOrder(n, m) /\ Heard(n, m) /\ InOrder(m, n) /\ Heard(m, n)
  BY <1>2
<1>10. <<n, m>> \in linked /\ (HasAck(s) => <<m, n>> \in linked)
  BY <1>1, <1>9 DEF Heard
<1> HIDE DEF a, r, k
<1>11. /\ ctl'[n][m] = r
       /\ \/ ctl'[m][n] = ctl[m][n] \o a /\ HasSockets(m) /\ linked' = linked \cup {<<m, n>>}
          \/ ctl'[m][n] = ctl[m][n] /\ <<m, n>> \notin linked /\ linked' = linked
       /\ \A p \in Node, q \in Node : <<p, q>> # <<n, m>> /\ <<p, q>> # <<m, n>> => ctl'[p][q] = ctl[p][q]
       /\ ctl' \in [Node -> [Node -> Seq(Ctl)]]
  <2> DEFINE c == [ctl EXCEPT ![n][m] = r]
  <2>1. ctl[m][n] \o a \in Seq(Ctl)
    BY <1>3, <1>6, ConcatProperties
  <2>2. /\ c \in [Node -> [Node -> Seq(Ctl)]] /\ c[n][m] = r
        /\ \A p \in Node, q \in Node : <<p, q>> # <<n, m>> => c[p][q] = ctl[p][q]
    BY <1>3, <1>5
  <2>3. <<n, m>> # <<m, n>> /\ c[m][n] = ctl[m][n]
    BY <2>2
  <2>4. \/ /\ HasSockets(m) /\ linked' = linked \cup {<<m, n>>}
           /\ ctl' = [c EXCEPT ![m][n] = @ \o a]
        \/ <<m, n>> \notin linked /\ linked' = linked /\ ctl' = c
    BY <1>1
  <2> HIDE DEF c
  <2>5. CASE /\ HasSockets(m) /\ linked' = linked \cup {<<m, n>>}
             /\ ctl' = [c EXCEPT ![m][n] = @ \o a]
    <3>1. ctl' = [c EXCEPT ![m][n] = ctl[m][n] \o a]
      BY <2>2, <2>3, <2>5
    <3> QED BY <2>1, <2>2, <2>3, <2>5, <3>1
  <2>6. CASE <<m, n>> \notin linked /\ linked' = linked /\ ctl' = c
    BY <2>2, <2>3, <2>6
  <2> QED BY <2>4, <2>5, <2>6
<1>12. /\ \A p \in Node, q \in Node : Read(p, q)' = Read(p, q) /\ Sent(p, q)' = Sent(p, q)
       /\ Read(n, m) = 0 /\ Sent(n, m) = 0
  <2>1. Read(n, m) = 0 + 0 /\ Sent(n, m) = Read(n, m) + 0
    BY <1>1 DEF Read, Sent, Flushed
  <2>2. \A p \in Node, q \in Node : Read(p, q)' = Read(p, q) /\ Sent(p, q)' = Sent(p, q)
    BY <1>1 DEF Read, Sent, Flushed
  <2> QED BY <2>1, <2>2
<1>13. /\ subscribed' \in [Node -> SUBSET Node]
       /\ m \in subscribed'[n] <=> s[k] = "ISEEYOUUP"
       /\ n \in subscribed'[m] <=> n \in subscribed[m]
       /\ \A p \in Node : subscribed[p] \subseteq subscribed'[p]
       /\ \A p \in Node, q \in Node : <<p, q>> # <<n, m>> => (q \in subscribed'[p] <=> q \in subscribed[p])
  BY <1>1, <1>3
<1>14. linked \subseteq linked'
  BY <1>11
<1>15. CTypes'
  <2>1. linked' \in SUBSET (Node \X Node) /\ \A p \in Node, q \in Node : <<p, q>> \in linked' => HasSockets(p)
    <3>1. linked \in SUBSET (Node \X Node) /\ \A p \in Node, q \in Node : <<p, q>> \in linked => HasSockets(p)
      BY <1>2 DEF CTypes
    <3>2. CASE HasSockets(m) /\ linked' = linked \cup {<<m, n>>}
      <4>1. linked' \in SUBSET (Node \X Node)
        BY <3>1, <3>2
      <4>2. ASSUME NEW p \in Node, NEW q \in Node, <<p, q>> \in linked' PROVE HasSockets(p)
        <5>1. <<p, q>> \in linked \/ p = m
          BY <3>2, <4>2
        <5> QED BY <3>1, <3>2, <5>1
      <4> QED BY <4>1, <4>2
    <3>3. CASE linked' = linked
      BY <3>1, <3>3
    <3> QED BY <1>11, <3>2, <3>3
  <2>2. \A p \in Node, q \in Node : <<p, q>> \in linked' => HasSockets(p)'
    BY <1>1, <2>1 DEF HasSockets
  <2>3. /\ next' \in [Node -> Nat]
        /\ \A p \in Node : stage'[p] \in {"drain", "lastdrain"} => next'[p] \in Node
    BY <1>1, <1>2 DEF CTypes
  <2>4. \A p \in Node : stage'[p] \notin {"down", "polls", "sleeps", "done", "waits", "ready", "hello"}
                          => Node \ {p} \subseteq subscribed'[p]
    BY <1>1, <1>2, <1>13 DEF CTypes
  <2> QED BY <1>11, <1>13, <2>1, <2>2, <2>3, <2>4 DEF CTypes
<1>16. ASSUME NEW p \in Node, NEW q \in Node, p # q, <<p, q>> # <<n, m>>, <<p, q>> # <<m, n>>
       PROVE  InOrder(p, q)' /\ Heard(p, q)'
  <2>1. <<q, p>> # <<n, m>>
    BY <1>16
  <2>2. InOrder(p, q) /\ Heard(p, q)
    BY <1>2, <1>16
  <2> QED BY <1>11, <1>12, <1>13, <1>14, <1>16, <2>1, <2>2, PairKept
<1>17. InOrder(n, m)' /\ Heard(n, m)'
  <2> DEFINE u == Sent(m, n) - Read(n, m)
  <2>1. Tailed(s, u) /\ u \in Nat /\ u <= Len(s)
    BY <1>9 DEF InOrder, Tailed
  <2>2. k <= Len(s) - u
    <3>1. CASE u = 0
      BY <1>4, <3>1
    <3>2. CASE u # 0
      <4>1. Sent(m, n) # 0
        BY <1>12, <3>2
      <4>2. stage[m] \notin Early \cup {"hello"}
        <5>1. ASSUME stage[m] \in Early \cup {"hello"} PROVE Sent(m, n) = 0 + 0
          BY <5>1 DEF Sent, Read, Flushed, Early
        <5> QED BY <4>1, <5>1
      <4>3. n \in subscribed[m]
        BY <1>2, <4>2 DEF CTypes, Early
      <4>4. HasAck(s)
        BY <1>1, <1>9, <4>3 DEF Heard
      <4>5. PICK i \in 1 .. Len(s) : s[i] = "ISEEYOUUP"
        BY <4>4 DEF HasAck
      <4>6. k <= i /\ ~(i > Len(s) - u)
        BY <1>4, <2>1, <4>5 DEF Tailed
      <4> QED BY <1>4, <2>1, <4>6
    <3> QED BY <3>1, <3>2
  <2> HIDE DEF u
  <2>3. Tailed(r, u)
    <3>1. k \in 0 .. Len(s) - u
      BY <1>4, <2>1, <2>2
    <3> QED BY <1>3, <2>1, <3>1, TailedRest DEF r
  <2>4. InOrder(n, m)'
    <3>1. Tailed(ctl'[n][m], Sent(m, n)' - Read(n, m)') /\ ~(Read(n, m)' > 0)
      BY <1>11, <1>12, <2>3 DEF u
    <3> QED BY <3>1 DEF InOrder, Tailed
  <2>5. n \in subscribed[m] /\ s[k] # "ISEEYOUUP" => HasAck(r)
    <3> SUFFICES ASSUME n \in subscribed[m], s[k] # "ISEEYOUUP" PROVE HasAck(r)
      OBVIOUS
    <3>1. HasAck(s)
      BY <1>1, <1>9 DEF Heard
    <3>2. PICK i \in 1 .. Len(s) : s[i] = "ISEEYOUUP"
      BY <3>1 DEF HasAck
    <3>3. k < i
      BY <1>4, <3>2
    <3> QED BY <1>3, <1>4, <3>2, <3>3, HasAckSuffix DEF r
  <2>6. /\ ctl'[n][m] # <<>> => <<n, m>> \in linked'
        /\ HasAck(ctl'[n][m]) => <<m, n>> \in linked'
        /\ m \in subscribed'[n] => {<<n, m>>, <<m, n>>} \subseteq linked'
        /\ n \in subscribed'[m] /\ m \notin subscribed'[n] => HasAck(ctl'[n][m])
    BY <1>7, <1>8, <1>10, <1>11, <1>13, <1>14, <2>5
  <2>7. Heard(n, m)'
    BY <2>6 DEF Heard, HasAck
  <2> QED BY <2>4, <2>7
<1>18. InOrder(m, n)' /\ Heard(m, n)'
  <2>1. Tailed(ctl[m][n], 0) /\ Read(m, n) = 0
    <3>1. Tailed(ctl[m][n], Sent(n, m) - Read(m, n)) /\ Read(m, n) \in 0 .. 2
      BY <1>2, <1>9, Counts DEF InOrder
    <3>2. Sent(n, m) - Read(m, n) \in Nat
      BY <3>1 DEF Tailed
    <3>3. Read(m, n) = 0
      BY <1>12, <3>1, <3>2
    <3> QED BY <1>12, <3>1, <3>3
  <2>2. Tailed(ctl'[m][n], 0)
    BY <1>3, <1>6, <1>11, <2>1, TailedConcat
  <2>3. Sent(n, m)' - Read(m, n)' = 0 /\ ~(Read(m, n)' > 0)
    BY <1>12, <2>1
  <2>4. InOrder(m, n)'
    <3>1. Tailed(ctl'[m][n], Sent(n, m)' - Read(m, n)')
      BY <2>2, <2>3
    <3> QED BY <2>3, <3>1 DEF InOrder, Tailed
  <2>5. s[k] = "ISEEYOUUP" => HasAck(ctl'[m][n])
    <3> SUFFICES ASSUME s[k] = "ISEEYOUUP" PROVE HasAck(ctl'[m][n])
      OBVIOUS
    <3>1. HasAck(a) /\ <<m, n>> \in linked
      BY <1>6, <1>7, <1>10
    <3>2. ctl'[m][n] = ctl[m][n] \o a
      BY <1>11, <3>1
    <3>3. HasAck(ctl[m][n] \o a)
      BY <1>3, <1>6, <3>1, HasAckConcat
    <3> QED BY <3>2, <3>3
  <2>6. ctl'[m][n] # <<>> => <<m, n>> \in linked'
    BY <1>9, <1>11 DEF Heard
  <2>7. /\ ctl'[m][n] # <<>> => <<m, n>> \in linked'
        /\ HasAck(ctl'[m][n]) => <<n, m>> \in linked'
        /\ n \in subscribed'[m] => {<<m, n>>, <<n, m>>} \subseteq linked'
        /\ m \in subscribed'[n] /\ n \notin subscribed'[m] => HasAck(ctl'[m][n])
    BY <1>9, <1>10, <1>13, <1>14, <2>5, <2>6 DEF Heard
  <2>8. Heard(m, n)'
    BY <2>7 DEF Heard, HasAck
  <2> QED BY <2>4, <2>8
<1> QED BY <1>15, <1>16, <1>17, <1>18 DEF Control

LEMMA ControlSend ==
  ASSUME Control, Types', NEW n \in Node, FlushControl(n)
  PROVE  Control'
<1> DEFINE a == <<"CTRLNONE">>
<1>1. Types /\ CTypes /\ \A p \in Node, q \in Node : p # q => InOrder(p, q) /\ Heard(p, q)
  BY DEF Control
<1>2. /\ stage \in [Node -> Stages] /\ next \in [Node -> Nat]
      /\ ctl \in [Node -> [Node -> Seq(Ctl)]] /\ linked \in SUBSET (Node \X Node)
  BY <1>1 DEF Types, CTypes
<1>3. stage[n] \in {"flush", "lastflush"} /\ next[n] < numNodes /\ next' = next /\ subscribed' = subscribed
  BY DEF FlushControl, flushvars
<1>0. next[n] \in Node
  BY <1>2, <1>3, Nodes DEF Node
<1>4. PICK x \in Node : x = next[n]
  BY <1>0
<1>5. x # n => <<n, x>> \in linked /\ <<x, n>> \in linked
  <2>1. Node \ {n} \subseteq subscribed[n]
    BY <1>1, <1>3 DEF CTypes
  <2> QED BY <1>1, <1>4, <2>1 DEF Heard
<1>6. stage' = [stage EXCEPT ![n] = IF stage[n] = "flush" THEN "drain" ELSE "lastdrain"]
  BY DEF FlushControl
<1>7. \/ HasSockets(x) /\ ctl' = [ctl EXCEPT ![x][n] = @ \o a] /\ linked' = linked \cup {<<x, n>>}
      \/ <<x, n>> \notin linked /\ ctl' = ctl /\ linked' = linked
  BY <1>4 DEF FlushControl, SendControl
<1>8. a \in Seq(Ctl)
  BY DEF Ctl
<1>9. ctl[x][n] \in Seq(Ctl) /\ ctl[x][n] \o a \in Seq(Ctl)
  BY <1>2, <1>4, <1>8, ConcatProperties
<1>10. /\ stage'[n] \in {"drain", "lastdrain"}
       /\ Flushed(stage'[n]) = Flushed(stage[n])
       /\ \A p \in Node : p # n => stage'[p] = stage[p]
  BY <1>2, <1>3, <1>6 DEF Flushed
<1>11. \A q \in Node : /\ Read(n, q)' = Read(n, q)
                       /\ q # x => Sent(n, q)' = Sent(n, q)
                       /\ q = x => Sent(n, q)' = Sent(n, q) + 1 /\ Sent(n, q) = Read(n, q)
  <2> SUFFICES ASSUME NEW q \in Node
               PROVE  /\ Read(n, q)' = Read(n, q)
                      /\ q # x => Sent(n, q)' = Sent(n, q)
                      /\ q = x => Sent(n, q)' = Sent(n, q) + 1 /\ Sent(n, q) = Read(n, q)
    OBVIOUS
  <2>1. Read(n, q)' = Read(n, q)
    BY <1>3, <1>10 DEF Read
  <2>2. Sent(n, q) = Read(n, q) + 0 /\ Read(n, q) \in 0 .. 2
    BY <1>1, <1>3, Counts DEF Sent
  <2>3. q # x => Sent(n, q)' = Read(n, q)' + 0
    BY <1>3, <1>4 DEF Sent
  <2>4. q = x => Sent(n, q)' = Read(n, q)' + 1
    BY <1>3, <1>4, <1>10 DEF Sent
  <2> QED BY <2>1, <2>2, <2>3, <2>4
<1>12. \A p \in Node, q \in Node : p # n => Read(p, q)' = Read(p, q) /\ Sent(p, q)' = Sent(p, q)
  BY <1>3, <1>10 DEF Read, Sent
<1> HIDE DEF a
<1>13. /\ ctl' \in [Node -> [Node -> Seq(Ctl)]]
       /\ \A p \in Node, q \in Node : <<p, q>> # <<x, n>> => ctl'[p][q] = ctl[p][q]
       /\ x # n => ctl'[x][n] = ctl[x][n] \o a
  <2>1. CASE ctl' = [ctl EXCEPT ![x][n] = @ \o a]
    <3>1. ctl' = [ctl EXCEPT ![x][n] = ctl[x][n] \o a]
      BY <2>1
    <3> QED BY <1>2, <1>4, <1>9, <3>1
  <2>2. CASE <<x, n>> \notin linked /\ ctl' = ctl
    BY <1>2, <1>5, <2>2
  <2> QED BY <1>7, <2>1, <2>2
<1>14. linked \subseteq linked' /\ linked' \in SUBSET (Node \X Node)
  BY <1>2, <1>4, <1>7
<1>15. CTypes'
  <2>1. \A p \in Node, q \in Node : <<p, q>> \in linked' => HasSockets(p)
    <3>1. \A p \in Node, q \in Node : <<p, q>> \in linked => HasSockets(p)
      BY <1>1 DEF CTypes
    <3>2. CASE HasSockets(x) /\ linked' = linked \cup {<<x, n>>}
      <4> SUFFICES ASSUME NEW p \in Node, NEW q \in Node, <<p, q>> \in linked' PROVE HasSockets(p)
        OBVIOUS
      <4>1. <<p, q>> \in linked \/ p = x
        BY <3>2
      <4> QED BY <3>1, <3>2, <4>1
    <3>3. CASE linked' = linked
      BY <3>1, <3>3
    <3> QED BY <1>7, <3>2, <3>3
  <2>2. \A p \in Node : HasSockets(p) => HasSockets(p)'
    BY <1>10 DEF HasSockets
  <2>3. \A p \in Node, q \in Node : <<p, q>> \in linked' => HasSockets(p)'
    BY <2>1, <2>2
  <2>4. \A p \in Node : stage'[p] \in {"drain", "lastdrain"} => next'[p] \in Node
    BY <1>1, <1>3, <1>4, <1>10 DEF CTypes
  <2>5. \A p \in Node : stage'[p] \notin {"down", "polls", "sleeps", "done", "waits", "ready", "hello"}
                          => Node \ {p} \subseteq subscribed'[p]
    BY <1>1, <1>3, <1>10 DEF CTypes
  <2>6. next' \in [Node -> Nat] /\ subscribed' \in [Node -> SUBSET Node]
    BY <1>1, <1>3 DEF CTypes
  <2> QED BY <1>13, <1>14, <2>3, <2>4, <2>5, <2>6 DEF CTypes
<1>16. ASSUME NEW p \in Node, NEW q \in Node, p # q, <<p, q>> # <<x, n>>
       PROVE  InOrder(p, q)' /\ Heard(p, q)'
  <2>1. Read(p, q)' = Read(p, q) /\ Sent(q, p)' = Sent(q, p)
    BY <1>11, <1>12, <1>16
  <2>2. InOrder(p, q) /\ Heard(p, q) /\ ctl'[p][q] = ctl[p][q]
    BY <1>1, <1>13, <1>16
  <2> QED BY <1>3, <1>14, <2>1, <2>2, PairKept
<1>17. ASSUME x # n PROVE InOrder(x, n)' /\ Heard(x, n)'
  <2> DEFINE u == Sent(n, x) - Read(x, n)
  <2>1. InOrder(x, n) /\ Heard(x, n)
    BY <1>1, <1>4, <1>17
  <2>2. /\ Tailed(ctl[x][n], u) /\ u \in Nat
        /\ Read(x, n) > 0 => Len(ctl[x][n]) = u
    BY <2>1 DEF InOrder, Tailed
  <2>3. Sent(n, x)' - Read(x, n)' = u + 1 /\ Read(x, n)' = Read(x, n)
    <3>1. Sent(n, x)' = Sent(n, x) + 1 /\ Read(x, n)' = Read(x, n)
      BY <1>4, <1>11, <1>12, <1>17
    <3>2. Sent(n, x) \in Int /\ Read(x, n) \in Int
      BY <1>1, <1>4, Counts
    <3> QED BY <3>1, <3>2
  <2>4. Tailed(ctl[x][n] \o a, u + 1) /\ Len(ctl[x][n] \o a) = Len(ctl[x][n]) + 1
    BY <1>9, <2>2, TailedMark DEF a
  <2>5. /\ Tailed(ctl'[x][n], Sent(n, x)' - Read(x, n)')
        /\ Read(x, n)' > 0 => Len(ctl'[x][n]) = Sent(n, x)' - Read(x, n)'
    BY <1>13, <1>17, <2>2, <2>3, <2>4
  <2>6. InOrder(x, n)'
    BY <2>5 DEF InOrder, Tailed
  <2>7. ~HasAck(a)
    BY DEF HasAck, a
  <2>8. HasAck(ctl'[x][n]) <=> HasAck(ctl[x][n])
    <3>1. ctl'[x][n] = ctl[x][n] \o a
      BY <1>13, <1>17
    <3>2. HasAck(ctl[x][n] \o a) <=> HasAck(ctl[x][n]) \/ HasAck(a)
      BY <1>8, <1>9, HasAckConcat
    <3> QED BY <2>7, <3>1, <3>2
  <2>9. /\ ctl'[x][n] # <<>> => <<x, n>> \in linked'
        /\ HasAck(ctl'[x][n]) => <<n, x>> \in linked'
        /\ n \in subscribed'[x] => {<<x, n>>, <<n, x>>} \subseteq linked'
        /\ x \in subscribed'[n] /\ n \notin subscribed'[x] => HasAck(ctl'[x][n])
    BY <1>3, <1>5, <1>14, <1>17, <2>1, <2>8 DEF Heard
  <2>10. Heard(x, n)'
    BY <2>9 DEF Heard, HasAck
  <2> QED BY <2>6, <2>10
<1> QED BY <1>15, <1>16, <1>17 DEF Control

LEMMA ControlReceive ==
  ASSUME Control, Types', NEW n \in Node, FlushedControl(n)
  PROVE  Control'
<1>1. Types /\ CTypes /\ \A p \in Node, q \in Node : p # q => InOrder(p, q) /\ Heard(p, q)
  BY DEF Control
<1>2. /\ stage \in [Node -> Stages] /\ next \in [Node -> Nat]
      /\ ctl \in [Node -> [Node -> Seq(Ctl)]] /\ subscribed \in [Node -> SUBSET Node]
  BY <1>1 DEF Types, CTypes
<1>3. /\ stage[n] \in {"drain", "lastdrain"} /\ linked' = linked /\ subscribed' = subscribed
      /\ stage' = [stage EXCEPT ![n] = IF stage[n] = "drain" THEN "flush" ELSE "lastflush"]
      /\ next' = [next EXCEPT ![n] = PeerFrom(n, next[n] + 1)]
  BY DEF FlushedControl
<1>4. PICK x \in Node : x = next[n]
  BY <1>1, <1>3 DEF CTypes
<1> DEFINE s == ctl[n][x]
<1>5. s \in Seq(Ctl) /\ Len(s) \in Nat
  BY <1>2, LenProperties
<1>6. PICK i \in {j \in DOMAIN s : s[j] = "CTRLNONE"} :
        /\ \A j \in {j \in DOMAIN s : s[j] = "CTRLNONE"} : i <= j
        /\ ctl' = [ctl EXCEPT ![n][x] = SubSeq(s, i + 1, Len(s))]
  BY <1>4 DEF FlushedControl
<1>7. /\ i \in 1 .. Len(s) /\ s[i] = "CTRLNONE" /\ i \in 0 .. Len(s)
      /\ \A j \in 1 .. Len(s) : s[j] = "CTRLNONE" => i <= j
  BY <1>5, <1>6
<1> DEFINE r == SubSeq(s, i + 1, Len(s))
<1>8. r \in Seq(Ctl)
  BY <1>5, <1>7, TailedSuffix
<1> HIDE DEF r
<1>9. /\ ctl' \in [Node -> [Node -> Seq(Ctl)]] /\ ctl'[n][x] = r
      /\ \A p \in Node, q \in Node : <<p, q>> # <<n, x>> => ctl'[p][q] = ctl[p][q]
  <2>1. ctl' = [ctl EXCEPT ![n][x] = r]
    BY <1>6 DEF r
  <2> HIDE DEF s
  <2> QED BY <1>2, <1>8, <2>1
<1>10. /\ stage'[n] \in {"flush", "lastflush"} /\ Flushed(stage'[n]) = Flushed(stage[n])
       /\ next'[n] = PeerFrom(n, x + 1)
       /\ \A p \in Node : p # n => stage'[p] = stage[p] /\ next'[p] = next[p]
  BY <1>2, <1>3, <1>4 DEF Flushed
<1>11. /\ PeerFrom(n, x + 1) \in Nat /\ x < PeerFrom(n, x + 1)
       /\ \A q \in Node : q # n /\ q # x => (q < x <=> q < PeerFrom(n, x + 1))
  <2>1. n \in Int /\ x \in Nat /\ \A q \in Node : q \in Int
    BY <1>2, <1>4, Nodes
  <2>2. PeerFrom(n, x + 1) = IF x + 1 = n THEN x + 2 ELSE x + 1
    BY <2>1 DEF PeerFrom
  <2>3. ASSUME NEW q \in Node, q # n, q # x PROVE q < x <=> q < PeerFrom(n, x + 1)
    <3>1. q \in Int
      BY <2>1
    <3>2. CASE x + 1 = n
      BY <2>1, <2>2, <2>3, <3>1, <3>2
    <3>3. CASE x + 1 # n
      BY <2>1, <2>2, <2>3, <3>1, <3>3
    <3> QED BY <3>2, <3>3
  <2> QED BY <2>1, <2>2, <2>3
<1>12. \A q \in Node : q # n =>
         /\ Sent(n, q)' = Sent(n, q)
         /\ q # x => Read(n, q)' = Read(n, q)
         /\ q = x => Read(n, q)' = Read(n, q) + 1
  <2> SUFFICES ASSUME NEW q \in Node, q # n
               PROVE  /\ Sent(n, q)' = Sent(n, q)
                      /\ q # x => Read(n, q)' = Read(n, q)
                      /\ q = x => Read(n, q)' = Read(n, q) + 1
    OBVIOUS
  <2>1. Sent(n, q)' = Read(n, q)' + 0
    BY <1>10 DEF Sent
  <2>2. Flushed(stage[n]) \in 0 .. 1
    BY <1>3 DEF Flushed
  <2>3. CASE q # x
    <3>1. Read(n, q)' = Read(n, q)
      BY <1>3, <1>4, <1>10, <1>11, <2>3 DEF Read
    <3>2. Sent(n, q) = Read(n, q) + 0
      BY <1>4, <2>3 DEF Sent
    <3> QED BY <2>1, <2>3, <3>1, <3>2
  <2>4. CASE q = x
    <3>1. ~(x < x)
      BY <1>2, <1>4
    <3>2. Read(n, x) = Flushed(stage[n]) + 0
      BY <1>4, <3>1 DEF Read
    <3>3. Read(n, x)' = Flushed(stage[n]) + 1
      BY <1>10, <1>11 DEF Read
    <3>4. Sent(n, x) = Read(n, x) + 1
      BY <1>3, <1>4 DEF Sent
    <3> QED BY <2>1, <2>2, <2>4, <3>2, <3>3, <3>4
  <2> QED BY <2>3, <2>4
<1>13. \A p \in Node, q \in Node : p # n => Read(p, q)' = Read(p, q) /\ Sent(p, q)' = Sent(p, q)
  BY <1>10 DEF Read, Sent
<1>14. CTypes'
  <2>1. next' \in [Node -> Nat]
    BY <1>2, <1>3, <1>4, <1>11
  <2>2. \A p \in Node : stage'[p] \in {"drain", "lastdrain"} => next'[p] \in Node
    BY <1>1, <1>10 DEF CTypes
  <2>3. \A p \in Node : stage'[p] \notin {"down", "polls", "sleeps", "done", "waits", "ready", "hello"}
                          => Node \ {p} \subseteq subscribed'[p]
    BY <1>1, <1>3, <1>10 DEF CTypes
  <2>4. \A p \in Node : HasSockets(p) => HasSockets(p)'
    BY <1>10 DEF HasSockets
  <2>5. \A p \in Node, q \in Node : <<p, q>> \in linked' => HasSockets(p)'
    BY <1>1, <1>3, <2>4 DEF CTypes
  <2>6. subscribed' \in [Node -> SUBSET Node] /\ linked' \in SUBSET (Node \X Node)
    BY <1>1, <1>3 DEF CTypes
  <2> QED BY <1>9, <2>1, <2>2, <2>3, <2>5, <2>6 DEF CTypes
<1>15. ASSUME NEW p \in Node, NEW q \in Node, p # q, <<p, q>> # <<n, x>>
       PROVE  InOrder(p, q)' /\ Heard(p, q)'
  <2>1. Read(p, q)' = Read(p, q) /\ Sent(q, p)' = Sent(q, p)
    BY <1>12, <1>13, <1>15
  <2>2. InOrder(p, q) /\ Heard(p, q) /\ ctl'[p][q] = ctl[p][q]
    BY <1>1, <1>9, <1>15
  <2> QED BY <1>3, <2>1, <2>2, PairKept
<1>16. ASSUME n # x PROVE InOrder(n, x)' /\ Heard(n, x)'
  <2> DEFINE u == Sent(x, n) - Read(n, x)
  <2>1. InOrder(n, x) /\ Heard(n, x)
    BY <1>1, <1>16
  <2>2. Tailed(s, u) /\ u \in Nat
    BY <2>1 DEF InOrder, Tailed
  <2>3. Sent(x, n)' - Read(n, x)' = u - 1
    <3>1. Sent(x, n)' = Sent(x, n) /\ Read(n, x)' = Read(n, x) + 1
      BY <1>12, <1>13, <1>16
    <3>2. Sent(x, n) \in Int /\ Read(n, x) \in Int
      BY <1>1, Counts
    <3> QED BY <3>1, <3>2
  <2> HIDE DEF u, s
  <2>4. Tailed(r, u - 1) /\ Len(r) = u - 1
    BY <1>5, <1>7, <2>2, TailedRead DEF r
  <2>5. InOrder(n, x)'
    <3>1. Tailed(ctl'[n][x], Sent(x, n)' - Read(n, x)') /\ Len(ctl'[n][x]) = Sent(x, n)' - Read(n, x)'
      BY <1>9, <2>3, <2>4
    <3> QED BY <3>1 DEF InOrder, Tailed
  <2>6. HasAck(r) => HasAck(s)
    BY <1>5, <1>7, HasAckSuffix DEF r
  <2>7. s # <<>>
    BY <1>5, <1>7
  <2>8. x \in subscribed[n]
    BY <1>1, <1>3, <1>16 DEF CTypes
  <2>9. /\ ctl'[n][x] # <<>> => <<n, x>> \in linked'
        /\ HasAck(ctl'[n][x]) => <<x, n>> \in linked'
        /\ x \in subscribed'[n] => {<<n, x>>, <<x, n>>} \subseteq linked'
        /\ n \in subscribed'[x] /\ x \notin subscribed'[n] => HasAck(ctl'[n][x])
    BY <1>3, <1>9, <2>1, <2>8 DEF Heard
  <2>10. Heard(n, x)'
    BY <2>9 DEF Heard, HasAck
  <2> QED BY <2>5, <2>10
<1> QED BY <1>14, <1>15, <1>16 DEF Control

LEMMA ControlInit ==
  ASSUME Init
  PROVE  Control
<1>1. /\ Types /\ stage = [n \in Node |-> "down"] /\ next = [n \in Node |-> 0]
      /\ linked = {} /\ subscribed = [n \in Node |-> {}]
      /\ ctl = [n \in Node |-> [m \in Node |-> <<>>]]
  BY InitInv DEF Init, IInv
<1>2. CTypes
  BY <1>1 DEF CTypes
<1>3. ASSUME NEW n \in Node, NEW m \in Node PROVE InOrder(n, m) /\ Heard(n, m)
  <2>1. /\ Read(n, m) = 0 + 0 /\ Sent(m, n) = Read(m, n) + 0 /\ Read(m, n) = 0 + 0
    BY <1>1 DEF Read, Sent, Flushed
  <2>2. ctl[n][m] = <<>> /\ Len(<<>>) = 0
    BY <1>1
  <2>3. InOrder(n, m)
    BY <2>1, <2>2 DEF InOrder, Tailed
  <2>4. Heard(n, m)
    BY <1>1, <2>2 DEF Heard, HasAck
  <2> QED BY <2>3, <2>4
<1> QED BY <1>1, <1>2, <1>3 DEF Control

LEMMA ControlStep ==
  ASSUME Control, Types', [Next]_vars
  PROVE  Control'
<1>1. CASE UNCHANGED vars
  <2>1. stage' = stage /\ UNCHANGED <<ctlvars, next>> /\ 0 \in Node
    BY <1>1, Nodes DEF vars, flushvars, Node
  <2> QED BY <2>1, ControlEarly
<1>2. ASSUME NEW n \in Node, Step(n) PROVE Control'
  <2>1. CASE Manager(n)
    BY <2>1, ControlManager
  <2>2. ASSUME NEW m \in Node \ {n}, IAmUp(n, m) \/ Turn(n, m) PROVE Control'
    BY <2>2, ControlIAmUp, ControlTurn
  <2>3. CASE FlushData(n) \/ FlushedData(n) \/ Runs(n)
    BY <2>3, ControlData
  <2>4. CASE FlushControl(n)
    BY <2>4, ControlSend
  <2>5. CASE FlushedControl(n)
    BY <2>5, ControlReceive
  <2> QED BY <1>2, <2>1, <2>2, <2>3, <2>4, <2>5 DEF Step, Flushes, Hello
<1> QED BY <1>1, <1>2 DEF Next

LEMMA ControlImpliesClean ==
  ASSUME Control
  PROVE  ControlClean
<1> SUFFICES ASSUME NEW n \in Node, NEW m \in Node \ {n}
             PROVE  /\ m \in subscribed[n] => {<<n, m>>, <<m, n>>} \subseteq linked
                    /\ Up(n) => ctl[n][m] \in {<<>>, <<"CTRLNONE">>} /\ (ctl[n][m] # <<>> => ~Up(m))
  BY DEF ControlClean
<1>1. Types /\ CTypes /\ InOrder(n, m) /\ Heard(n, m)
  BY DEF Control
<1>2. m \in subscribed[n] => {<<n, m>>, <<m, n>>} \subseteq linked
  BY <1>1 DEF Heard
<1>3. ASSUME Up(n) PROVE ctl[n][m] \in {<<>>, <<"CTRLNONE">>} /\ (ctl[n][m] # <<>> => ~Up(m))
  <2>1. \A p \in Node, q \in Node : Up(p) => Read(p, q) = 1 /\ Sent(p, q) = 1
    <3> SUFFICES ASSUME NEW p \in Node, NEW q \in Node, Up(p) PROVE Read(p, q) = 1 /\ Sent(p, q) = 1
      OBVIOUS
    <3>1. stage[p] = "flush" /\ q < next[p]
      BY Nodes DEF Up, Node
    <3>2. Read(p, q) = 0 + 1 /\ Sent(p, q) = Read(p, q) + 0
      BY <3>1 DEF Read, Sent, Flushed
    <3> QED BY <3>2
  <2>2. /\ ctl[n][m] \in Seq(Ctl) /\ Sent(m, n) \in 0 .. 2
        /\ Tailed(ctl[n][m], Sent(m, n) - 1) /\ Len(ctl[n][m]) = Sent(m, n) - 1
    BY <1>1, <1>3, <2>1, Counts DEF InOrder, CTypes
  <2>3. Len(ctl[n][m]) \in {0, 1}
    BY <2>2 DEF Tailed
  <2>4. CASE Len(ctl[n][m]) = 0
    BY <2>2, <2>4, EmptySeq
  <2>5. CASE Len(ctl[n][m]) = 1
    <3>1. ctl[n][m][1] = "CTRLNONE"
      BY <2>2, <2>5 DEF Tailed
    <3>2. ctl[n][m] = <<"CTRLNONE">>
      BY <2>2, <2>5, <3>1
    <3>3. ~Up(m)
      <4>1. Sent(m, n) = 2
        BY <2>2, <2>5
      <4> QED BY <2>1, <4>1
    <3> QED BY <3>2, <3>3
  <2> QED BY <2>3, <2>4, <2>5
<1> QED BY <1>2, <1>3

\* Whatever copies of IAMUP and ISEEYOUUP are under way, and however early the other
\* nodes flush: when a node is up there is nothing for it on its control sockets but
\* the CTRLNONE of a node that is about to close, and who has subscribed is heard.
THEOREM HandshakeClean == Spec => []ControlClean
<1>1. Init => Control
  BY ControlInit
<1>2. Control /\ IInv' /\ [Next]_vars => Control'
  BY ControlStep DEF IInv
<1>3. Control => ControlClean
  BY ControlImpliesClean
<1> QED BY <1>1, <1>2, <1>3, FlushInvariance, PTL DEF Spec

-----------------------------------------------------------------------------
(* The types.  What is not a matter of the types alone is that remaining   *)
(* does not wrap around while the master counts WORKERUP messages: it      *)
(* still has to hear, at least, of the workers that have not answered and  *)
(* of those whose answer it has not read (StartUp).                        *)

StartMsg == [type : {"MASTERUP", "WORKERUP"}, info : {0}]
MasterEarly == stage[Master] \in {"down", "polls", "sleeps", "done"}

Unanswered == {w \in Worker : stage[w] \in {"down", "waits"}}
Full == {w \in Worker : chan[Master][w] # <<>>}

Common ==
  /\ op \in [Node -> {"idle", "barrier", "sync"}] /\ remaining \in [Node -> 0 .. Wrap - 1]
  /\ \A n \in Node : ~HasSockets(n) => remaining[n] < numNodes
  /\ \A n \in Node : n \notin subscribed[n]
  /\ stage[Master] \notin {"waits", "ready"}
  /\ \A w \in Worker : stage[w] \notin {"polls", "sleeps", "done"}
  /\ lost \subseteq MayLose

StartUp ==
  /\ MasterEarly =>
       /\ chan \in [Node -> [Node -> Seq(StartMsg)]]
       /\ \A w \in Worker :
            /\ stage[w] \in {"down", "waits", "ready"} /\ Len(chan[Master][w]) <= 1
            /\ stage[w] \in {"down", "waits"} => chan[Master][w] = <<>>
  /\ stage[Master] \in {"polls", "sleeps"} =>
       Cardinality(Unanswered \cup Full) <= remaining[Master]

LEMMA Workers ==
  /\ numNodes \in Nat /\ numNodes >= 2 /\ Wrap \in Nat /\ Wrap > numNodes
  /\ IsFiniteSet(Worker) /\ Cardinality(Worker) = numNodes - 1
  /\ Worker \subseteq Node /\ Master \in Node /\ Master \notin Worker
  /\ \A n \in Node : n = Master \/ n \in Worker
<1>1. IsFiniteSet(Node \ {Master}) /\ Cardinality(Node \ {Master}) = Cardinality(Node) - 1
  BY Nodes, FS_RemoveElement
<1> QED BY <1>1, Nodes, ClusterOK DEF Worker

LEMMA InWrap ==
  ASSUME NEW x \in Int
  PROVE  x % Wrap \in 0 .. Wrap - 1 /\ (0 <= x /\ x < Wrap => x % Wrap = x)
<1>1. Wrap \in Nat /\ Wrap > 0
  BY Workers
<1> QED BY <1>1

\* Nobody but the master and workers that are early is about as long as the master is
\* early: what the others do is no concern of the start-up.
LEMMA StartLate ==
  ASSUME Common, StartUp, Types, CTypes, NEW n \in Node, HasSockets(n),
         \/ stage' = stage
         \/ \E s \in Stages \ Early : stage' = [stage EXCEPT ![n] = s],
         \/ remaining' = remaining
         \/ \E r \in 0 .. Wrap - 1 : remaining' = [remaining EXCEPT ![n] = r],
         \/ op' = op
         \/ \E c \in {"idle", "barrier", "sync"} : op' = [op EXCEPT ![n] = c],
         \/ subscribed' = subscribed
         \/ \E m \in Node \ {n} : subscribed' = [subscribed EXCEPT ![n] = @ \cup {m}],
         lost' = lost
  PROVE  Common' /\ StartUp'
<1>1. ~MasterEarly
  <2>1. CASE n = Master
    BY <2>1 DEF MasterEarly, HasSockets
  <2>2. CASE n \in Worker
    BY <2>2 DEF StartUp, HasSockets
  <2> QED BY <2>1, <2>2, Workers
<1>2. /\ stage \in [Node -> Stages]
      /\ \A p \in Node : stage'[p] = stage[p] \/ (p = n /\ stage'[p] \in Stages \ Early)
  BY DEF Types
<1>3. ~(MasterEarly)' /\ stage'[Master] \notin {"polls", "sleeps"}
  BY <1>1, <1>2, Workers DEF MasterEarly, Early
<1>4. StartUp'
  BY <1>3 DEF StartUp
<1>5. \A p \in Node : ~HasSockets(p)' => p # n /\ ~HasSockets(p)
  BY <1>2 DEF HasSockets, Early
<1>6. /\ op' \in [Node -> {"idle", "barrier", "sync"}] /\ remaining' \in [Node -> 0 .. Wrap - 1]
      /\ \A p \in Node : p # n => remaining'[p] = remaining[p]
  BY DEF Common
<1>7. \A p \in Node : p \notin subscribed'[p]
  <2>1. subscribed \in [Node -> SUBSET Node] /\ \A p \in Node : p \notin subscribed[p]
    BY DEF Common, CTypes
  <2>2. CASE subscribed' = subscribed
    BY <2>1, <2>2
  <2>3. ASSUME NEW m \in Node \ {n}, subscribed' = [subscribed EXCEPT ![n] = @ \cup {m}]
        PROVE  \A p \in Node : p \notin subscribed'[p]
    BY <2>1, <2>3
  <2> QED BY <2>2, <2>3
<1>8. /\ stage'[Master] \notin {"waits", "ready"}
      /\ \A w \in Worker : stage'[w] \notin {"polls", "sleeps", "done"}
  BY <1>2, Workers DEF Common, Early
<1>9. Common'
  BY <1>5, <1>6, <1>7, <1>8 DEF Common
<1> QED BY <1>4, <1>9

LEMMA LateSteps ==
  ASSUME Common, StartUp, Types, CTypes, NEW n \in Node,
         Hello(n) \/ Flushes(n) \/ Runs(n)
  PROVE  Common' /\ StartUp'
<1> USE DEF Stages, Early
<1>1. ASSUME NEW m \in Node \ {n}, IAmUp(n, m) PROVE Common' /\ StartUp'
  <2>1. HasSockets(n)
    BY <1>1 DEF IAmUp, HasSockets
  <2>2. UNCHANGED <<stage, remaining, op, subscribed, lost>>
    BY <1>1 DEF IAmUp, nodevars, callvars
  <2> QED BY <2>1, <2>2, StartLate
<1>2. ASSUME NEW m \in Node \ {n}, Turn(n, m) PROVE Common' /\ StartUp'
  <2>1. HasSockets(n)
    BY <1>2 DEF Turn, HasSockets
  <2>2. UNCHANGED <<stage, remaining, op, lost>>
    BY <1>2 DEF Turn, nodevars, callvars
  <2>3. subscribed' = subscribed \/ subscribed' = [subscribed EXCEPT ![n] = @ \cup {m}]
    BY <1>2 DEF Turn
  <2> QED BY <2>1, <2>2, <2>3, StartLate
<1>3. CASE FlushData(n)
  <2>1. HasSockets(n) /\ UNCHANGED <<remaining, op, subscribed, lost>>
    BY <1>3 DEF FlushData, HasSockets, nodevars, callvars, ctlvars
  <2>2. \E s \in Stages \ Early : stage' = [stage EXCEPT ![n] = s]
    BY <1>3 DEF FlushData
  <2> QED BY <2>1, <2>2, StartLate
<1>4. CASE FlushedData(n)
  <2>1. HasSockets(n) /\ UNCHANGED <<remaining, op, subscribed, lost>>
    BY <1>4 DEF FlushedData, HasSockets, nodevars, callvars, ctlvars
  <2>2. \E s \in Stages \ Early : stage' = [stage EXCEPT ![n] = s]
    BY <1>4 DEF FlushedData
  <2> QED BY <2>1, <2>2, StartLate
<1>5. CASE FlushControl(n)
  <2>1. HasSockets(n) /\ UNCHANGED <<remaining, op, subscribed, lost>>
    BY <1>5 DEF FlushControl, HasSockets, nodevars, callvars
  <2>2. \E s \in Stages \ Early : stage' = [stage EXCEPT ![n] = s]
    BY <1>5 DEF FlushControl
  <2> QED BY <2>1, <2>2, StartLate
<1>6. CASE FlushedControl(n)
  <2>1. HasSockets(n) /\ UNCHANGED <<remaining, op, subscribed, lost>>
    BY <1>6 DEF FlushedControl, HasSockets, nodevars, callvars
  <2>2. \E s \in Stages \ Early : stage' = [stage EXCEPT ![n] = s]
    BY <1>6 DEF FlushedControl
  <2> QED BY <2>1, <2>2, StartLate
<1>7. CASE Destroy(n)
  <2>1. HasSockets(n) /\ UNCHANGED <<remaining, op, subscribed, lost>>
    BY <1>7 DEF Destroy, Up, HasSockets, nodevars, callvars, ctlvars
  <2>2. \E s \in Stages \ Early : stage' = [stage EXCEPT ![n] = s]
    BY <1>7 DEF Destroy
  <2> QED BY <2>1, <2>2, StartLate
<1>8. CASE Call(n)
  <2>1. HasSockets(n) /\ UNCHANGED <<stage, subscribed, lost>>
    BY <1>8 DEF Call, Up, HasSockets, ctlvars
  <2>2. remaining[n] \in Int /\ NM!NumNodes \in Int
    <3>1. remaining[n] \in 0 .. Wrap - 1 /\ Wrap \in Int
      BY Workers DEF Common
    <3>2. NM!NumNodes = Cardinality(Node)
      BY DEF NM!NumNodes, NM!Cardinality, Cardinality
    <3> QED BY <3>1, <3>2, Nodes
  <2>3. /\ (remaining[n] - 1) % Wrap \in 0 .. Wrap - 1
        /\ (remaining[n] + NM!NumNodes) % Wrap \in 0 .. Wrap - 1
    BY <2>2, InWrap
  <2>4. ASSUME NEW m \in Node, NEW msg, NM!ParseNodeMsg(n, m, msg)
        PROVE  remaining' = remaining \/ remaining' = [remaining EXCEPT ![n] = (remaining[n] - 1) % Wrap]
    BY <2>4 DEF NM!ParseNodeMsg
  <2>5. CASE NM!Barriers(n)
    <3>1. CASE NM!BarrierCall(n)
      <4>1. /\ remaining' = [remaining EXCEPT ![n] = (remaining[n] + NM!NumNodes) % Wrap]
            /\ op' = [op EXCEPT ![n] = "barrier"]
        BY <3>1 DEF NM!BarrierCall, NM!Calls
      <4> QED BY <2>1, <2>3, <4>1, StartLate
    <3>2. ASSUME NEW m \in Node, NM!BarrierRecv(n, m) PROVE Common' /\ StartUp'
      <4>1. /\ remaining' = remaining \/ remaining' = [remaining EXCEPT ![n] = (remaining[n] - 1) % Wrap]
            /\ op' = op
        BY <3>2, <2>4 DEF NM!BarrierRecv
      <4> QED BY <2>1, <2>3, <4>1, StartLate
    <3>3. CASE NM!BarrierReturn(n)
      <4>1. remaining' = remaining /\ op' = [op EXCEPT ![n] = "idle"]
        BY <3>3 DEF NM!BarrierReturn
      <4> QED BY <2>1, <4>1, StartLate
    <3> QED BY <2>5, <3>1, <3>2, <3>3 DEF NM!Barriers
  <2>6. CASE NM!Syncs(n)
    <3>1. CASE NM!SyncCall(n)
      <4>1. remaining' = remaining /\ op' = [op EXCEPT ![n] = "sync"]
        BY <3>1 DEF NM!SyncCall, NM!Calls
      <4> QED BY <2>1, <4>1, StartLate
    <3>2. ASSUME NEW m \in Node, NM!SyncRecv(n, m) PROVE Common' /\ StartUp'
      <4>1. /\ remaining' = remaining \/ remaining' = [remaining EXCEPT ![n] = (remaining[n] - 1) % Wrap]
            /\ op' = op
        BY <3>2, <2>4 DEF NM!SyncRecv
      <4> QED BY <2>1, <2>3, <4>1, StartLate
    <3>3. CASE NM!SyncReturn(n)
      <4>1. remaining' = remaining /\ op' = [op EXCEPT ![n] = "idle"]
        BY <3>3 DEF NM!SyncReturn
      <4> QED BY <2>1, <4>1, StartLate
    <3> QED BY <2>6, <3>1, <3>2, <3>3 DEF NM!Syncs
  <2> QED BY <1>8, <2>5, <2>6 DEF Call
<1> QED BY <1>1, <1>2, <1>3, <1>4, <1>5, <1>6, <1>7, <1>8 DEF Hello, Flushes, Runs

LEMMA Owing ==
  ASSUME NEW S, S \subseteq Worker
  PROVE  IsFiniteSet(S) /\ Cardinality(S) \in Nat /\ Cardinality(S) <= numNodes - 1
BY Workers, FS_Subset, FS_CardinalityType

\* How many WORKERUP the master reads.
LEMMA ReadsFull ==
  ASSUME MasterEarly, StartUp
  PROVE  WorkersUp = Cardinality(Full) /\ WorkersUp \in Nat
<1> DEFINE S == {x \in Worker \X (1 .. 2 * Polls) : x[2] <= Len(chan[Master][x[1]])}
           f == [w \in Full |-> <<w, 1>>]
<1>1. /\ \A w \in Worker : chan[Master][w] \in Seq(StartMsg) /\ Len(chan[Master][w]) <= 1
      /\ Polls \in Nat \ {0} /\ Full \subseteq Worker
  BY Workers, ClusterOK DEF StartUp, Full
<1>8. \A q \in Seq(StartMsg) : Len(q) \in Nat /\ (q = <<>> <=> Len(q) = 0)
  BY EmptySeq
<1>9. \A w \in Worker : /\ Len(chan[Master][w]) \in Nat /\ Len(chan[Master][w]) \in {0, 1}
                        /\ chan[Master][w] = <<>> <=> Len(chan[Master][w]) = 0
  <2> TAKE w \in Worker
  <2>1. PICK q \in Seq(StartMsg) : q = chan[Master][w] /\ Len(q) <= 1
    BY <1>1
  <2>2. Len(q) \in Nat /\ (q = <<>> <=> Len(q) = 0)
    BY <1>8
  <2>4. \A l \in Nat : l <= 1 => l \in {0, 1}
    OBVIOUS
  <2>3. Len(q) \in {0, 1}
    BY <2>1, <2>2, <2>4, Zenon
  <2> QED BY <2>1, <2>2, <2>3
<1>11. \A l \in {0, 1}, i \in Int : 1 <= i /\ i <= l => i = 1 /\ l = 1
  OBVIOUS
<1>2. \A w \in Worker : w \in Full <=> Len(chan[Master][w]) = 1
  BY <1>9 DEF Full
<1>10. 1 \in 1 .. 2 * Polls
  BY <1>1
<1>3. \A w \in Full : <<w, 1>> \in S
  BY <1>1, <1>2, <1>10
<1>4. \A x \in S : x[1] \in Full /\ x = <<x[1], 1>>
  <2> SUFFICES ASSUME NEW w \in Worker, NEW i \in 1 .. 2 * Polls, i <= Len(chan[Master][w])
               PROVE  w \in Full /\ i = 1
    OBVIOUS
  <2>1. Len(chan[Master][w]) \in {0, 1} /\ i \in Int /\ 1 <= i
    BY <1>1, <1>9
  <2>2. i = 1 /\ Len(chan[Master][w]) = 1
    BY <2>1, <1>11, Zenon
  <2> QED BY <1>2, <2>2
<1> HIDE DEF S
<1>5. f \in Bijection(Full, S)
  BY <1>3, <1>4 DEF Bijection, Injection, Surjection, IsInjective
<1>6. IsFiniteSet(Full) /\ Cardinality(Full) \in Nat
  BY <1>1, Owing
<1>7. Cardinality(S) = Cardinality(Full)
  BY <1>5, <1>6, FS_Bijection DEF ExistsBijection
<1> QED BY <1>6, <1>7 DEF WorkersUp, S

LEMMA ManagerSteps ==
  ASSUME Common, StartUp, Types, NEW n \in Node, Manager(n)
  PROVE  Common' /\ StartUp'
<1>0. /\ stage \in [Node -> Stages] /\ Master \in Node /\ remaining \in [Node -> 0 .. Wrap - 1]
      /\ numNodes \in Nat /\ Wrap \in Nat /\ numNodes < Wrap /\ numNodes >= 2
      /\ \A p \in Node : p = Master \/ p \in Worker
      /\ Worker \subseteq Node /\ Master \notin Worker
  BY Workers DEF Types, Common
<1>1. CASE Start(n)
  <2>1. /\ stage[n] = "down" /\ UNCHANGED <<chan, op, subscribed, lost>>
        /\ stage' = [stage EXCEPT ![n] = IF n = Master THEN "polls" ELSE "waits"]
        /\ remaining' = IF n = Master THEN [remaining EXCEPT ![n] = numNodes - 1] ELSE remaining
    BY <1>1 DEF Start, callvars, ctlvars
  <2>2. Common'
    <3>1. remaining' \in [Node -> 0 .. Wrap - 1] /\ \A p \in Node : remaining'[p] = remaining[p] \/ remaining'[p] < numNodes
      BY <1>0, <2>1
    <3>2. \A p \in Node : HasSockets(p)' <=> HasSockets(p)
      BY <1>0, <2>1 DEF HasSockets
    <3>3. /\ stage'[Master] \notin {"waits", "ready"}
          /\ \A w \in Worker : stage'[w] \notin {"polls", "sleeps", "done"}
      BY <1>0, <2>1 DEF Common
    <3> QED BY <2>1, <3>1, <3>2, <3>3 DEF Common
  <2>3. CASE n = Master
    <3>1. Cardinality((Unanswered \cup Full)') <= numNodes - 1
      BY Owing DEF Unanswered, Full
    <3>2. remaining'[Master] = numNodes - 1
      BY <1>0, <2>1, <2>3
    <3>3. MasterEarly /\ \A w \in Worker : stage'[w] = stage[w]
      BY <1>0, <2>1, <2>3 DEF MasterEarly
    <3> QED BY <2>1, <2>2, <3>1, <3>2, <3>3 DEF StartUp
  <2>4. CASE n \in Worker
    <3>1. /\ stage'[Master] = stage[Master] /\ remaining' = remaining
          /\ (MasterEarly)' <=> MasterEarly
          /\ \A w \in Worker : stage'[w] = IF w = n THEN "waits" ELSE stage[w]
      BY <1>0, <2>1, <2>4 DEF MasterEarly
    <3>2. Unanswered' = Unanswered /\ Full' = Full
      BY <2>1, <3>1, <2>4 DEF Unanswered, Full
    <3> QED BY <2>1, <2>2, <2>4, <3>1, <3>2 DEF StartUp
  <2> QED BY <1>0, <2>3, <2>4
<1>2. CASE Answer(n)
  <2>1. /\ stage[n] = "waits" /\ stage' = [stage EXCEPT ![n] = "ready"]
        /\ UNCHANGED <<remaining, op, subscribed>>
        /\ lost' \subseteq MayLose /\ n \in Worker
    BY <1>2, <1>0 DEF Answer, callvars, ctlvars, Common
  <2>2. Common'
    <3>1. \A p \in Node : HasSockets(p)' <=> HasSockets(p)
      BY <1>0, <2>1 DEF HasSockets
    <3>2. /\ stage'[Master] \notin {"waits", "ready"}
          /\ \A w \in Worker : stage'[w] \notin {"polls", "sleeps", "done"}
      BY <1>0, <2>1 DEF Common
    <3> QED BY <2>1, <3>1, <3>2 DEF Common
  <2>3. /\ stage'[Master] = stage[Master]
        /\ (MasterEarly)' <=> MasterEarly
        /\ \A w \in Worker : stage'[w] = IF w = n THEN "ready" ELSE stage[w]
    BY <1>0, <2>1 DEF MasterEarly
  <2>4. CASE ~MasterEarly
    BY <2>2, <2>3, <2>4 DEF StartUp, MasterEarly
  <2>5. CASE MasterEarly
    <3> DEFINE up == [type |-> "WORKERUP", info |-> 0]
    <3>1. up \in StartMsg
      BY DEF StartMsg
    <3>2. /\ chan \in [Node -> [Node -> Seq(StartMsg)]] /\ chan[n][Master] # <<>>
          /\ chan[Master][n] = <<>>
      BY <1>2, <2>1, <2>5 DEF StartUp, Answer
    <3>3. chan' = [chan EXCEPT ![n][Master] = Tail(@),
                              ![Master][n] = IF n \in lost' THEN @ ELSE Append(@, up)]
      BY <1>2 DEF Answer
    <3> HIDE DEF up
    <3>4. /\ Tail(chan[n][Master]) \in Seq(StartMsg)
          /\ Append(chan[Master][n], up) \in Seq(StartMsg) /\ Len(Append(chan[Master][n], up)) <= 1
          /\ Len(chan[Master][n]) <= 1
      <4>1. chan[n][Master] \in Seq(StartMsg) /\ chan[Master][n] \in Seq(StartMsg)
        BY <1>0, <3>2
      <4>2. Tail(chan[n][Master]) \in Seq(StartMsg) /\ Append(chan[Master][n], up) \in Seq(StartMsg)
        BY <3>1, <3>2, <4>1
      <4>3. Len(chan[Master][n]) = 0
        BY <3>2
      <4>4. Len(Append(chan[Master][n], up)) = Len(chan[Master][n]) + 1
        BY <3>1, <4>1
      <4> QED BY <4>2, <4>3, <4>4
    <3>5. /\ chan' \in [Node -> [Node -> Seq(StartMsg)]]
          /\ \A w \in Worker : w # n => chan'[Master][w] = chan[Master][w]
          /\ Len(chan'[Master][n]) <= 1
      BY <1>0, <2>1, <3>2, <3>3, <3>4
    <3>6. (Unanswered \cup Full)' \subseteq Unanswered \cup Full
      BY <2>1, <2>3, <3>5 DEF Unanswered, Full
    <3>7. (Unanswered \cup Full)' \in SUBSET (Unanswered \cup Full) /\ IsFiniteSet(Unanswered \cup Full)
      BY <3>6, Owing DEF Unanswered, Full
    <3>8. Cardinality((Unanswered \cup Full)') <= Cardinality(Unanswered \cup Full)
      BY <3>7, FS_Subset
    <3>9. /\ Cardinality((Unanswered \cup Full)') \in Nat /\ Cardinality(Unanswered \cup Full) \in Nat
          /\ remaining[Master] \in Int
      <4>1. remaining[Master] \in 0 .. Wrap - 1
        BY <1>0
      <4> QED BY <4>1, <1>0, Owing DEF Unanswered, Full
    <3>10. stage'[Master] \in {"polls", "sleeps"} =>
            Cardinality((Unanswered \cup Full)') <= remaining'[Master]
      BY <2>1, <2>3, <3>8, <3>9 DEF StartUp
    <3>11. \A w \in Worker :
            /\ stage'[w] \in {"down", "waits", "ready"} /\ Len(chan'[Master][w]) <= 1
            /\ stage'[w] \in {"down", "waits"} => chan'[Master][w] = <<>>
      BY <2>3, <2>5, <3>5 DEF StartUp
    <3> QED BY <2>2, <3>5, <3>10, <3>11 DEF StartUp
  <2> QED BY <2>4, <2>5
<1>3. CASE n = Master /\ Poll
  <2>1. /\ stage[Master] = "polls" /\ stage' = [stage EXCEPT ![Master] = "sleeps"]
        /\ UNCHANGED <<remaining, op, subscribed, lost>>
    BY <1>3 DEF Poll, callvars, ctlvars
  <2>2. /\ stage'[Master] = "sleeps" /\ \A w \in Worker : stage'[w] = stage[w]
    BY <1>0, <2>1
  <2>3. Common'
    <3>1. \A p \in Node : HasSockets(p)' <=> HasSockets(p)
      BY <1>0, <2>1 DEF HasSockets
    <3> QED BY <2>1, <2>2, <3>1 DEF Common
  <2>4. PICK T \in SUBSET Worker :
          chan' = [p \in Node |-> [chan[p] EXCEPT ![Master] =
                     IF p \in T THEN Append(@, [type |-> "MASTERUP", info |-> 0]) ELSE @]]
    BY <1>3 DEF Poll, Publish
  <2> DEFINE up == [type |-> "MASTERUP", info |-> 0]
  <2>5. up \in StartMsg /\ chan \in [Node -> [Node -> Seq(StartMsg)]]
    BY <2>1 DEF StartMsg, StartUp, MasterEarly
  <2> HIDE DEF up
  <2>6. chan' \in [Node -> [Node -> Seq(StartMsg)]] /\ chan'[Master] = chan[Master]
    <3>1. chan' = [p \in Node |-> [chan[p] EXCEPT ![Master] = IF p \in T THEN Append(@, up) ELSE @]]
      BY <2>4 DEF up
    <3>2. \A p \in Node : chan[p] \in [Node -> Seq(StartMsg)] /\ chan[p][Master] \in Seq(StartMsg)
      BY <1>0, <2>5
    <3>3. \A p \in Node : Append(chan[p][Master], up) \in Seq(StartMsg)
      BY <2>5, <3>2
    <3>4. \A p \in Node : [chan[p] EXCEPT ![Master] = IF p \in T THEN Append(@, up) ELSE @]
                            \in [Node -> Seq(StartMsg)]
      BY <3>2, <3>3
    <3>5. chan'[Master] = [chan[Master] EXCEPT ![Master] = chan[Master][Master]]
      BY <1>0, <3>1
    <3> QED BY <1>0, <3>1, <3>2, <3>4, <3>5
  <2>7. Unanswered' = Unanswered /\ Full' = Full
    BY <2>2, <2>6 DEF Unanswered, Full
  <2> QED BY <2>1, <2>2, <2>3, <2>6, <2>7 DEF StartUp, MasterEarly
<1>4. CASE n = Master /\ Drain
  <2>1. /\ stage[Master] = "sleeps" /\ UNCHANGED <<op, subscribed, lost>>
        /\ remaining' = [remaining EXCEPT ![Master] = (@ - WorkersUp) % Wrap]
        /\ chan' = [chan EXCEPT ![Master] = [m \in Node |-> <<>>]]
        /\ stage' = [stage EXCEPT ![Master] = IF remaining[Master] > WorkersUp THEN "polls" ELSE "done"]
    BY <1>4 DEF Drain, callvars, ctlvars
  <2>2. MasterEarly /\ chan \in [Node -> [Node -> Seq(StartMsg)]]
    BY <2>1 DEF MasterEarly, StartUp
  <2>3. chan' \in [Node -> [Node -> Seq(StartMsg)]] /\ \A w \in Worker : chan'[Master][w] = <<>>
    BY <1>0, <2>1, <2>2
  <2>4. /\ stage'[Master] \in {"polls", "done"} /\ \A w \in Worker : stage'[w] = stage[w]
    BY <1>0, <2>1
  <2>5. WorkersUp = Cardinality(Full) /\ WorkersUp \in Nat
    BY <2>2, ReadsFull
  <2>6. Unanswered' = Unanswered /\ Full' = {}
    BY <2>3, <2>4 DEF Unanswered, Full
  <2>7. Unanswered \cap Full = {}
    BY <2>2 DEF Unanswered, Full, StartUp
  <2>8. /\ IsFiniteSet(Unanswered) /\ Cardinality(Unanswered) \in Nat
        /\ IsFiniteSet(Full) /\ Cardinality(Full) \in Nat
    BY Owing DEF Unanswered, Full
  <2>9. Cardinality(Unanswered \cup Full) = Cardinality(Unanswered) + Cardinality(Full)
    <3>1. Cardinality(Unanswered \cup Full)
            = Cardinality(Unanswered) + Cardinality(Full) - Cardinality(Unanswered \cap Full)
      BY <2>8, FS_Union
    <3> QED BY <2>7, <2>8, <3>1, FS_EmptySet
  <2> DEFINE r == remaining[Master]
             k == Cardinality(Full)
             u == Cardinality(Unanswered)
  <2>10. r \in 0 .. Wrap - 1 /\ r < numNodes /\ u + k <= r
    <3>1. ~HasSockets(Master)
      BY <2>1 DEF HasSockets
    <3> QED BY <1>0, <2>1, <2>9, <3>1 DEF Common, StartUp
  <2>11. (r - k) % Wrap \in 0 .. Wrap - 1 /\ (r - k) % Wrap = r - k /\ r - k < numNodes /\ u <= r - k
    <3> HIDE DEF r, k, u
    <3>0. r - k \in Int /\ 0 <= r - k /\ r - k < Wrap /\ r - k < numNodes /\ u <= r - k
      BY <1>0, <2>8, <2>10 DEF k, u
    <3> QED BY <3>0, InWrap
  <2>12. /\ remaining' \in [Node -> 0 .. Wrap - 1] /\ remaining'[Master] = r - k
         /\ \A w \in Worker : remaining'[w] = remaining[w]
    BY <1>0, <2>1, <2>5, <2>11
  <2>13. Common'
    <3>1. \A p \in Node : ~HasSockets(p)' => remaining'[p] < numNodes
      <4> SUFFICES ASSUME NEW p \in Node, ~HasSockets(p)' PROVE remaining'[p] < numNodes
        OBVIOUS
      <4>1. CASE p = Master
        BY <2>11, <2>12, <4>1
      <4>2. CASE p \in Worker
        BY <2>4, <2>12, <4>2 DEF Common, HasSockets
      <4> QED BY <1>0, <4>1, <4>2
    <3> QED BY <2>1, <2>4, <2>12, <3>1 DEF Common
  <2>14. Cardinality((Unanswered \cup Full)') <= remaining'[Master]
    <3>1. (Unanswered \cup Full)' = Unanswered
      BY <2>6
    <3> QED BY <2>11, <2>12, <3>1
  <2>15. \A w \in Worker :
           /\ stage'[w] \in {"down", "waits", "ready"} /\ Len(chan'[Master][w]) <= 1
           /\ stage'[w] \in {"down", "waits"} => chan'[Master][w] = <<>>
    <3>1. Len(<<>>) <= 1
      OBVIOUS
    <3> QED BY <2>2, <2>3, <2>4, <3>1 DEF StartUp
  <2> QED BY <2>3, <2>13, <2>14, <2>15 DEF StartUp
<1>5. CASE n = Master /\ InitDone
  <2>1. /\ stage[Master] = "done" /\ stage' = [stage EXCEPT ![Master] = "hello"]
        /\ UNCHANGED <<remaining, op, subscribed, lost>>
    BY <1>5 DEF InitDone, callvars, ctlvars
  <2>2. /\ stage'[Master] = "hello" /\ \A w \in Worker : stage'[w] = stage[w]
    BY <1>0, <2>1
  <2>3. \A p \in Node : ~HasSockets(p)' => ~HasSockets(p)
    BY <1>0, <2>1 DEF HasSockets
  <2> QED BY <2>1, <2>2, <2>3 DEF Common, StartUp, MasterEarly
<1>6. ASSUME NEW m \in Node, Await(n, m) PROVE Common' /\ StartUp'
  <2>1. /\ stage[n] \in {"ready", "waits"} /\ n \in Worker
        /\ UNCHANGED <<remaining, op, subscribed, lost>>
        /\ chan[n][m] # <<>> /\ chan' = [chan EXCEPT ![n][m] = Tail(@)]
    BY <1>0, <1>6 DEF Await, NM!Take, callvars, ctlvars, Common
  <2>2. \/ stage' = stage
        \/ stage' = [stage EXCEPT ![n] = "hello"] /\ Head(chan[n][m]).type = "INITDONE"
    BY <1>6 DEF Await
  <2>3. stage'[Master] = stage[Master] /\ (MasterEarly' <=> MasterEarly)
    BY <1>0, <2>1, <2>2 DEF MasterEarly
  <2>4. Common'
    <3>1. \A p \in Node : ~HasSockets(p)' => ~HasSockets(p)
      BY <1>0, <2>1, <2>2 DEF HasSockets
    <3>2. \A w \in Worker : stage'[w] \notin {"polls", "sleeps", "done"}
      BY <1>0, <2>1, <2>2 DEF Common
    <3> QED BY <2>1, <2>3, <3>1, <3>2 DEF Common
  <2>5. CASE ~MasterEarly
    BY <2>3, <2>4, <2>5 DEF StartUp, MasterEarly
  <2>6. CASE MasterEarly
    <3>1. chan \in [Node -> [Node -> Seq(StartMsg)]] /\ chan[n][m] \in Seq(StartMsg)
      BY <1>0, <2>6 DEF StartUp
    <3>2. Head(chan[n][m]) \in StartMsg /\ Tail(chan[n][m]) \in Seq(StartMsg)
      BY <2>1, <3>1
    <3>3. stage' = stage
      BY <2>2, <3>2 DEF StartMsg
    <3>4. chan' \in [Node -> [Node -> Seq(StartMsg)]] /\ chan'[Master] = chan[Master]
      BY <1>0, <2>1, <3>1, <3>2
    <3>5. Unanswered' = Unanswered /\ Full' = Full
      BY <3>3, <3>4 DEF Unanswered, Full
    <3> QED BY <2>1, <2>3, <2>4, <3>3, <3>4, <3>5 DEF StartUp
  <2> QED BY <2>5, <2>6
<1> QED BY <1>1, <1>2, <1>3, <1>4, <1>5, <1>6 DEF Manager

LEMMA StartUpInit ==
  ASSUME Init
  PROVE  Common /\ StartUp
<1>1. /\ stage = [n \in Node |-> "down"] /\ lost = {} /\ subscribed = [n \in Node |-> {}]
      /\ remaining = [n \in Node |-> 0] /\ op = [n \in Node |-> "idle"]
      /\ chan = [n \in Node |-> [m \in Node |-> <<>>]]
  BY DEF Init, NM!Init
<1>2. 0 \in 0 .. Wrap - 1 /\ 0 < numNodes /\ Master \in Node /\ Worker \subseteq Node
  BY Workers
<1>3. Common
  BY <1>1, <1>2 DEF Common, HasSockets
<1>4. <<>> \in Seq(StartMsg) /\ Len(<<>>) <= 1
  OBVIOUS
<1>5. StartUp
  BY <1>1, <1>2, <1>4 DEF StartUp
<1> QED BY <1>3, <1>5

LEMMA StartUpStep ==
  ASSUME Common, StartUp, Control, [Next]_vars
  PROVE  Common' /\ StartUp'
<1>0. Types /\ CTypes
  BY DEF Control
<1>1. CASE UNCHANGED vars
  <2>1. UNCHANGED <<stage, chan, remaining, op, subscribed, lost>>
    BY <1>1 DEF vars, nodevars, callvars, ctlvars
  <2> QED BY <2>1 DEF Common, StartUp, MasterEarly, HasSockets, Unanswered, Full
<1>2. ASSUME NEW n \in Node, Step(n) PROVE Common' /\ StartUp'
  BY <1>0, <1>2, LateSteps, ManagerSteps DEF Step
<1> QED BY <1>1, <1>2 DEF Next

LEMMA StartUpTypes ==
  ASSUME IInv, Control, Common
  PROVE  TypeOK
<1>1. /\ stage \in [Node -> Stages] /\ lost \subseteq MayLose
      /\ op \in [Node -> {"idle", "barrier", "sync"}]
      /\ \A n \in Node : remaining[n] \in 0 .. Wrap - 1 /\ (~HasSockets(n) => remaining[n] < numNodes)
      /\ \A n \in Node : ctl[n] \in [Node -> Seq({"IAMUP", "ISEEYOUUP", "CTRLNONE"})]
      /\ \A n \in Node : n \notin subscribed[n] /\ subscribed[n] \subseteq Node
  BY DEF Common, Control, Types, CTypes, Ctl
<1>2. ASSUME NEW n \in Node PROVE marks[n] \in 0 .. 2 * numNodes /\ flush[n] \in 0 .. 2
  <2>1. flush[n] \in 0 .. 2
    BY DEF IInv, Stage, FlushCount
  <2>2. Left(n) \in 0 .. 2
    BY <2>1 DEF IInv, Stage, FlushCount, Left
  <2>3. /\ Begun(1) \in Nat /\ Begun(1) <= numNodes /\ Begun(2) \in Nat /\ Begun(2) <= numNodes
        /\ numNodes \in Nat /\ marks[n] \in Nat
    BY BegunBounds, Nodes DEF IInv, Types
  <2>4. \/ marks[n] = Begun(1) + Begun(2) \/ marks[n] + numNodes = Begun(1) + Begun(2)
        \/ marks[n] + numNodes + numNodes = Begun(1) + Begun(2)
    BY <2>2 DEF IInv, Marks
  <2> QED BY <2>1, <2>3, <2>4
<1> QED BY <1>1, <1>2 DEF TypeOK

\* The types, for any number of graph servers and any loss of answers: above all,
\* remaining does not wrap around while the master counts the workers that are up.
THEOREM TypeCorrect == Spec => []TypeOK
<1>1. Init => Control /\ Common /\ StartUp
  BY ControlInit, StartUpInit
<1>2. Control /\ Common /\ StartUp /\ IInv' /\ [Next]_vars => (Control /\ Common /\ StartUp)'
  BY ControlStep, StartUpStep DEF IInv
<1>3. IInv /\ Control /\ Common => TypeOK
  BY StartUpTypes
<1> QED BY <1>1, <1>2, <1>3, FlushInvariance, PTL DEF Spec

=============================================================================
