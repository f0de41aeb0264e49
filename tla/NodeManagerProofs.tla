--------------------------- MODULE NodeManagerProofs ---------------------------
(***************************************************************************)
(* Theorems about NodeManager: its types, the safety of the barrier for    *)
(* any number of nodes and any program, and that the barriers implement    *)
(* Barrier.  The inductive invariant IInv says which BARRIER messages can  *)
(* be under way (ChannelsOK) and what remaining is (RemainingExact).       *)
(*                                                                         *)
(* Then the bound on staleness, from SInv, which says what the ring of     *)
(* counters holds (RingOK), and the agreement on the newest epoch, from    *)
(* SyncInv, which says whose message a node has counted.                   *)
(***************************************************************************)
EXTENDS NodeManager, FiniteSetTheorems, SequenceTheorems, TLAPS

-----------------------------------------------------------------------------
(* The inductive invariant.                                                *)

\* The BARRIER messages in a channel are different ones of its sender.
Distinct(s) ==
  \A i, j \in DOMAIN s :
    s[i].type = "BARRIER" /\ s[j].type = "BARRIER" /\ s[i].info = s[j].info => i = j

ChannelsOK ==
  /\ \A n, m \in Node : /\ Distinct(chan[n][m])
                        /\ Unread(chan[n][m]) \subseteq 1..entered[m]
  /\ \A n \in Node : entered[n] <= calls[n]
  /\ \A n \in Node : op[n] = "barrier" => entered[n] > 0

IInv == TypeOK /\ ChannelsOK /\ RemainingExact /\ NobodyLeavesEarly

-----------------------------------------------------------------------------
(* Lemmas on channels.                                                     *)

\* Publishing a message adds its number to the unread ones if it is a BARRIER.
LEMMA UnreadAppend ==
  ASSUME NEW s \in Seq(NodeMessage), NEW msg \in NodeMessage
  PROVE  /\ Append(s, msg) \in Seq(NodeMessage)
         /\ msg.type = "BARRIER" => Unread(Append(s, msg)) = Unread(s) \cup {msg.info}
         /\ msg.type # "BARRIER" => Unread(Append(s, msg)) = Unread(s)
         /\ Distinct(s) /\ (msg.type = "BARRIER" => msg.info \notin Unread(s))
              => Distinct(Append(s, msg))
<1> DEFINE t == Append(s, msg)
<1>1. /\ t \in Seq(NodeMessage)
      /\ Len(t) = Len(s) + 1
      /\ DOMAIN t = 1..(Len(s) + 1) /\ DOMAIN s = 1..Len(s)
      /\ Len(s) \in Nat
      /\ \A i \in DOMAIN s : i \in DOMAIN t /\ t[i] = s[i]
      /\ t[Len(s) + 1] = msg
  OBVIOUS
<1>2. \A i \in DOMAIN t : i \in DOMAIN s \/ i = Len(s) + 1
  BY <1>1
<1> HIDE DEF t
<1>3. msg.type = "BARRIER" => Unread(t) = Unread(s) \cup {msg.info}
  BY <1>1, <1>2 DEF Unread
<1>4. msg.type # "BARRIER" => Unread(t) = Unread(s)
  BY <1>1, <1>2 DEF Unread
<1>5. Distinct(s) /\ (msg.type = "BARRIER" => msg.info \notin Unread(s)) => Distinct(t)
  BY <1>1, <1>2 DEF Distinct, Unread
<1> QED BY <1>1, <1>3, <1>4, <1>5 DEF t

\* Reading a message removes its number from the unread ones if it is a BARRIER.
LEMMA UnreadTail ==
  ASSUME NEW s \in Seq(NodeMessage), s # <<>>
  PROVE  /\ Tail(s) \in Seq(NodeMessage) /\ Head(s) \in NodeMessage
         /\ Head(s).type # "BARRIER" => Unread(Tail(s)) = Unread(s)
         /\ Head(s).type = "BARRIER" => Head(s).info \in Unread(s)
         /\ Distinct(s) => Distinct(Tail(s))
         /\ Distinct(s) /\ Head(s).type = "BARRIER"
              => Unread(Tail(s)) = Unread(s) \ {Head(s).info}
<1> DEFINE t == Tail(s)
<1>1. /\ t \in Seq(NodeMessage)
      /\ Len(s) \in Nat \ {0} /\ Len(t) = Len(s) - 1
      /\ DOMAIN t = 1..(Len(s) - 1) /\ DOMAIN s = 1..Len(s)
      /\ \A i \in DOMAIN t : i + 1 \in DOMAIN s /\ t[i] = s[i + 1]
      /\ Head(s) = s[1] /\ 1 \in DOMAIN s /\ s[1] \in NodeMessage
  OBVIOUS
<1>2. \A i \in DOMAIN s : i = 1 \/ (i - 1 \in DOMAIN t /\ t[i - 1] = s[i])
  BY <1>1
<1>3. \A i \in DOMAIN t : i \in Nat /\ i + 1 # 1
  BY <1>1
<1> HIDE DEF t
<1>4. Head(s).type # "BARRIER" => Unread(t) = Unread(s)
  BY <1>1, <1>2 DEF Unread
<1>5. Head(s).type = "BARRIER" => Head(s).info \in Unread(s)
  BY <1>1 DEF Unread
<1>6. Distinct(s) => Distinct(t)
  BY <1>1, <1>3 DEF Distinct
<1>7. ASSUME Distinct(s), Head(s).type = "BARRIER"
      PROVE  Unread(t) = Unread(s) \ {Head(s).info}
  <2>1. Unread(t) \subseteq Unread(s) \ {Head(s).info}
    BY <1>1, <1>3, <1>7 DEF Distinct, Unread
  <2>2. Unread(s) \ {Head(s).info} \subseteq Unread(t)
    BY <1>1, <1>2 DEF Unread
  <2> QED BY <2>1, <2>2
<1> QED BY <1>1, <1>4, <1>5, <1>6, <1>7 DEF t

-----------------------------------------------------------------------------
(* Lemmas on numbers.                                                      *)

\* What a number of at most one round above or below zero is modulo Wrap.
LEMMA ModWrap ==
  ASSUME NEW x \in Int, -Wrap < x, x < Wrap
  PROVE  x % Wrap = IF x >= 0 THEN x ELSE x + Wrap
BY NodeManagerOK DEF NumNodes

\* A set of <<node, number>> with numbers up to k and one pair missing.
LEMMA OneMissing ==
  ASSUME NEW k \in Nat \ {0}, NEW m \in Node, NEW H,
         H \subseteq (Node \X (1..k)) \ {<<m, k>>}
  PROVE  Cardinality(H) <= NumNodes * k - 1
<1> DEFINE P == Node \X (1..k)
<1>1. IsFiniteSet(Node) /\ IsFiniteSet(1..k) /\ Cardinality(1..k) = k
  BY NodeManagerOK, FS_Interval
<1>2. IsFiniteSet(P) /\ Cardinality(P) = NumNodes * k
  BY <1>1, FS_Product DEF NumNodes
<1>3. <<m, k>> \in P
  OBVIOUS
<1> HIDE DEF P
<1>4. IsFiniteSet(P \ {<<m, k>>}) /\ Cardinality(P \ {<<m, k>>}) = Cardinality(P) - 1
  BY <1>2, <1>3, FS_RemoveElement
<1>5. Cardinality(H) <= Cardinality(P \ {<<m, k>>})
  BY <1>4, FS_Subset DEF P
<1> QED BY <1>2, <1>4, <1>5

\* The same for one addition of a number of nodes.
LEMMA ModWrapAgain ==
  ASSUME NEW x \in Int, 0 <= x, x < Wrap
  PROVE  (x + Wrap) % Wrap = x
BY NodeManagerOK DEF NumNodes

LEMMA NumNodesNat == NumNodes \in Nat
BY NodeManagerOK, FS_CardinalityType DEF NumNodes

LEMMA NumNodesPos == ASSUME NEW n \in Node PROVE NumNodes \in Nat \ {0}
BY NodeManagerOK, FS_CardinalityType, FS_EmptySet DEF NumNodes

\* The pairs <<node, number>> of the barriers entered, and how many there can
\* be of them: for ent instead of entered, to be used for both ends of a step.
Pairs(ent) == {h \in Node \X (1..Len(Script)) : h[2] <= ent[h[1]]}

\* While nobody is more than one barrier ahead of n, and n has not entered the
\* next one, less than one round has been heard for it.
LEMMA AheadByOne ==
  ASSUME NEW ent \in [Node -> Nat], NEW n \in Node, NEW H, H \subseteq Pairs(ent),
         \A m \in Node : ent[m] <= ent[n] + 1
  PROVE  Cardinality(H) <= NumNodes * (ent[n] + 1) - 1
<1> DEFINE k == ent[n] + 1
<1>1. k \in Nat \ {0}
  OBVIOUS
<1>2. Len(Script) \in Nat
  BY NodeManagerOK
<1>3. H \subseteq (Node \X (1..k)) \ {<<n, k>>}
  BY <1>1, <1>2 DEF Pairs
<1> QED BY <1>1, <1>3, OneMissing

\* If somebody has not entered barrier ent[n], and nobody has entered a later
\* one, n has not heard as often as it must to leave.
LEMMA NotAllEntered ==
  ASSUME NEW ent \in [Node -> Nat], NEW n \in Node, NEW m \in Node, NEW H, H \subseteq Pairs(ent),
         \A q \in Node : ent[q] <= ent[n], ent[m] < ent[n]
  PROVE  Cardinality(H) <= NumNodes * ent[n] - 1
<1>1. ent[n] \in Nat \ {0}
  OBVIOUS
<1>2. Len(Script) \in Nat
  BY NodeManagerOK
<1>3. H \subseteq (Node \X (1..ent[n])) \ {<<m, ent[n]>>}
  BY <1>1, <1>2 DEF Pairs
<1> QED BY <1>1, <1>3, OneMissing

LEMMA PairsFinite ==
  ASSUME NEW ent, NEW H, H \subseteq Pairs(ent)
  PROVE  IsFiniteSet(H) /\ Cardinality(H) \in Nat
<1>1. Len(Script) \in Nat
  BY NodeManagerOK
<1>2. IsFiniteSet(1..Len(Script)) /\ IsFiniteSet(Node)
  BY <1>1, NodeManagerOK, FS_Interval
<1>3. IsFiniteSet(Node \X (1..Len(Script)))
  BY <1>2, FS_Product
<1>4. IsFiniteSet(H)
  BY <1>3, FS_Subset DEF Pairs
<1> QED BY <1>4, FS_CardinalityType

-----------------------------------------------------------------------------
(* What publishing and reading do to the BARRIER messages heard.           *)

LEMMA HeardPairs ==
  ASSUME NEW n \in Node
  PROVE  Heard(n) \subseteq Pairs(entered) /\ Heard(n)' \subseteq Pairs(entered')
BY DEF Heard, Pairs

\* A message that is no BARRIER is published.
LEMMA PublishOther ==
  ASSUME TypeOK, ChannelsOK, NEW p \in Node, NEW type \in {"MINEPOCH", "MAXEPOCH"},
         NEW info \in Nat, PublishMsg(p, type, info), entered' = entered
  PROVE  /\ chan' \in [Node -> [Node -> Seq(NodeMessage)]]
         /\ \A n, m \in Node : /\ Distinct(chan[n][m])'
                               /\ Unread(chan[n][m])' = Unread(chan[n][m])
         /\ \A n \in Node : Heard(n)' = Heard(n)
<1> DEFINE msg == [type |-> type, info |-> info]
<1>1. msg \in NodeMessage /\ msg.type # "BARRIER"
  BY DEF NodeMessage
<1>2. chan \in [Node -> [Node -> Seq(NodeMessage)]]
  BY DEF TypeOK
<1>3. chan' = [n \in Node |-> [chan[n] EXCEPT ![p] = Append(@, msg)]]
  BY DEF PublishMsg
<1> HIDE DEF msg
<1>4. \A n, m \in Node : chan'[n][m] = IF m = p THEN Append(chan[n][p], msg) ELSE chan[n][m]
  BY <1>2, <1>3
<1>5. \A n \in Node : Append(chan[n][p], msg) \in Seq(NodeMessage)
  BY <1>1, <1>2, UnreadAppend
<1>6. chan' \in [Node -> [Node -> Seq(NodeMessage)]]
  BY <1>2, <1>3, <1>5
<1>7. \A n, m \in Node : Unread(chan'[n][m]) = Unread(chan[n][m]) /\ Distinct(chan'[n][m])
  <2> SUFFICES ASSUME NEW n \in Node, NEW m \in Node
               PROVE  Unread(chan'[n][m]) = Unread(chan[n][m]) /\ Distinct(chan'[n][m])
    OBVIOUS
  <2>1. chan[n][m] \in Seq(NodeMessage) /\ Distinct(chan[n][m])
    BY <1>2 DEF ChannelsOK
  <2>2. CASE m = p
    BY <2>1, <2>2, <1>1, <1>4, UnreadAppend
  <2>3. CASE m # p
    BY <2>1, <2>3, <1>4
  <2> QED BY <2>2, <2>3
<1>8. \A n \in Node : Heard(n)' = Heard(n)
  BY <1>7 DEF Heard
<1> QED BY <1>6, <1>7, <1>8

\* A node enters its next barrier: nobody has heard of that yet.
LEMMA PublishBarrier ==
  ASSUME TypeOK, ChannelsOK, NEW p \in Node, PublishMsg(p, "BARRIER", entered[p] + 1),
         entered' = [entered EXCEPT ![p] = @ + 1]
  PROVE  /\ chan' \in [Node -> [Node -> Seq(NodeMessage)]]
         /\ \A n, m \in Node : /\ Distinct(chan[n][m])'
                               /\ Unread(chan[n][m])' \subseteq 1..(entered'[m])
         /\ \A n \in Node : Heard(n)' = Heard(n)
<1> DEFINE msg == [type |-> "BARRIER", info |-> entered[p] + 1]
<1>0. entered \in [Node -> Nat] /\ entered' \in [Node -> Nat]
      /\ \A q \in Node : entered'[q] = IF q = p THEN entered[p] + 1 ELSE entered[q]
  BY DEF TypeOK
<1>1. msg \in NodeMessage /\ msg.type = "BARRIER" /\ msg.info = entered[p] + 1
  BY <1>0 DEF NodeMessage
<1>2. chan \in [Node -> [Node -> Seq(NodeMessage)]]
  BY DEF TypeOK
<1>3. chan' = [n \in Node |-> [chan[n] EXCEPT ![p] = Append(@, msg)]]
  BY DEF PublishMsg
<1> HIDE DEF msg
<1>4. \A n, m \in Node : chan'[n][m] = IF m = p THEN Append(chan[n][p], msg) ELSE chan[n][m]
  BY <1>2, <1>3
<1>5. \A n \in Node : Append(chan[n][p], msg) \in Seq(NodeMessage)
  BY <1>1, <1>2, UnreadAppend
<1>6. chan' \in [Node -> [Node -> Seq(NodeMessage)]]
  BY <1>2, <1>3, <1>5
<1>7. \A n \in Node : msg.info \notin Unread(chan[n][p])
  BY <1>0, <1>1 DEF ChannelsOK
<1>8. \A n, m \in Node :
        /\ Distinct(chan'[n][m])
        /\ Unread(chan'[n][m]) = IF m = p THEN Unread(chan[n][p]) \cup {entered[p] + 1}
                                          ELSE Unread(chan[n][m])
  <2> SUFFICES ASSUME NEW n \in Node, NEW m \in Node
               PROVE  /\ Distinct(chan'[n][m])
                      /\ Unread(chan'[n][m]) = IF m = p THEN Unread(chan[n][p]) \cup {entered[p] + 1}
                                                        ELSE Unread(chan[n][m])
    OBVIOUS
  <2>1. chan[n][m] \in Seq(NodeMessage) /\ Distinct(chan[n][m])
    BY <1>2 DEF ChannelsOK
  <2>2. CASE m = p
    BY <2>1, <2>2, <1>1, <1>4, <1>7, UnreadAppend
  <2>3. CASE m # p
    BY <2>1, <2>3, <1>4
  <2> QED BY <2>2, <2>3
<1>9. \A n, m \in Node : Unread(chan'[n][m]) \subseteq 1..(entered'[m])
  <2> SUFFICES ASSUME NEW n \in Node, NEW m \in Node, NEW k \in Unread(chan'[n][m])
               PROVE  k \in 1..(entered'[m])
    OBVIOUS
  <2>1. k \in 1..entered[m] \/ (m = p /\ k = entered[p] + 1)
    BY <1>8 DEF ChannelsOK
  <2> QED BY <2>1, <1>0
<1>10. ASSUME NEW n \in Node PROVE Heard(n)' = Heard(n)
  <2>1. \A h \in Node \X (1..Len(Script)) :
          h[2] <= entered'[h[1]] /\ h[2] \notin Unread(chan'[n][h[1]])
          <=> h[2] <= entered[h[1]] /\ h[2] \notin Unread(chan[n][h[1]])
    <3> SUFFICES ASSUME NEW q \in Node, NEW k \in 1..Len(Script)
                 PROVE  k <= entered'[q] /\ k \notin Unread(chan'[n][q])
                        <=> k <= entered[q] /\ k \notin Unread(chan[n][q])
      OBVIOUS
    <3>0. Len(Script) \in Nat
      BY NodeManagerOK
    <3>1. k \in Nat
      BY <3>0
    <3>2. CASE q = p
      <4>1. /\ entered'[q] = entered[q] + 1 /\ entered[q] \in Nat
            /\ Unread(chan'[n][q]) = Unread(chan[n][q]) \cup {entered[q] + 1}
        BY <3>2, <1>0, <1>8
      <4> QED BY <3>1, <4>1
    <3>3. CASE q # p
      BY <3>3, <1>0, <1>8
    <3> QED BY <3>2, <3>3
  <2> QED BY <2>1 DEF Heard
<1> QED BY <1>6, <1>8, <1>9, <1>10

\* A message is read: a BARRIER message is one more heard by its reader.
LEMMA TakeHeard ==
  ASSUME TypeOK, ChannelsOK, NEW n \in Node, NEW m \in Node, Take(n, m), entered' = entered
  PROVE  /\ chan' \in [Node -> [Node -> Seq(NodeMessage)]]
         /\ Head(chan[n][m]) \in NodeMessage
         /\ \A q, r \in Node : /\ Distinct(chan[q][r])'
                               /\ Unread(chan[q][r])' \subseteq 1..entered[r]
         /\ \A q \in Node \ {n} : Heard(q)' = Heard(q)
         /\ Head(chan[n][m]).type # "BARRIER" => Heard(n)' = Heard(n)
         /\ Head(chan[n][m]).type = "BARRIER" =>
              Cardinality(Heard(n)') = Cardinality(Heard(n)) + 1
<1> DEFINE s == chan[n][m]
           msg == Head(s)
<1>1. chan \in [Node -> [Node -> Seq(NodeMessage)]] /\ s \in Seq(NodeMessage) /\ s # <<>>
  BY DEF TypeOK, Take
<1>2. /\ Tail(s) \in Seq(NodeMessage) /\ msg \in NodeMessage
      /\ msg.type # "BARRIER" => Unread(Tail(s)) = Unread(s)
      /\ msg.type = "BARRIER" => msg.info \in Unread(s)
      /\ Distinct(s) => Distinct(Tail(s))
      /\ Distinct(s) /\ msg.type = "BARRIER" => Unread(Tail(s)) = Unread(s) \ {msg.info}
  BY <1>1, UnreadTail
<1>3. chan' = [chan EXCEPT ![n][m] = Tail(s)]
  BY DEF Take
<1>4. chan' \in [Node -> [Node -> Seq(NodeMessage)]]
  BY <1>1, <1>2, <1>3
<1>5. \A q, r \in Node : chan'[q][r] = IF q = n /\ r = m THEN Tail(s) ELSE chan[q][r]
  BY <1>1, <1>3
<1>6. Distinct(s) /\ Unread(s) \subseteq 1..entered[m]
  BY DEF ChannelsOK
<1> HIDE DEF s, msg
<1>7. \A q, r \in Node : Distinct(chan'[q][r]) /\ Unread(chan'[q][r]) \subseteq 1..entered[r]
  BY <1>2, <1>5, <1>6 DEF ChannelsOK
<1>8. \A q \in Node \ {n} : Heard(q)' = Heard(q)
  BY <1>5 DEF Heard
<1>9. ASSUME msg.type # "BARRIER" PROVE Heard(n)' = Heard(n)
  <2>1. \A r \in Node : Unread(chan'[n][r]) = Unread(chan[n][r])
    BY <1>2, <1>5, <1>9 DEF s
  <2> QED BY <2>1 DEF Heard
<1>10. ASSUME msg.type = "BARRIER" PROVE Cardinality(Heard(n)') = Cardinality(Heard(n)) + 1
  <2> DEFINE new == <<m, msg.info>>
  <2>0. Len(Script) \in Nat
    BY NodeManagerOK
  <2>1. entered \in [Node -> Nat] /\ calls \in [Node -> 0..Len(Script)]
    BY DEF TypeOK
  <2>2. msg.info \in 1..entered[m]
    BY <1>2, <1>6, <1>10
  <2>3. entered[m] <= Len(Script)
    BY <2>0, <2>1 DEF ChannelsOK
  <2>4. new \in Node \X (1..Len(Script)) /\ msg.info <= entered[m]
    BY <2>0, <2>1, <2>2, <2>3
  <2>5. \A r \in Node : Unread(chan'[n][r]) = IF r = m THEN Unread(chan[n][m]) \ {msg.info}
                                                     ELSE Unread(chan[n][r])
    BY <1>2, <1>5, <1>6, <1>10 DEF s
  <2>6. msg.info \in Unread(chan[n][m])
    BY <1>2, <1>10 DEF s
  <2>7. Heard(n)' = Heard(n) \cup {new}
    BY <2>4, <2>5 DEF Heard
  <2>8. new \notin Heard(n)
    BY <2>6 DEF Heard
  <2>9. IsFiniteSet(Heard(n))
    BY HeardPairs, PairsFinite
  <2> QED BY <2>7, <2>8, <2>9, FS_AddElement
<1> QED BY <1>2, <1>4, <1>7, <1>8, <1>9, <1>10 DEF s, msg

-----------------------------------------------------------------------------
(* Types.                                                                  *)

LEMMA SlotType ==
  ASSUME NEW e \in Nat
  PROVE  Slot(e) \in 0..Staleness
BY NodeManagerOK DEF Slot

LEMMA CountType ==
  ASSUME TypeOK, NEW n \in Node, NEW e \in Nat, CountFinished(n, e)
  PROVE  /\ minEpoch' \in [Node -> Nat]
         /\ nodesFinishedEpoch' \in [Node -> [0..Staleness -> Nat]]
<1>1. Slot(e) \in 0..Staleness
  BY SlotType
<1>2. /\ minEpoch \in [Node -> Nat]
      /\ nodesFinishedEpoch \in [Node -> [0..Staleness -> Nat]]
  BY DEF TypeOK
<1>3. minEpoch' \in [Node -> Nat]
  BY <1>2 DEF CountFinished
<1>4. \E c \in Nat : nodesFinishedEpoch' = [nodesFinishedEpoch EXCEPT ![n][Slot(e)] = c]
  <2>1. nodesFinishedEpoch[n][Slot(e)] \in Nat
    BY <1>1, <1>2
  <2> DEFINE c == IF nodesFinishedEpoch[n][Slot(e)] + 1 = NumNodes
                    THEN 0 ELSE nodesFinishedEpoch[n][Slot(e)] + 1
  <2>2. c \in Nat
    BY <2>1
  <2>3. nodesFinishedEpoch' = [nodesFinishedEpoch EXCEPT ![n][Slot(e)] = c]
    BY DEF CountFinished
  <2> HIDE DEF c
  <2> QED BY <2>2, <2>3
<1>5. nodesFinishedEpoch' \in [Node -> [0..Staleness -> Nat]]
  BY <1>1, <1>2, <1>4
<1> QED BY <1>3, <1>5

LEMMA ModType ==
  ASSUME NEW x \in Int
  PROVE  x % Wrap \in 0..(Wrap - 1)
BY NodeManagerOK, NumNodesNat DEF NumNodes

LEMMA ParseType ==
  ASSUME TypeOK, NEW n \in Node, NEW m \in Node, NEW msg \in NodeMessage, ParseNodeMsg(n, m, msg)
  PROVE  /\ remaining' \in [Node -> 0..(Wrap - 1)]
         /\ minEpoch' \in [Node -> Nat]
         /\ nodesFinishedEpoch' \in [Node -> [0..Staleness -> Nat]]
<1>1. /\ remaining \in [Node -> 0..(Wrap - 1)]
      /\ minEpoch \in [Node -> Nat]
      /\ nodesFinishedEpoch \in [Node -> [0..Staleness -> Nat]]
  BY DEF TypeOK
<1>2. (remaining[n] - 1) % Wrap \in 0..(Wrap - 1)
  <2>1. remaining[n] \in Int
    BY <1>1, NodeManagerOK
  <2> QED BY <2>1, ModType
<1>3. CASE msg.type = "BARRIER"
  BY <1>1, <1>2, <1>3 DEF ParseNodeMsg, epochvars
<1>4. CASE msg.type = "MINEPOCH" /\ m # n
  <2>1. msg.info \in Nat
    BY DEF NodeMessage
  <2>2. CountFinished(n, msg.info) /\ remaining' = remaining
    BY <1>4 DEF ParseNodeMsg
  <2> QED BY <1>1, <2>1, <2>2, CountType
<1>5. CASE msg.type = "MAXEPOCH" \/ (msg.type = "MINEPOCH" /\ m = n)
  BY <1>1, <1>5 DEF ParseNodeMsg, epochvars
<1> QED BY <1>3, <1>4, <1>5 DEF NodeMessage

\* What a collective call does to a node's program.
LEMMA CallsType ==
  ASSUME TypeOK, NEW n \in Node, NEW call \in {"barrier", "sync"}, Calls(n, call)
  PROVE  /\ op' \in [Node -> {"idle", "barrier", "sync"}]
         /\ calls' \in [Node -> 0..Len(Script)]
         /\ calls'[n] = calls[n] + 1 /\ \A q \in Node \ {n} : calls'[q] = calls[q]
<1>1. op \in [Node -> {"idle", "barrier", "sync"}] /\ calls \in [Node -> 0..Len(Script)]
  BY DEF TypeOK
<1>2. Len(Script) \in Nat
  BY NodeManagerOK
<1>3. calls[n] + 1 \in 0..Len(Script)
  BY <1>1, <1>2 DEF Calls
<1> QED BY <1>1, <1>2, <1>3 DEF Calls

-----------------------------------------------------------------------------
(* Steps that leave the barriers as they are.                              *)

\* Nothing that the barrier depends on has changed.
LEMMA Quiet ==
  ASSUME IInv, entered' = entered, remaining' = remaining,
         \A n \in Node : Heard(n)' = Heard(n),
         \A n \in Node : op'[n] = "barrier" <=> op[n] = "barrier"
  PROVE  RemainingExact' /\ NobodyLeavesEarly'
<1>1. \A n \in Node : Balance(n)' = Balance(n)
  BY DEF Balance
<1>2. RemainingExact'
  BY <1>1 DEF IInv, RemainingExact
<1>3. \A n \in Node : left'[n] = left[n]
  BY DEF left
<1>4. NobodyLeavesEarly'
  BY <1>3 DEF IInv, NobodyLeavesEarly
<1> QED BY <1>2, <1>4

\* Facts about what a node has still to hear, in a state of the invariant.
LEMMA BalanceFacts ==
  ASSUME IInv, NEW n \in Node
  PROVE  /\ Balance(n) \in Int /\ NumNodes \in Nat \ {0} /\ NumNodes < Wrap /\ Wrap \in Nat
         /\ remaining[n] = IF Balance(n) >= 0 THEN Balance(n) ELSE Balance(n) + Wrap
         /\ op[n] = "barrier" => Balance(n) \in 0..NumNodes
         /\ op[n] # "barrier" => Balance(n) \in (1 - NumNodes)..0
         /\ entered[n] \in Nat /\ Cardinality(Heard(n)) \in Nat
<1>1. NumNodes \in Nat \ {0} /\ NumNodes < Wrap /\ Wrap \in Nat
  BY NumNodesPos, NodeManagerOK
<1>2. entered[n] \in Nat /\ Cardinality(Heard(n)) \in Nat
  BY HeardPairs, PairsFinite DEF IInv, TypeOK
<1>3. /\ remaining[n] = Balance(n) % Wrap
      /\ op[n] = "barrier" => Balance(n) \in 0..NumNodes
      /\ op[n] # "barrier" => Balance(n) \in (1 - NumNodes)..0
  BY DEF IInv, RemainingExact
<1>4. Balance(n) \in Int
  BY <1>1, <1>2 DEF Balance
<1>5. -Wrap < Balance(n) /\ Balance(n) < Wrap
  BY <1>1, <1>3
<1>6. Balance(n) % Wrap = IF Balance(n) >= 0 THEN Balance(n) ELSE Balance(n) + Wrap
  BY <1>4, <1>5, ModWrap
<1> QED BY <1>1, <1>2, <1>3, <1>4, <1>6

\* A node reads a message, in whatever call it is.
LEMMA ReadStep ==
  ASSUME IInv, NEW n \in Node, NEW m \in Node, Take(n, m),
         ParseNodeMsg(n, m, Head(chan[n][m])), UNCHANGED <<op, entered>>,
         op[n] = "barrier" => remaining[n] > 0
  PROVE  RemainingExact' /\ NobodyLeavesEarly'
<1> DEFINE msg == Head(chan[n][m])
<1>0. TypeOK /\ ChannelsOK
  BY DEF IInv
<1>1. /\ \A q \in Node \ {n} : Heard(q)' = Heard(q)
      /\ msg.type # "BARRIER" => Heard(n)' = Heard(n)
      /\ msg.type = "BARRIER" => Cardinality(Heard(n)') = Cardinality(Heard(n)) + 1
  BY <1>0, TakeHeard
<1> HIDE DEF msg
<1>2. CASE msg.type # "BARRIER"
  <2>1. remaining' = remaining
    BY <1>2 DEF ParseNodeMsg, msg
  <2> QED BY <1>1, <1>2, <2>1, Quiet
<1>3. CASE msg.type = "BARRIER"
  <2>1. remaining' = [remaining EXCEPT ![n] = (@ - 1) % Wrap]
    BY <1>3 DEF ParseNodeMsg, msg
  <2>2. remaining \in [Node -> 0..(Wrap - 1)] /\ entered \in [Node -> Nat]
    BY <1>0 DEF TypeOK
  <2>3. NobodyLeavesEarly'
    BY DEF IInv, NobodyLeavesEarly, left
  <2>4. /\ Balance(n) \in Int /\ NumNodes \in Nat \ {0} /\ NumNodes < Wrap /\ Wrap \in Nat
        /\ remaining[n] = IF Balance(n) >= 0 THEN Balance(n) ELSE Balance(n) + Wrap
        /\ op[n] = "barrier" => Balance(n) \in 0..NumNodes
        /\ op[n] # "barrier" => Balance(n) \in (1 - NumNodes)..0
        /\ entered[n] \in Nat /\ Cardinality(Heard(n)) \in Nat
    BY BalanceFacts
  <2>5. Balance(n)' = Balance(n) - 1
    BY <1>1, <1>3, <2>4 DEF Balance
  <2>6. IF op[n] = "barrier" THEN Balance(n)' \in 0..NumNodes
                             ELSE Balance(n)' \in (1 - NumNodes)..0
    <3>1. CASE op[n] = "barrier"
      BY <3>1, <2>4, <2>5
    <3>2. CASE op[n] # "barrier"
      <4>1. \A q \in Node : entered[q] <= entered[n] + 1
        <5> TAKE q \in Node
        <5>1. left[q] <= entered[n] /\ entered[q] - 1 <= left[q]
          BY <2>2 DEF IInv, NobodyLeavesEarly, left
        <5> QED BY <5>1, <2>2 DEF left
      <4>2. Heard(n)' \subseteq Pairs(entered)
        BY HeardPairs DEF Pairs
      <4>3. Cardinality(Heard(n)') <= NumNodes * (entered[n] + 1) - 1
        BY <2>2, <4>1, <4>2, AheadByOne
      <4>4. Balance(n)' = NumNodes * entered[n] - Cardinality(Heard(n)')
        BY DEF Balance
      <4>5. Cardinality(Heard(n)') \in Nat
        BY <4>2, PairsFinite
      <4>6. NumNodes * (entered[n] + 1) = NumNodes * entered[n] + NumNodes
        BY <2>4
      <4>7. NumNodes * entered[n] \in Int
        BY <2>4
      <4>8. Balance(n)' >= 1 - NumNodes
        BY <2>4, <4>3, <4>4, <4>5, <4>6, <4>7
      <4> QED BY <3>2, <2>4, <2>5, <4>8
    <3> QED BY <3>1, <3>2
  <2>7. remaining'[n] = Balance(n)' % Wrap
    <3>1. remaining'[n] = (remaining[n] - 1) % Wrap
      BY <2>1, <2>2
    <3>2. CASE Balance(n) >= 0
      BY <3>1, <3>2, <2>4, <2>5
    <3>3. CASE Balance(n) < 0
      <4> DEFINE x == Balance(n) - 1 + Wrap
      <4>1. x \in Int /\ 0 <= x /\ x < Wrap
        BY <3>3, <2>4, <2>5, <2>6
      <4>2. x % Wrap = x
        BY <4>1, ModWrap, <2>4
      <4>3. (Balance(n) - 1) % Wrap = x
        <5>1. Balance(n) - 1 \in Int /\ -Wrap < Balance(n) - 1 /\ Balance(n) - 1 < 0
          BY <3>3, <2>4, <2>5, <2>6
        <5> QED BY <5>1, <2>4, ModWrap
      <4>4. remaining[n] - 1 = x
        BY <3>3, <2>4
      <4> QED BY <3>1, <2>5, <4>2, <4>3, <4>4
    <3> QED BY <3>2, <3>3, <2>4
  <2>8. ASSUME NEW q \in Node \ {n}
        PROVE  remaining'[q] = Balance(q)' % Wrap
               /\ IF op'[q] = "barrier" THEN Balance(q)' \in 0..NumNodes
                                        ELSE Balance(q)' \in (1 - NumNodes)..0
    <3>1. remaining'[q] = remaining[q] /\ Balance(q)' = Balance(q) /\ op'[q] = op[q]
      BY <1>1, <2>1, <2>2 DEF Balance
    <3> QED BY <3>1 DEF IInv, RemainingExact
  <2>9. RemainingExact'
    BY <2>6, <2>7, <2>8 DEF RemainingExact
  <2> QED BY <2>3, <2>9
<1> QED BY <1>2, <1>3

-----------------------------------------------------------------------------
(* The invariant is inductive.                                             *)

LEMMA InitIInv == Init => IInv
<1> SUFFICES ASSUME Init PROVE IInv
  OBVIOUS
<1>1. \A n, m \in Node : chan[n][m] = <<>>
  BY DEF Init
<1>2. TypeOK
  <2>1. Len(Script) \in Nat /\ 0 \in 0..(Wrap - 1)
    BY NodeManagerOK, NumNodesNat
  <2> QED BY <2>1 DEF Init, TypeOK
<1>3. ChannelsOK
  BY <1>1 DEF Init, ChannelsOK, Distinct, Unread
<1>4. RemainingExact
  <2> SUFFICES ASSUME NEW n \in Node
               PROVE  remaining[n] = Balance(n) % Wrap /\ op[n] = "idle"
                      /\ Balance(n) \in (1 - NumNodes)..0
    BY DEF RemainingExact
  <2>0. Len(Script) \in Nat
    BY NodeManagerOK
  <2>1. Heard(n) = {}
    BY <2>0 DEF Init, Heard
  <2>2. entered[n] = 0 /\ NumNodes \in Nat \ {0} /\ Cardinality({}) = 0
    BY NumNodesPos, FS_EmptySet DEF Init
  <2>3. Balance(n) = 0
    BY <2>1, <2>2 DEF Balance
  <2>4. 0 % Wrap = 0
    BY ModWrap, NodeManagerOK, NumNodesNat
  <2> QED BY <2>2, <2>3, <2>4 DEF Init
<1>5. NobodyLeavesEarly
  BY DEF Init, NobodyLeavesEarly, left
<1> QED BY <1>2, <1>3, <1>4, <1>5 DEF IInv

LEMMA BarrierCallStep ==
  ASSUME IInv, NEW n \in Node, BarrierCall(n)
  PROVE  IInv'
<1>0. TypeOK /\ ChannelsOK
  BY DEF IInv
<1>1. entered \in [Node -> Nat] /\ entered' = [entered EXCEPT ![n] = @ + 1]
  BY <1>0 DEF TypeOK, BarrierCall
<1>2. /\ chan' \in [Node -> [Node -> Seq(NodeMessage)]]
      /\ \A q, r \in Node : Distinct(chan[q][r])' /\ Unread(chan[q][r])' \subseteq 1..(entered'[r])
      /\ \A q \in Node : Heard(q)' = Heard(q)
  BY <1>0, PublishBarrier DEF BarrierCall
<1>3. /\ op' \in [Node -> {"idle", "barrier", "sync"}] /\ calls' \in [Node -> 0..Len(Script)]
      /\ calls'[n] = calls[n] + 1 /\ \A q \in Node \ {n} : calls'[q] = calls[q]
  BY <1>0, CallsType DEF BarrierCall
<1>4. /\ op[n] = "idle" /\ op'[n] = "barrier" /\ \A q \in Node \ {n} : op'[q] = op[q]
      /\ op \in [Node -> {"idle", "barrier", "sync"}]
  BY <1>0 DEF BarrierCall, Calls, TypeOK
<1>5. /\ remaining \in [Node -> 0..(Wrap - 1)]
      /\ remaining' = [remaining EXCEPT ![n] = (@ + NumNodes) % Wrap]
      /\ (remaining[n] + NumNodes) % Wrap \in 0..(Wrap - 1)
  <2>1. remaining \in [Node -> 0..(Wrap - 1)] /\ Wrap \in Nat
    BY <1>0, NodeManagerOK DEF TypeOK
  <2>2. remaining[n] + NumNodes \in Int
    BY <2>1, NumNodesNat
  <2>3. (remaining[n] + NumNodes) % Wrap \in 0..(Wrap - 1)
    BY <2>2, ModType
  <2> QED BY <2>1, <2>3 DEF BarrierCall
<1>6. TypeOK'
  <2>1. entered' \in [Node -> Nat] /\ remaining' \in [Node -> 0..(Wrap - 1)]
    BY <1>1, <1>5
  <2>2. UNCHANGED <<received, maxEpoch, announced, minEpoch, nodesFinishedEpoch>>
    BY DEF BarrierCall, syncvars, epochvars
  <2> QED BY <1>0, <1>2, <1>3, <2>1, <2>2 DEF TypeOK
<1>7. ChannelsOK'
  <2>1. \A q \in Node : entered'[q] <= calls'[q]
    <3> TAKE q \in Node
    <3>1. entered[q] <= calls[q] /\ calls[q] \in Int /\ Len(Script) \in Nat
      BY <1>0, NodeManagerOK DEF ChannelsOK, TypeOK
    <3> QED BY <1>1, <1>3, <3>1
  <2>2. \A q \in Node : op'[q] = "barrier" => entered'[q] > 0
    BY <1>0, <1>1, <1>4 DEF ChannelsOK
  <2> QED BY <1>2, <2>1, <2>2 DEF ChannelsOK
<1>8. NobodyLeavesEarly'
  <2>1. \A q \in Node : left'[q] = left[q]
    BY <1>1, <1>4 DEF left
  <2>2. \A q, r \in Node : left[q] <= entered[r] /\ left[q] \in Int
    BY <1>1 DEF IInv, NobodyLeavesEarly, left
  <2> QED BY <1>1, <2>1, <2>2 DEF NobodyLeavesEarly
<1>9. RemainingExact'
  <2>1. /\ Balance(n) \in Int /\ NumNodes \in Nat \ {0} /\ NumNodes < Wrap /\ Wrap \in Nat
        /\ remaining[n] = IF Balance(n) >= 0 THEN Balance(n) ELSE Balance(n) + Wrap
        /\ Balance(n) \in (1 - NumNodes)..0
        /\ entered[n] \in Nat /\ Cardinality(Heard(n)) \in Nat
    BY <1>4, BalanceFacts
  <2>2. Balance(n)' = Balance(n) + NumNodes
    <3>1. NumNodes * (entered[n] + 1) = NumNodes * entered[n] + NumNodes
      BY <2>1
    <3>2. entered'[n] = entered[n] + 1 /\ Cardinality(Heard(n)') = Cardinality(Heard(n))
      BY <1>1, <1>2
    <3>3. NumNodes * entered[n] \in Int
      BY <2>1
    <3>4. Balance(n)' = NumNodes * (entered[n] + 1) - Cardinality(Heard(n))
      BY <3>2 DEF Balance
    <3> QED BY <3>1, <3>3, <3>4, <2>1 DEF Balance
  <2>3. Balance(n)' \in 0..NumNodes
    BY <2>1, <2>2
  <2>4. remaining'[n] = Balance(n)' % Wrap
    <3>1. remaining'[n] = (remaining[n] + NumNodes) % Wrap
      BY <1>5
    <3>2. CASE Balance(n) >= 0
      BY <3>1, <3>2, <2>1, <2>2
    <3>3. CASE Balance(n) < 0
      <4>1. remaining[n] + NumNodes = Balance(n)' + Wrap
        BY <3>3, <2>1, <2>2
      <4>2. (Balance(n)' + Wrap) % Wrap = Balance(n)'
        BY <2>1, <2>3, ModWrapAgain
      <4>3. Balance(n)' % Wrap = Balance(n)'
        BY <2>1, <2>3, ModWrap
      <4> QED BY <3>1, <4>1, <4>2, <4>3
    <3> QED BY <3>2, <3>3, <2>1
  <2>5. ASSUME NEW q \in Node \ {n}
        PROVE  remaining'[q] = Balance(q)' % Wrap
               /\ IF op'[q] = "barrier" THEN Balance(q)' \in 0..NumNodes
                                        ELSE Balance(q)' \in (1 - NumNodes)..0
    <3>1. remaining'[q] = remaining[q] /\ Balance(q)' = Balance(q) /\ op'[q] = op[q]
      BY <1>1, <1>2, <1>4, <1>5 DEF Balance
    <3> QED BY <3>1 DEF IInv, RemainingExact
  <2> QED BY <1>4, <2>3, <2>4, <2>5 DEF RemainingExact
<1> QED BY <1>6, <1>7, <1>8, <1>9 DEF IInv

\* A node leaves when it has heard of everybody's barrier: else some node has
\* not entered it, nobody has entered a later one, and it has not heard enough.
LEMMA AllEntered ==
  ASSUME IInv, NEW n \in Node, BarrierReturn(n), NEW m \in Node
  PROVE  entered[m] >= entered[n]
<1>1. entered \in [Node -> Nat]
  BY DEF IInv, TypeOK
<1>2. /\ NumNodes \in Nat \ {0} /\ Balance(n) = 0
      /\ entered[n] \in Nat /\ Cardinality(Heard(n)) \in Nat
  BY BalanceFacts DEF BarrierReturn
<1>3. SUFFICES ASSUME entered[m] < entered[n] PROVE FALSE
  BY <1>1
<1>4. \A q \in Node : entered[q] <= entered[n]
  <2> TAKE q \in Node
  <2>1. left[q] <= entered[m] /\ entered[q] - 1 <= left[q]
    BY <1>1 DEF IInv, NobodyLeavesEarly, left
  <2> QED BY <1>1, <1>3, <2>1 DEF left
<1>5. Cardinality(Heard(n)) <= NumNodes * entered[n] - 1
  BY <1>1, <1>3, <1>4, HeardPairs, NotAllEntered
<1> QED BY <1>2, <1>5 DEF Balance

LEMMA BarrierReturnStep ==
  ASSUME IInv, NEW n \in Node, BarrierReturn(n)
  PROVE  IInv'
<1>0. TypeOK /\ ChannelsOK
  BY DEF IInv
<1>1. /\ op \in [Node -> {"idle", "barrier", "sync"}] /\ op' = [op EXCEPT ![n] = "idle"]
      /\ entered \in [Node -> Nat] /\ entered' = entered /\ chan' = chan
      /\ calls' = calls /\ remaining' = remaining /\ op[n] = "barrier"
  BY <1>0 DEF TypeOK, BarrierReturn
<1>2. TypeOK'
  BY <1>0, <1>1 DEF TypeOK, BarrierReturn, syncvars, epochvars
<1>3. ChannelsOK'
  BY <1>0, <1>1 DEF ChannelsOK
<1>4. \A q \in Node : Balance(q)' = Balance(q)
  BY <1>1 DEF Balance, Heard
<1>5. RemainingExact'
  <2>1. Balance(n) = 0 /\ NumNodes \in Nat \ {0}
    BY BalanceFacts DEF BarrierReturn
  <2>2. Balance(n) \in (1 - NumNodes)..0
    BY <2>1
  <2> QED BY <1>1, <1>4, <2>2 DEF IInv, RemainingExact
<1>6. NobodyLeavesEarly'
  <2> SUFFICES ASSUME NEW q \in Node, NEW r \in Node PROVE left'[q] <= entered[r]
    BY <1>1 DEF NobodyLeavesEarly
  <2>1. CASE q = n
    BY <2>1, <1>1, AllEntered DEF left
  <2>2. CASE q # n
    <3>1. left'[q] = left[q]
      BY <2>2, <1>1 DEF left
    <3> QED BY <3>1 DEF IInv, NobodyLeavesEarly
  <2> QED BY <2>1, <2>2
<1> QED BY <1>2, <1>3, <1>5, <1>6 DEF IInv

LEMMA BarrierRecvStep ==
  ASSUME IInv, NEW n \in Node, NEW m \in Node, BarrierRecv(n, m) \/ ReadEpochUpdates(n, m)
  PROVE  IInv'
<1>0. TypeOK /\ ChannelsOK
  BY DEF IInv
<1>1. /\ Take(n, m) /\ ParseNodeMsg(n, m, Head(chan[n][m]))
      /\ UNCHANGED <<op, calls, entered, syncvars, announced>>
      /\ op[n] = "barrier" => remaining[n] > 0
  BY DEF BarrierRecv, ReadEpochUpdates
<1>2. /\ chan' \in [Node -> [Node -> Seq(NodeMessage)]] /\ Head(chan[n][m]) \in NodeMessage
      /\ \A q, r \in Node : Distinct(chan[q][r])' /\ Unread(chan[q][r])' \subseteq 1..entered[r]
  BY <1>0, <1>1, TakeHeard
<1>3. /\ remaining' \in [Node -> 0..(Wrap - 1)]
      /\ minEpoch' \in [Node -> Nat] /\ nodesFinishedEpoch' \in [Node -> [0..Staleness -> Nat]]
  BY <1>0, <1>1, <1>2, ParseType
<1>4. TypeOK'
  BY <1>0, <1>1, <1>2, <1>3 DEF TypeOK, syncvars
<1>5. ChannelsOK'
  BY <1>0, <1>1, <1>2 DEF ChannelsOK
<1>6. RemainingExact' /\ NobodyLeavesEarly'
  BY <1>1, ReadStep
<1> QED BY <1>4, <1>5, <1>6 DEF IInv

LEMMA SyncCallStep ==
  ASSUME IInv, NEW n \in Node, SyncCall(n)
  PROVE  IInv'
<1>0. TypeOK /\ ChannelsOK
  BY DEF IInv
<1>1. PICK epoch \in announced[n] .. minEpoch[n] + Staleness :
        PublishMsg(n, "MAXEPOCH", epoch) /\ maxEpoch' = [maxEpoch EXCEPT ![n] = epoch]
  BY DEF SyncCall
<1>2. epoch \in Nat
  BY <1>0, NodeManagerOK DEF TypeOK
<1>3. /\ chan' \in [Node -> [Node -> Seq(NodeMessage)]]
      /\ \A q, r \in Node : Distinct(chan[q][r])' /\ Unread(chan[q][r])' = Unread(chan[q][r])
      /\ \A q \in Node : Heard(q)' = Heard(q)
  BY <1>0, <1>1, <1>2, PublishOther DEF SyncCall
<1>4. /\ op' \in [Node -> {"idle", "barrier", "sync"}] /\ calls' \in [Node -> 0..Len(Script)]
      /\ calls'[n] = calls[n] + 1 /\ \A q \in Node \ {n} : calls'[q] = calls[q]
  BY <1>0, CallsType DEF SyncCall
<1>5. \A q \in Node : op'[q] = "barrier" <=> op[q] = "barrier"
  BY <1>0 DEF SyncCall, Calls, TypeOK
<1>6. TypeOK'
  BY <1>0, <1>1, <1>2, <1>3, <1>4 DEF TypeOK, SyncCall, epochvars
<1>7. ChannelsOK'
  <2>1. \A q \in Node : entered[q] <= calls'[q]
    <3> TAKE q \in Node
    <3>1. entered[q] <= calls[q] /\ calls[q] \in Int /\ entered[q] \in Int /\ Len(Script) \in Nat
      BY <1>0, NodeManagerOK DEF ChannelsOK, TypeOK
    <3> QED BY <1>4, <3>1
  <2> QED BY <1>0, <1>3, <1>5, <2>1 DEF ChannelsOK, SyncCall
<1>8. RemainingExact' /\ NobodyLeavesEarly'
  BY <1>3, <1>5, Quiet DEF SyncCall
<1> QED BY <1>6, <1>7, <1>8 DEF IInv

LEMMA SyncRecvStep ==
  ASSUME IInv, NEW n \in Node, NEW m \in Node, SyncRecv(n, m)
  PROVE  IInv'
<1> DEFINE msg == Head(chan[n][m])
<1>0. TypeOK /\ ChannelsOK
  BY DEF IInv
<1>1. /\ Take(n, m) /\ UNCHANGED <<op, calls, entered, announced>> /\ op[n] = "sync"
      /\ \/ /\ msg.type = "MAXEPOCH"
            /\ received' = [received EXCEPT ![n] = @ + 1]
            /\ maxEpoch' = [maxEpoch EXCEPT ![n] = IF msg.info > @ THEN msg.info ELSE @]
            /\ UNCHANGED <<remaining, epochvars>>
         \/ ParseNodeMsg(n, m, msg) /\ UNCHANGED syncvars
  BY DEF SyncRecv
<1>2. /\ chan' \in [Node -> [Node -> Seq(NodeMessage)]] /\ msg \in NodeMessage
      /\ \A q, r \in Node : Distinct(chan[q][r])' /\ Unread(chan[q][r])' \subseteq 1..entered[r]
      /\ \A q \in Node \ {n} : Heard(q)' = Heard(q)
      /\ msg.type # "BARRIER" => Heard(n)' = Heard(n)
  BY <1>0, <1>1, TakeHeard
<1> HIDE DEF msg
<1>3. ChannelsOK'
  BY <1>0, <1>1, <1>2 DEF ChannelsOK
<1>4. CASE /\ msg.type = "MAXEPOCH"
           /\ received' = [received EXCEPT ![n] = @ + 1]
           /\ maxEpoch' = [maxEpoch EXCEPT ![n] = IF msg.info > @ THEN msg.info ELSE @]
           /\ UNCHANGED <<remaining, epochvars>>
  <2>1. RemainingExact' /\ NobodyLeavesEarly'
    BY <1>1, <1>2, <1>4, Quiet
  <2>2. received' \in [Node -> Nat] /\ maxEpoch' \in [Node -> Nat]
    <3>1. received \in [Node -> Nat] /\ maxEpoch \in [Node -> Nat] /\ msg.info \in Nat
      BY <1>0, <1>2 DEF TypeOK, NodeMessage
    <3> QED BY <1>4, <3>1
  <2>3. TypeOK'
    BY <1>0, <1>1, <1>2, <1>4, <2>2 DEF TypeOK, epochvars
  <2> QED BY <1>3, <2>1, <2>3 DEF IInv
<1>5. CASE ParseNodeMsg(n, m, msg) /\ UNCHANGED syncvars
  <2>1. RemainingExact' /\ NobodyLeavesEarly'
    BY <1>1, <1>5, ReadStep DEF msg
  <2>2. /\ remaining' \in [Node -> 0..(Wrap - 1)]
        /\ minEpoch' \in [Node -> Nat] /\ nodesFinishedEpoch' \in [Node -> [0..Staleness -> Nat]]
    BY <1>0, <1>2, <1>5, ParseType
  <2>3. TypeOK'
    BY <1>0, <1>1, <1>2, <1>5, <2>2 DEF TypeOK, syncvars
  <2> QED BY <1>3, <2>1, <2>3 DEF IInv
<1> QED BY <1>1, <1>4, <1>5

LEMMA SyncReturnStep ==
  ASSUME IInv, NEW n \in Node, SyncReturn(n)
  PROVE  IInv'
<1>0. TypeOK /\ ChannelsOK
  BY DEF IInv
<1>1. \A q \in Node : op'[q] = "barrier" <=> op[q] = "barrier"
  BY <1>0 DEF SyncReturn, TypeOK
<1>2. TypeOK'
  BY <1>0 DEF TypeOK, SyncReturn, syncvars, epochvars
<1>3. ChannelsOK'
  BY <1>0, <1>1 DEF ChannelsOK, SyncReturn
<1>4. \A q \in Node : Heard(q)' = Heard(q)
  BY DEF SyncReturn, Heard
<1>5. RemainingExact' /\ NobodyLeavesEarly'
  BY <1>1, <1>4, Quiet DEF SyncReturn
<1> QED BY <1>2, <1>3, <1>5 DEF IInv

LEMMA SendEpochUpdateStep ==
  ASSUME IInv, NEW n \in Node, SendEpochUpdate(n)
  PROVE  IInv'
<1>0. TypeOK /\ ChannelsOK
  BY DEF IInv
<1>1. announced \in [Node -> Nat] /\ announced[n] + 1 \in Nat
  BY <1>0 DEF TypeOK
<1>2. /\ chan' \in [Node -> [Node -> Seq(NodeMessage)]]
      /\ \A q, r \in Node : Distinct(chan[q][r])' /\ Unread(chan[q][r])' = Unread(chan[q][r])
      /\ \A q \in Node : Heard(q)' = Heard(q)
  BY <1>0, <1>1, PublishOther DEF SendEpochUpdate
<1>3. /\ minEpoch' \in [Node -> Nat] /\ nodesFinishedEpoch' \in [Node -> [0..Staleness -> Nat]]
  BY <1>0, <1>1, CountType DEF SendEpochUpdate
<1>4. TypeOK'
  BY <1>0, <1>1, <1>2, <1>3 DEF TypeOK, SendEpochUpdate, syncvars
<1>5. ChannelsOK'
  BY <1>0, <1>2 DEF ChannelsOK, SendEpochUpdate
<1>6. RemainingExact' /\ NobodyLeavesEarly'
  BY <1>2, Quiet DEF SendEpochUpdate
<1> QED BY <1>4, <1>5, <1>6 DEF IInv

LEMMA StutterStep == IInv /\ UNCHANGED vars => IInv'
<1> SUFFICES ASSUME IInv, UNCHANGED vars PROVE IInv'
  OBVIOUS
<1>1. TypeOK'
  BY DEF IInv, TypeOK, vars, syncvars, epochvars
<1>2. ChannelsOK'
  BY DEF IInv, ChannelsOK, vars
<1>3. \A n \in Node : Heard(n)' = Heard(n)
  BY DEF Heard, vars
<1>4. RemainingExact' /\ NobodyLeavesEarly'
  BY <1>3, Quiet DEF vars
<1> QED BY <1>1, <1>2, <1>4 DEF IInv

LEMMA NextIInv == IInv /\ [Next]_vars => IInv'
<1> SUFFICES ASSUME IInv, [Next]_vars PROVE IInv'
  OBVIOUS
<1>1. CASE UNCHANGED vars
  BY <1>1, StutterStep
<1>2. ASSUME NEW n \in Node, Barriers(n) PROVE IInv'
  BY <1>2, BarrierCallStep, BarrierRecvStep, BarrierReturnStep DEF Barriers
<1>3. ASSUME NEW n \in Node, Syncs(n) PROVE IInv'
  BY <1>3, SyncCallStep, SyncRecvStep, SyncReturnStep DEF Syncs
<1>4. ASSUME NEW n \in Node, Updates(n) PROVE IInv'
  BY <1>4, SendEpochUpdateStep, BarrierRecvStep DEF Updates
<1> QED BY <1>1, <1>2, <1>3, <1>4 DEF Next

-----------------------------------------------------------------------------
(* The theorems.                                                           *)

\* The strengthened invariant holds in every reachable state.
THEOREM Invariance == Spec => []IInv
BY InitIInv, NextIInv, PTL DEF Spec

\* The types, for any number of nodes, any program and any staleness.
THEOREM TypeCorrect == Spec => []TypeOK
<1>1. IInv => TypeOK
  BY DEF IInv
<1> QED BY <1>1, Invariance, PTL

\* NodeManager::barrier is a barrier: nobody leaves it before everybody has
\* entered it, whatever epoch messages are read and announced in between.
THEOREM BarrierSafe == Spec => []NobodyLeavesEarly
<1>1. IInv => NobodyLeavesEarly
  BY DEF IInv
<1> QED BY <1>1, Invariance, PTL

\* NodeManager::remaining never wraps around by more than the next barrier
\* makes good.
THEOREM RemainingCorrect == Spec => []RemainingExact
<1>1. IInv => RemainingExact
  BY DEF IInv
<1> QED BY <1>1, Invariance, PTL

\* Every step of a node manager is an Enter or a Leave of the abstract barrier,
\* or leaves that as it is.
LEMMA StepRefines == IInv /\ [Next]_vars => [B!Next]_<<entered, left>>
<1> SUFFICES ASSUME IInv, [Next]_vars PROVE [B!Next]_<<entered, left>>
  OBVIOUS
<1>0. /\ op \in [Node -> {"idle", "barrier", "sync"}] /\ entered \in [Node -> Nat]
  BY DEF IInv, TypeOK
<1>1. ASSUME entered' = entered, \A q \in Node : op'[q] = "barrier" <=> op[q] = "barrier"
      PROVE  UNCHANGED <<entered, left>>
  BY <1>1 DEF left
<1>2. CASE UNCHANGED vars
  BY <1>1, <1>2 DEF vars
<1>3. ASSUME NEW n \in Node, BarrierCall(n) PROVE B!Next
  <2>1. /\ op[n] = "idle" /\ op' = [op EXCEPT ![n] = "barrier"]
        /\ entered' = [entered EXCEPT ![n] = @ + 1]
    BY <1>3 DEF BarrierCall, Calls
  <2>2. left' = left /\ left[n] = entered[n]
    BY <1>0, <2>1 DEF left
  <2> QED BY <2>1, <2>2 DEF B!Next, B!Enter
<1>4. ASSUME NEW n \in Node, BarrierReturn(n) PROVE B!Next
  <2>1. /\ op[n] = "barrier" /\ op' = [op EXCEPT ![n] = "idle"] /\ entered' = entered
    BY <1>4 DEF BarrierReturn
  <2>2. left' = [left EXCEPT ![n] = @ + 1] /\ left[n] # entered[n]
    <3>1. entered[n] \in Nat /\ left[n] = entered[n] - 1
      BY <1>0, <2>1 DEF left
    <3>2. left' = [q \in Node |-> IF op'[q] = "barrier" THEN entered[q] - 1 ELSE entered[q]]
      BY <2>1 DEF left
    <3>3. \A q \in Node : (IF op'[q] = "barrier" THEN entered[q] - 1 ELSE entered[q])
                          = [left EXCEPT ![n] = @ + 1][q]
      <4> TAKE q \in Node
      <4>1. CASE q = n
        BY <4>1, <1>0, <2>1, <3>1 DEF left
      <4>2. CASE q # n
        BY <4>2, <1>0, <2>1 DEF left
      <4> QED BY <4>1, <4>2
    <3>4. [left EXCEPT ![n] = @ + 1] = [q \in Node |-> [left EXCEPT ![n] = @ + 1][q]]
      BY DEF left
    <3> QED BY <3>1, <3>2, <3>3, <3>4
  <2>3. \A m \in Node : entered[m] >= entered[n]
    BY <1>4, AllEntered
  <2> QED BY <2>1, <2>2, <2>3 DEF B!Next, B!Leave
<1>5. ASSUME NEW n \in Node, NEW m \in Node,
             BarrierRecv(n, m) \/ SyncRecv(n, m) \/ ReadEpochUpdates(n, m) \/ SendEpochUpdate(n)
      PROVE  UNCHANGED <<entered, left>>
  <2>1. entered' = entered /\ op' = op
    BY <1>5 DEF BarrierRecv, SyncRecv, ReadEpochUpdates, SendEpochUpdate
  <2> QED BY <2>1, <1>1
<1>6. ASSUME NEW n \in Node, SyncCall(n) \/ SyncReturn(n)
      PROVE  UNCHANGED <<entered, left>>
  <2>1. entered' = entered /\ \A q \in Node : op'[q] = "barrier" <=> op[q] = "barrier"
    BY <1>0, <1>6 DEF SyncCall, SyncReturn, Calls
  <2> QED BY <2>1, <1>1
<1> QED BY <1>2, <1>3, <1>4, <1>5, <1>6 DEF Next, Barriers, Syncs, Updates

LEMMA InitRefines == Init => B!Init
BY DEF Init, B!Init, left

\* The node managers' barriers implement the abstract barrier.
THEOREM Refinement == Spec => BarrierSpec
BY InitRefines, StepRefines, Invariance, PTL DEF Spec, BarrierSpec, B!Spec

-----------------------------------------------------------------------------
(* The messages of a type in a channel.                                    *)

\* What the messages of a type say, and that no two of a channel say the same.
Infos(s, type) == {s[i].info : i \in {j \in DOMAIN s : s[j].type = type}}

Distinct2(s, type) ==
  \A i, j \in DOMAIN s :
    s[i].type = type /\ s[j].type = type /\ s[i].info = s[j].info => i = j

MessageType == {"BARRIER", "MINEPOCH", "MAXEPOCH"}
Msg(type, info) == [type |-> type, info |-> info]

\* What becomes of the messages of a type when channel s becomes t.
Adds(s, t, type, info) == Infos(t, type) = Infos(s, type) \cup {info}
Drops(s, t, type, info) == Infos(t, type) = Infos(s, type) \ {info}
Keeps(s, t, type) == Infos(t, type) = Infos(s, type)

LEMMA MsgFacts ==
  ASSUME NEW type \in MessageType, NEW info \in Nat
  PROVE  Msg(type, info) \in NodeMessage /\ Msg(type, info).type = type /\ Msg(type, info).info = info
BY DEF MessageType, Msg, NodeMessage

LEMMA AppendFacts ==
  ASSUME NEW s \in Seq(NodeMessage), NEW msg \in NodeMessage
  PROVE  LET t == Append(s, msg) IN
         /\ DOMAIN t = 1..(Len(s) + 1) /\ DOMAIN s = 1..Len(s) /\ Len(s) \in Nat
         /\ \A i \in DOMAIN s : i \in DOMAIN t /\ t[i] = s[i]
         /\ t[Len(s) + 1] = msg
         /\ \A i \in DOMAIN t : i \in DOMAIN s \/ i = Len(s) + 1
OBVIOUS

LEMMA InfosAppendSame ==
  ASSUME NEW s \in Seq(NodeMessage), NEW type \in MessageType, NEW info \in Nat
  PROVE  Adds(s, Append(s, Msg(type, info)), type, info)
<1> DEFINE msg == Msg(type, info)
           t == Append(s, msg)
<1>1. msg \in NodeMessage /\ msg.type = type /\ msg.info = info
  BY MsgFacts
<1> HIDE DEF msg
<1>2. /\ DOMAIN t = 1..(Len(s) + 1) /\ DOMAIN s = 1..Len(s) /\ Len(s) \in Nat
      /\ \A i \in DOMAIN s : i \in DOMAIN t /\ t[i] = s[i]
      /\ t[Len(s) + 1] = msg
      /\ \A i \in DOMAIN t : i \in DOMAIN s \/ i = Len(s) + 1
  BY <1>1, AppendFacts
<1> HIDE DEF t
<1>3. Infos(t, type) = Infos(s, type) \cup {info}
  BY <1>1, <1>2 DEF Infos
<1> QED BY <1>3 DEF t, msg, Adds

LEMMA InfosAppendOther ==
  ASSUME NEW s \in Seq(NodeMessage), NEW type \in MessageType, NEW info \in Nat, NEW u, type # u
  PROVE  Keeps(s, Append(s, Msg(type, info)), u)
<1> DEFINE msg == Msg(type, info)
           t == Append(s, msg)
<1>1. msg \in NodeMessage /\ msg.type = type /\ msg.info = info
  BY MsgFacts
<1> HIDE DEF msg
<1>2. /\ DOMAIN t = 1..(Len(s) + 1) /\ DOMAIN s = 1..Len(s) /\ Len(s) \in Nat
      /\ \A i \in DOMAIN s : i \in DOMAIN t /\ t[i] = s[i]
      /\ t[Len(s) + 1] = msg
      /\ \A i \in DOMAIN t : i \in DOMAIN s \/ i = Len(s) + 1
  BY <1>1, AppendFacts
<1> HIDE DEF t
<1>3. Infos(t, u) = Infos(s, u)
  BY <1>1, <1>2 DEF Infos
<1> QED BY <1>3 DEF t, msg, Keeps

LEMMA DistinctAppend ==
  ASSUME NEW s \in Seq(NodeMessage), NEW type \in MessageType, NEW info \in Nat, NEW u,
         Distinct2(s, u), type = u => info \notin Infos(s, u)
  PROVE  Distinct2(Append(s, Msg(type, info)), u)
<1> DEFINE msg == Msg(type, info)
           t == Append(s, msg)
<1>1. msg \in NodeMessage /\ msg.type = type /\ msg.info = info
  BY MsgFacts
<1> HIDE DEF msg
<1>2. /\ DOMAIN t = 1..(Len(s) + 1) /\ DOMAIN s = 1..Len(s) /\ Len(s) \in Nat
      /\ \A i \in DOMAIN s : i \in DOMAIN t /\ t[i] = s[i]
      /\ t[Len(s) + 1] = msg
      /\ \A i \in DOMAIN t : i \in DOMAIN s \/ i = Len(s) + 1
  BY <1>1, AppendFacts
<1> HIDE DEF t
<1>3. Distinct2(t, u)
  BY <1>1, <1>2 DEF Distinct2, Infos
<1> QED BY <1>3 DEF t, msg

LEMMA InfosTail ==
  ASSUME NEW s \in Seq(NodeMessage), s # <<>>, NEW type
  PROVE  /\ Tail(s) \in Seq(NodeMessage) /\ Head(s) \in NodeMessage
         /\ Head(s).type # type => Infos(Tail(s), type) = Infos(s, type)
         /\ Head(s).type = type => Head(s).info \in Infos(s, type)
         /\ Distinct2(s, type) => Distinct2(Tail(s), type)
         /\ Distinct2(s, type) /\ Head(s).type = type
              => Infos(Tail(s), type) = Infos(s, type) \ {Head(s).info}
<1> DEFINE t == Tail(s)
<1>1. /\ t \in Seq(NodeMessage)
      /\ Len(s) \in Nat \ {0} /\ Len(t) = Len(s) - 1
      /\ DOMAIN t = 1..(Len(s) - 1) /\ DOMAIN s = 1..Len(s)
      /\ \A i \in DOMAIN t : i + 1 \in DOMAIN s /\ t[i] = s[i + 1]
      /\ Head(s) = s[1] /\ 1 \in DOMAIN s /\ s[1] \in NodeMessage
  OBVIOUS
<1>2. \A i \in DOMAIN s : i = 1 \/ (i - 1 \in DOMAIN t /\ t[i - 1] = s[i])
  BY <1>1
<1>3. \A i \in DOMAIN t : i \in Nat /\ i + 1 # 1
  BY <1>1
<1> HIDE DEF t
<1>4. Head(s).type # type => Infos(t, type) = Infos(s, type)
  BY <1>1, <1>2 DEF Infos
<1>5. Head(s).type = type => Head(s).info \in Infos(s, type)
  BY <1>1 DEF Infos
<1>6. Distinct2(s, type) => Distinct2(t, type)
  BY <1>1, <1>3 DEF Distinct2
<1>7. ASSUME Distinct2(s, type), Head(s).type = type
      PROVE  Infos(t, type) = Infos(s, type) \ {Head(s).info}
  <2>1. Infos(t, type) \subseteq Infos(s, type) \ {Head(s).info}
    BY <1>1, <1>3, <1>7 DEF Distinct2, Infos
  <2>2. Infos(s, type) \ {Head(s).info} \subseteq Infos(t, type)
    BY <1>1, <1>2 DEF Infos
  <2> QED BY <2>1, <2>2
<1> QED BY <1>1, <1>4, <1>5, <1>6, <1>7 DEF t

-----------------------------------------------------------------------------
(* Bounded staleness.  The ring of counters is not read as a count of      *)
(* epochs: a node may have read an epoch of one node in a slot before an   *)
(* earlier epoch of another in the same slot.  What holds is that a slot   *)
(* has been filled once per NumNodes messages counted in it (RingOK), and  *)
(* that as many fills mean as many epochs finished by everybody, as nobody *)
(* announces more than Staleness + 1 epochs beyond the slowest.            *)

Round == Staleness + 1

\* The epochs that a channel's messages announce.
News(s) == Infos(s, "MINEPOCH")

\* What has been counted at n: <<node, epoch it has finished>>.
Told(n) ==
  {h \in Node \X (2..(MaxEpoch + 1)) :
     h[2] <= announced[h[1]] /\ (h[1] = n \/ h[2] \notin News(chan[n][h[1]]))}

\* Those of T that are counted in slot s.
In(T, s) == {h \in T : Slot(h[2]) = s}
Reads(T, s) == Cardinality(In(T, s))

\* The fills of the ring: d is the fill of slot Slot(d + 2) for epoch d + 2, if
\* all messages of that slot were of the epochs of that slot in order.
Fills(T) == {d \in Nat : NumNodes * ((d \div Round) + 1) <= Reads(T, Slot(d + 2))}

RingOK(n) ==
  /\ \A s \in 0..Staleness :
       nodesFinishedEpoch[n][s] < NumNodes
       /\ \E f \in Nat : Reads(Told(n), s) = NumNodes * f + nodesFinishedEpoch[n][s]
  /\ IsFiniteSet(Fills(Told(n)))
  /\ Cardinality(Fills(Told(n))) = minEpoch[n] - 2

NewsOK ==
  /\ \A n, m \in Node : /\ Distinct2(chan[n][m], "MINEPOCH")
                        /\ News(chan[n][m]) \subseteq 2..announced[m]
  /\ \A m \in Node : /\ announced[m] \in 1..(MaxEpoch + 1)
                     /\ announced[m] <= minEpoch[m] + Staleness

SInv == NewsOK /\ (\A n \in Node : RingOK(n)) /\ BoundedStaleness

-----------------------------------------------------------------------------
(* Numbers of fills.                                                       *)

LEMMA Division ==
  ASSUME NEW z \in Nat, z > 0, NEW a \in Nat
  PROVE  /\ a \div z \in Nat /\ a % z \in 0..(z - 1)
         /\ a = z * (a \div z) + (a % z)
<1>1. a \div z \in Int /\ a % z \in Int
  BY Z3
<1>2. a = z * (a \div z) + (a % z)
  BY Z3
<1>3. a % z >= 0 /\ a % z < z
  BY Z3
<1>4. a \div z >= 0
  BY Z3
<1> QED BY <1>1, <1>2, <1>3, <1>4

LEMMA Quotient ==
  ASSUME NEW z \in Nat, z > 0, NEW q \in Int, NEW p \in Int,
         NEW r \in 0..(z - 1), NEW t \in 0..(z - 1), z * q + r = z * p + t
  PROVE  q = p /\ r = t
<1>1. z * (q - p) = z * q - z * p
  OBVIOUS
<1> DEFINE d == q - p
<1>2. d \in Int /\ z * d = t - r /\ z * q \in Int /\ z * p \in Int
  BY <1>1
<1> HIDE DEF d
<1>3. ~ (d >= 1)
  <2> SUFFICES ASSUME d >= 1 PROVE FALSE
    OBVIOUS
  <2>1. z * d >= z
    BY <1>2
  <2> QED BY <1>2, <2>1
<1>4. ~ (d <= -1)
  <2> SUFFICES ASSUME d <= -1 PROVE FALSE
    OBVIOUS
  <2>1. z * (-d) >= z /\ z * (-d) = -(z * d)
    BY <1>2
  <2> QED BY <1>2, <2>1
<1>5. d = 0
  BY <1>2, <1>3, <1>4
<1>6. q = p
  BY <1>5 DEF d
<1> QED BY <1>6

LEMMA RoundPos == Round \in Nat /\ Round > 0 /\ Staleness \in Nat /\ 0..(Round - 1) = 0..Staleness
BY NodeManagerOK DEF Round

\* An epoch is a number of rounds and its slot.
LEMMA EpochSlot ==
  ASSUME NEW a \in Nat
  PROVE  /\ a \div Round \in Nat /\ Slot(a) \in 0..Staleness
         /\ a = Round * (a \div Round) + Slot(a)
         /\ \A q \in Int, s \in 0..Staleness : a = Round * q + s => q = a \div Round /\ s = Slot(a)
<1>1. Round \in Nat /\ Round > 0 /\ 0..(Round - 1) = 0..Staleness
  BY RoundPos
<1>2. Slot(a) = a % Round
  BY DEF Slot, Round
<1> HIDE DEF Round
<1>3. /\ a \div Round \in Nat /\ a % Round \in 0..(Round - 1)
      /\ a = Round * (a \div Round) + (a % Round)
  BY <1>1, Division
<1>4. ASSUME NEW q \in Int, NEW s \in 0..Staleness, a = Round * q + s
      PROVE  q = a \div Round /\ s = Slot(a)
  <2> DEFINE p == a \div Round
             t == a % Round
  <2>1. p \in Int /\ t \in 0..(Round - 1)
    BY <1>3
  <2>4. s \in 0..(Round - 1)
    BY <1>1, Zenon
  <2>2. Round * q + s = Round * p + t
    BY <1>3, <1>4
  <2> HIDE DEF p, t
  <2>3. q = p /\ s = t
    BY <1>1, <2>1, <2>2, <2>4, Quotient
  <2> QED BY <2>3, <1>2 DEF p, t
<1> QED BY <1>1, <1>2, <1>3, <1>4

\* Epochs of a slot are a number of rounds apart.
LEMMA SameSlot ==
  ASSUME NEW a \in Nat, NEW b \in Nat, Slot(a) = Slot(b)
  PROVE  \E k \in Int : a = b + Round * k
<1> DEFINE p == a \div Round
           q == b \div Round
           s == Slot(a)
<1>1. /\ p \in Nat /\ q \in Nat /\ Round \in Nat /\ s \in Nat
      /\ a = Round * p + s /\ b = Round * q + s
  BY EpochSlot, RoundPos
<1> HIDE DEF p, q, s
<1>2. Round * p = Round * q + Round * (p - q) /\ Round * p \in Int /\ Round * q \in Int
  BY <1>1
<1>3. a = b + Round * (p - q) /\ p - q \in Int
  BY <1>1, <1>2
<1> QED BY <1>3

LEMMA RoundsApart ==
  ASSUME NEW a \in Nat, NEW k \in Int, a + Round * k \in Nat
  PROVE  Slot(a + Round * k) = Slot(a) /\ (a + Round * k) \div Round = (a \div Round) + k
<1> DEFINE b == a + Round * k
           p == a \div Round
           s == Slot(a)
<1>1. Round \in Nat /\ b \in Nat
  BY RoundPos
<1>2. p \in Nat /\ s \in 0..Staleness /\ s \in Int /\ a = Round * p + s
  BY EpochSlot
<1>3. \A q \in Int, t \in 0..Staleness : b = Round * q + t => q = b \div Round /\ t = Slot(b)
  BY <1>1, EpochSlot
<1>4. b = Round * (p + k) + s
  <2> HIDE DEF p, s
  <2>1. Round * (p + k) = Round * p + Round * k /\ Round * p \in Int /\ Round * k \in Int
    BY <1>1, <1>2
  <2> QED BY <1>2, <2>1
<1>5. p + k \in Int
  BY <1>2
<1> HIDE DEF b, p, s
<1>6. p + k = b \div Round /\ s = Slot(b)
  BY <1>2, <1>3, <1>4, <1>5
<1> QED BY <1>6 DEF b, p, s

\* Every slot has an epoch among any Staleness + 1 of them.
LEMMA SlotInWindow ==
  ASSUME NEW v \in Nat, NEW s \in 0..Staleness
  PROVE  \E w \in v..(v + Staleness) : Slot(w) = s
<1> DEFINE p == v \div Round
           t == Slot(v)
<1>0. Round \in Nat /\ Round > 0 /\ Staleness \in Nat /\ Round = Staleness + 1
  BY RoundPos DEF Round
<1>1. p \in Nat /\ t \in 0..Staleness /\ v = Round * p + t
  BY EpochSlot
<1> HIDE DEF p, t
<1>2. Round * (p + 1) = Round * p + Round /\ Round * p \in Int
  BY <1>0, <1>1
<1>3. ASSUME NEW q \in Int, NEW w \in Nat, w = Round * q + s PROVE Slot(w) = s
  BY <1>3, EpochSlot
<1>4. CASE s >= t
  <2>1. Round * p + s \in v..(v + Staleness) /\ Round * p + s \in Nat
    BY <1>0, <1>1, <1>2, <1>4
  <2>2. p \in Int
    BY <1>1
  <2> QED BY <1>3, <2>1, <2>2
<1>5. CASE s < t
  <2>1. Round * (p + 1) + s \in v..(v + Staleness) /\ Round * (p + 1) + s \in Nat
    BY <1>0, <1>1, <1>2, <1>5
  <2>2. p + 1 \in Int
    BY <1>1
  <2> QED BY <1>3, <2>1, <2>2
<1> QED BY <1>0, <1>1, <1>4, <1>5

-----------------------------------------------------------------------------
(* What the fills of the ring say about the epochs announced.               *)

LEMMA InFinite ==
  ASSUME NEW T, T \subseteq Node \X (2..(MaxEpoch + 1)), NEW s
  PROVE  IsFiniteSet(T) /\ IsFiniteSet(In(T, s)) /\ Reads(T, s) \in Nat
<1>1. IsFiniteSet(2..(MaxEpoch + 1)) /\ IsFiniteSet(Node)
  BY NodeManagerOK, FS_Interval
<1>2. IsFiniteSet(T)
  BY <1>1, FS_Product, FS_Subset
<1>3. IsFiniteSet(In(T, s))
  BY <1>2, FS_Subset DEF In
<1> QED BY <1>2, <1>3, FS_CardinalityType DEF Reads

\* The epochs up to that of fill d in the same slot are d \div Round + 1.
LEMMA EpochsOfSlot ==
  ASSUME NEW d \in Nat
  PROVE  LET E == {e \in 2..(d + 2) : Slot(e) = Slot(d + 2)}
         IN  IsFiniteSet(E) /\ Cardinality(E) = (d \div Round) + 1
<1> DEFINE E == {e \in 2..(d + 2) : Slot(e) = Slot(d + 2)}
           q == d \div Round
           r == Slot(d)
           f == [i \in 0..q |-> d + 2 - Round * i]
<1>0. Round \in Nat /\ Round > 0
  BY RoundPos
<1>1. q \in Nat /\ r \in Nat /\ r < Round /\ d = Round * q + r
  <2>1. q \in Nat /\ r \in 0..Staleness /\ d = Round * q + r
    BY EpochSlot
  <2>2. \A i \in 0..Staleness : i \in Nat /\ i < Round
    BY RoundPos DEF Round
  <2> QED BY <2>1, <2>2
<1> HIDE DEF q, r
<1>2. ASSUME NEW i \in 0..q
      PROVE  d + 2 - Round * i \in E
  <2>1. Round * i <= Round * q /\ Round * i \in Nat /\ Round * (-i) = -(Round * i)
    <3>1. Round * (q - i) >= 0 /\ Round * (q - i) = Round * q - Round * i /\ q \in Nat
      BY <1>0, <1>1
    <3> QED BY <1>0, <1>1, <3>1
  <2>2. d + 2 - Round * i \in 2..(d + 2)
    BY <1>0, <1>1, <2>1
  <2>3. d + 2 \in Nat /\ -i \in Int /\ (d + 2) + Round * (-i) = d + 2 - Round * i
    BY <1>0, <2>1
  <2>4. (d + 2) + Round * (-i) \in Nat
    BY <2>2, <2>3
  <2>5. Slot((d + 2) + Round * (-i)) = Slot(d + 2)
    BY <2>3, <2>4, RoundsApart
  <2> QED BY <2>2, <2>3, <2>5
<1>3. ASSUME NEW e \in E PROVE \E i \in 0..q : e = d + 2 - Round * i
  <2>1. e \in Nat /\ d + 2 \in Nat /\ e >= 2 /\ e <= d + 2
    OBVIOUS
  <2>2. PICK k \in Int : d + 2 = e + Round * k
    BY <2>1, SameSlot
  <2>3. k >= 0
    <3> SUFFICES ASSUME k <= -1 PROVE FALSE
      BY <2>2
    <3>1. Round * (-k) >= Round /\ Round * (-k) = -(Round * k)
      BY <1>0
    <3> QED BY <1>0, <2>1, <2>2, <3>1
  <2>4. k <= q
    <3> SUFFICES ASSUME k >= q + 1 PROVE FALSE
      BY <1>1, <2>2
    <3>1. Round * (k - q) >= Round /\ Round * (k - q) = Round * k - Round * q
      BY <1>0, <1>1
    <3>2. Round * k \in Int /\ Round * q \in Int
      BY <1>0, <1>1
    <3> HIDE DEF E
    <3> QED BY <1>0, <1>1, <2>1, <2>2, <3>1, <3>2
  <2> QED BY <1>0, <1>1, <2>1, <2>2, <2>3, <2>4
<1>4. ASSUME NEW i \in 0..q, NEW j \in 0..q, i # j
      PROVE  d + 2 - Round * i # d + 2 - Round * j
  <2>1. Round * (i - j) = Round * i - Round * j /\ Round * i \in Int /\ Round * j \in Int
    BY <1>0
  <2>2. Round * (i - j) # 0
    BY <1>0, <1>4
  <2> QED BY <2>1, <2>2
<1>5. IsFiniteSet(0..q) /\ Cardinality(0..q) = q + 1
  BY <1>1, FS_Interval
<1> HIDE DEF E
<1>6. f \in Bijection(0..q, E)
  BY <1>2, <1>3, <1>4 DEF Bijection, Injection, Surjection, IsInjective
<1> HIDE DEF f
<1>7. ExistsBijection(0..q, E)
  BY <1>6 DEF ExistsBijection
<1>8. IsFiniteSet(E) /\ Cardinality(E) = q + 1
  BY <1>5, <1>7, FS_Bijection
<1> QED BY <1>8 DEF E, q

\* While node k has announced v - 1 and nobody more than Staleness epochs beyond
\* v, whatever has been counted does not make a fill for epoch v or a later one.
LEMMA FillsBelow ==
  ASSUME NEW ann \in [Node -> 1..(MaxEpoch + 1)], NEW k \in Node,
         \A m \in Node : ann[m] <= ann[k] + 1 + Staleness,
         NEW T, T \subseteq {h \in Node \X (2..(MaxEpoch + 1)) : h[2] <= ann[h[1]]}
  PROVE  Fills(T) \subseteq 0..(ann[k] - 2)
<1> DEFINE v == ann[k] + 1
<1>0. /\ Round \in Nat /\ Round > 0 /\ Staleness \in Nat /\ MaxEpoch \in Nat /\ Round = Staleness + 1
      /\ NumNodes \in Nat \ {0} /\ ann[k] \in Nat /\ ann[k] >= 1
      /\ v \in Nat /\ v >= 2
  BY RoundPos, NumNodesPos, NodeManagerOK DEF Round
<1> SUFFICES ASSUME NEW d \in Fills(T), d + 2 >= v PROVE FALSE
  BY <1>0 DEF Fills
<1>1. d \in Nat /\ NumNodes * ((d \div Round) + 1) <= Reads(T, Slot(d + 2))
  BY DEF Fills
<1>2. Slot(d + 2) \in 0..Staleness
  BY <1>1, EpochSlot
<1>3. PICK w \in v..(v + Staleness) : Slot(w) = Slot(d + 2)
  BY <1>0, <1>2, SlotInWindow
<1>4. w \in Nat /\ w - 2 \in Nat
  BY <1>0
<1> DEFINE E == {e \in 2..((w - 2) + 2) : Slot(e) = Slot((w - 2) + 2)}
           c == (w - 2) \div Round
<1>5. IsFiniteSet(E) /\ Cardinality(E) = c + 1
  BY <1>4, EpochsOfSlot
<1>6. c \in Nat
  BY <1>4, EpochSlot
<1>7. c <= d \div Round
  <2>1. d + 2 \in Nat
    BY <1>1
  <2>2. PICK j \in Int : d + 2 = w + Round * j
    BY <1>3, <1>4, <2>1, SameSlot
  <2>3. j >= 0
    <3> SUFFICES ASSUME j <= -1 PROVE FALSE
      BY <2>2
    <3>1. Round * (-j) >= Round /\ Round * (-j) = -(Round * j)
      BY <1>0
    <3> QED BY <1>0, <1>1, <2>2, <3>1
  <2>4. d = (w - 2) + Round * j
    BY <1>0, <1>1, <1>4, <2>2
  <2>5. d \div Round = c + j
    BY <1>1, <1>4, <2>2, <2>4, RoundsApart
  <2> QED BY <1>6, <2>2, <2>3, <2>5
<1>8. \A e \in 2..(v + Staleness) : Slot(e) = Slot(w) => e <= w
  <2> SUFFICES ASSUME NEW e \in 2..(v + Staleness), Slot(e) = Slot(w), e > w PROVE FALSE
    BY <1>0
  <2>1. e \in Nat
    BY <1>0
  <2>2. PICK j \in Int : e = w + Round * j
    BY <1>4, <2>1, SameSlot
  <2>3. j > 0
    <3> SUFFICES ASSUME -j >= 0 PROVE FALSE
      BY <2>2
    <3>1. Round * (-j) >= 0 /\ Round * (-j) = -(Round * j)
      BY <1>0
    <3> QED BY <1>0, <1>4, <2>1, <2>2, <3>1
  <2>4. Round * j >= Round
    BY <1>0, <2>3
  <2> QED BY <1>0, <2>1, <2>2, <2>4
<1> DEFINE P == Node \X E
<1>9. In(T, Slot(d + 2)) \subseteq P \ {<<k, w>>}
  <2> SUFFICES ASSUME NEW h \in In(T, Slot(d + 2)) PROVE h \in P \ {<<k, w>>}
    OBVIOUS
  <2>1. h \in Node \X (2..(MaxEpoch + 1)) /\ h[2] <= ann[h[1]] /\ Slot(h[2]) = Slot(w)
    BY <1>3 DEF In
  <2>2. h = <<h[1], h[2]>> /\ h[1] \in Node /\ h[2] \in 2..(MaxEpoch + 1)
    BY <2>1
  <2>3. h[2] \in Nat /\ h[2] >= 2 /\ ann[h[1]] \in Nat /\ ann[h[1]] <= v + Staleness
    BY <1>0, <2>2
  <2>4. h[2] \in 2..(v + Staleness)
    BY <1>0, <2>1, <2>3
  <2>5. h[2] <= w
    BY <1>8, <2>1, <2>4
  <2>6. (w - 2) + 2 = w
    BY <1>4
  <2>7. h[2] \in E
    BY <1>4, <2>1, <2>3, <2>5, <2>6
  <2>8. ~ (h[1] = k /\ h[2] = w)
    BY <1>0, <2>1
  <2> QED BY <2>2, <2>7, <2>8
<1>10. <<k, w>> \in P
  <2>1. (w - 2) + 2 = w
    BY <1>4
  <2> QED BY <2>1, <1>0, <1>4
<1> HIDE DEF E, c
<1>11. IsFiniteSet(P) /\ Cardinality(P) = NumNodes * (c + 1)
  BY <1>5, NodeManagerOK, FS_Product DEF NumNodes
<1> HIDE DEF P
<1>12. IsFiniteSet(P \ {<<k, w>>}) /\ Cardinality(P \ {<<k, w>>}) = Cardinality(P) - 1
  BY <1>10, <1>11, FS_RemoveElement
<1>13. Reads(T, Slot(d + 2)) <= NumNodes * (c + 1) - 1
  BY <1>9, <1>11, <1>12, FS_Subset DEF Reads
<1>14. NumNodes * (c + 1) <= NumNodes * ((d \div Round) + 1)
  <2> DEFINE y == d \div Round
  <2>1. y \in Nat /\ c <= y
    BY <1>1, <1>7, EpochSlot
  <2> HIDE DEF y
  <2>2. NumNodes * (y - c) >= 0 /\ NumNodes * (y - c) = NumNodes * (y + 1) - NumNodes * (c + 1)
    BY <1>0, <1>6, <2>1
  <2>3. NumNodes * (y + 1) \in Int /\ NumNodes * (c + 1) \in Int
    BY <1>0, <1>6, <2>1
  <2>4. NumNodes * (c + 1) <= NumNodes * (y + 1)
    BY <2>2, <2>3
  <2> QED BY <2>4 DEF y
<1>15. NumNodes * (c + 1) \in Int /\ Reads(T, Slot(d + 2)) \in Nat
  BY <1>0, <1>6, InFinite
<1>16. NumNodes * ((d \div Round) + 1) \in Int
  BY <1>0, <1>1, EpochSlot
<1> QED BY <1>1, <1>13, <1>14, <1>15, <1>16

\* One more message is counted in a slot that has been filled f times and stands
\* at c: it is filled once more if c + 1 is the number of nodes.
LEMMA OneMore ==
  ASSUME NEW T, T \subseteq Node \X (2..(MaxEpoch + 1)),
         NEW h \in Node \X (2..(MaxEpoch + 1)), h \notin T,
         NEW f \in Nat, NEW c \in Nat, c < NumNodes,
         Reads(T, Slot(h[2])) = NumNodes * f + c,
         IsFiniteSet(Fills(T))
  PROVE  LET U == T \cup {h} IN
         /\ Reads(U, Slot(h[2])) = NumNodes * f + c + 1
         /\ \A s \in 0..Staleness : s # Slot(h[2]) => Reads(U, s) = Reads(T, s)
         /\ IsFiniteSet(Fills(U))
         /\ Cardinality(Fills(U)) = Cardinality(Fills(T)) + IF c + 1 = NumNodes THEN 1 ELSE 0
<1> DEFINE U == T \cup {h}
           e == h[2]
           s == Slot(e)
<1>0. /\ Round \in Nat /\ Round > 0 /\ Staleness \in Nat /\ MaxEpoch \in Nat
      /\ NumNodes \in Nat \ {0}
  <2>1. h[1] \in Node
    OBVIOUS
  <2> QED BY <2>1, RoundPos, NumNodesPos, NodeManagerOK
<1>1. e \in Nat /\ e >= 2 /\ s \in 0..Staleness
  <2>1. e \in 2..(MaxEpoch + 1)
    OBVIOUS
  <2>2. e \in Nat /\ e >= 2
    BY <1>0, <2>1
  <2> QED BY <2>2, EpochSlot
<1>2. In(U, s) = In(T, s) \cup {h} /\ h \notin In(T, s)
  BY DEF In
<1>3. \A r \in 0..Staleness : r # s => In(U, r) = In(T, r)
  BY DEF In
<1>4. IsFiniteSet(In(T, s))
  BY InFinite
<1>5. Reads(U, s) = NumNodes * f + c + 1
  BY <1>2, <1>4, FS_AddElement DEF Reads
<1>6. \A r \in 0..Staleness : r # s => Reads(U, r) = Reads(T, r)
  BY <1>3 DEF Reads
<1>7. \A d \in Nat : Slot(d + 2) \in 0..Staleness /\ d \div Round \in Nat
  <2> TAKE d \in Nat
  <2>1. d + 2 \in Nat
    OBVIOUS
  <2> QED BY <2>1, EpochSlot
<1>8. ASSUME NEW d \in Nat, Slot(d + 2) # s
      PROVE  d \in Fills(U) <=> d \in Fills(T)
  BY <1>6, <1>7, <1>8 DEF Fills
<1> HIDE DEF U, s
<1>9. Reads(T, s) = NumNodes * f + c
  BY DEF s
<1>10. ASSUME NEW x \in Nat
       PROVE  /\ NumNodes * (x + 1) <= NumNodes * f + c <=> x < f
              /\ c + 1 = NumNodes =>
                   (NumNodes * (x + 1) <= NumNodes * f + c + 1 <=> x <= f)
              /\ c + 1 < NumNodes =>
                   (NumNodes * (x + 1) <= NumNodes * f + c + 1 <=> x < f)
  <2> DEFINE g == NumNodes * (f - x)
  <2>1. g = NumNodes * f - NumNodes * x /\ NumNodes * (x + 1) = NumNodes * x + NumNodes
    BY <1>0
  <2>2. NumNodes * f \in Int /\ NumNodes * x \in Int /\ NumNodes \in Int
    BY <1>0
  <2>3. /\ f - x >= 1 => g >= NumNodes
        /\ f - x <= 0 => g <= 0
        /\ f - x <= -1 => g <= -NumNodes
    <3>1. f - x >= 1 => g >= NumNodes
      BY <1>0
    <3>2. x - f >= 0 => NumNodes * (x - f) >= 0
      BY <1>0
    <3>3. x - f >= 1 => NumNodes * (x - f) >= NumNodes
      BY <1>0
    <3>4. NumNodes * (x - f) = -g /\ g \in Int
      BY <1>0
    <3> HIDE DEF g
    <3> QED BY <1>0, <3>1, <3>2, <3>3, <3>4
  <2>4. f - x = 0 => g = 0
    BY <1>0
  <2> HIDE DEF g
  <2>5. g \in Int
    BY <2>1, <2>2
  <2> QED BY <2>1, <2>2, <2>3, <2>4, <2>5
<1>11. ASSUME NEW d \in Nat, Slot(d + 2) = s
       PROVE  /\ d \in Fills(T) <=> (d \div Round) < f
              /\ c + 1 = NumNodes => (d \in Fills(U) <=> (d \div Round) <= f)
              /\ c + 1 < NumNodes => (d \in Fills(U) <=> (d \div Round) < f)
  <2> DEFINE x == d \div Round
  <2>1. x \in Nat
    BY <1>7
  <2>2. /\ d \in Fills(T) <=> NumNodes * (x + 1) <= NumNodes * f + c
        /\ d \in Fills(U) <=> NumNodes * (x + 1) <= NumNodes * f + c + 1
    BY <1>5, <1>9, <1>11 DEF Fills
  <2> HIDE DEF x
  <2>3. /\ d \in Fills(T) <=> x < f
        /\ c + 1 = NumNodes => (d \in Fills(U) <=> x <= f)
        /\ c + 1 < NumNodes => (d \in Fills(U) <=> x < f)
    BY <2>1, <2>2, <1>10
  <2> QED BY <2>3 DEF x
<1>12. Fills(U) \subseteq Nat /\ Fills(T) \subseteq Nat
  BY DEF Fills
<1>13. CASE c + 1 < NumNodes
  <2>1. Fills(U) = Fills(T)
    BY <1>8, <1>11, <1>12, <1>13
  <2>2. Cardinality(Fills(T)) \in Nat
    BY FS_CardinalityType
  <2>3. Cardinality(Fills(U)) = Cardinality(Fills(T)) + IF c + 1 = NumNodes THEN 1 ELSE 0
    BY <2>1, <2>2, <1>0, <1>13
  <2> QED BY <2>1, <2>3, <1>5, <1>6 DEF U, s
<1>14. CASE c + 1 = NumNodes
  <2>1. PICK w \in 2..(2 + Staleness) : Slot(w) = s
    BY <1>1, SlotInWindow
  <2>2. w - 2 \in Nat /\ w - 2 \in 0..Staleness /\ w \in Nat /\ f \in Int
    BY <1>0
  <2>3. (w - 2) \div Round = 0
    <3>1. w - 2 = Round * 0 + (w - 2)
      BY <1>0, <2>2
    <3> QED BY <2>2, <3>1, EpochSlot
  <2> DEFINE y == (w - 2) + Round * f
  <2>4. y \in Nat /\ w + Round * f \in Nat /\ y + 2 = w + Round * f
    BY <1>0, <2>2
  <2>5. y \div Round = f
    BY <2>2, <2>3, <2>4, RoundsApart
  <2>6. Slot(y + 2) = s
    BY <2>1, <2>2, <2>4, RoundsApart
  <2> HIDE DEF y
  <2>7. ASSUME NEW d \in Nat, Slot(d + 2) = s, d \div Round = f
        PROVE  d = y
    <3>1. d + 2 \in Nat /\ y + 2 \in Nat
      BY <2>4
    <3>2. PICK j \in Int : d + 2 = y + 2 + Round * j
      BY <2>6, <2>7, <3>1, SameSlot
    <3>3. d = y + Round * j
      BY <1>0, <2>4, <3>2
    <3>4. d \div Round = (y \div Round) + j
      BY <2>4, <3>3, RoundsApart
    <3>5. j = 0
      BY <2>5, <2>7, <3>4
    <3> QED BY <1>0, <2>4, <3>3, <3>5
  <2>8. y \in Fills(U) /\ y \notin Fills(T)
    BY <1>11, <1>14, <2>4, <2>5, <2>6
  <2>9. \A d \in Nat : d \in Fills(U) <=> (d \in Fills(T) \/ d = y)
    <3> SUFFICES ASSUME NEW d \in Nat PROVE d \in Fills(U) <=> (d \in Fills(T) \/ d = y)
      OBVIOUS
    <3>1. CASE Slot(d + 2) # s
      BY <3>1, <1>8, <2>6
    <3>2. CASE Slot(d + 2) = s
      <4> DEFINE x == d \div Round
      <4>1. /\ d \in Fills(T) <=> x < f
            /\ d \in Fills(U) <=> x <= f
            /\ x = f => d = y
            /\ x \in Nat
        BY <3>2, <1>7, <1>11, <1>14, <2>7
      <4>2. x <= f <=> (x < f \/ x = f)
        BY <4>1
      <4> HIDE DEF x
      <4> QED BY <4>1, <4>2, <2>8
    <3> QED BY <3>1, <3>2
  <2>10. Fills(U) = Fills(T) \cup {y}
    BY <1>12, <2>4, <2>9
  <2>11. IsFiniteSet(Fills(U)) /\ Cardinality(Fills(U)) = Cardinality(Fills(T)) + 1
    BY <2>8, <2>10, FS_AddElement
  <2> QED BY <2>11, <1>5, <1>6, <1>14 DEF U, s
<1>15. c + 1 = NumNodes \/ c + 1 < NumNodes
  BY <1>0
<1> QED BY <1>13, <1>14, <1>15

-----------------------------------------------------------------------------
(* Publishing and reading, for messages of any type.                       *)

LEMMA PublishChan ==
  ASSUME TypeOK, NEW p \in Node, NEW type, NEW info, PublishMsg(p, type, info),
         NEW n \in Node, NEW m \in Node
  PROVE  /\ chan[n][m] \in Seq(NodeMessage)
         /\ chan'[n][m] = IF m = p THEN Append(chan[n][m], Msg(type, info)) ELSE chan[n][m]
<1>1. chan \in [Node -> [Node -> Seq(NodeMessage)]] /\ chan[n][m] \in Seq(NodeMessage)
  BY DEF TypeOK
<1>2. chan' = [q \in Node |-> [chan[q] EXCEPT ![p] = Append(@, Msg(type, info))]]
  BY DEF PublishMsg, Msg
<1> QED BY <1>1, <1>2

LEMMA PublishSame ==
  ASSUME TypeOK, NEW p \in Node, NEW type \in MessageType,
         NEW info \in Nat, PublishMsg(p, type, info)
  PROVE  \A n \in Node : Adds(chan[n][p], chan'[n][p], type, info)
<1> TAKE n \in Node
<1>1. chan \in [Node -> [Node -> Seq(NodeMessage)]]
      /\ chan' = [q \in Node |-> [chan[q] EXCEPT ![p] = Append(@, Msg(type, info))]]
  BY DEF TypeOK, PublishMsg, Msg
<1>2. chan[n][p] \in Seq(NodeMessage) /\ chan'[n][p] = Append(chan[n][p], Msg(type, info))
  BY <1>1
<1>3. Adds(chan[n][p], Append(chan[n][p], Msg(type, info)), type, info)
  BY <1>2, InfosAppendSame, Zenon
<1> QED BY <1>2, <1>3, Zenon

LEMMA PublishOthers ==
  ASSUME TypeOK, NEW p \in Node, NEW type \in MessageType,
         NEW info \in Nat, PublishMsg(p, type, info), NEW u
  PROVE  \A n, m \in Node : m # p \/ type # u => Keeps(chan[n][m], chan'[n][m], u)
<1> SUFFICES ASSUME NEW n \in Node, NEW m \in Node, m # p \/ type # u
             PROVE  Keeps(chan[n][m], chan'[n][m], u)
  OBVIOUS
<1>1. /\ chan[n][m] \in Seq(NodeMessage)
      /\ chan'[n][m] = IF m = p THEN Append(chan[n][m], Msg(type, info)) ELSE chan[n][m]
  BY PublishChan
<1>2. CASE m = p
  <2>1. chan'[n][m] = Append(chan[n][m], Msg(type, info)) /\ type # u
    BY <1>1, <1>2
  <2>2. Keeps(chan[n][m], Append(chan[n][m], Msg(type, info)), u)
    BY <1>1, <2>1, InfosAppendOther, Zenon
  <2> QED BY <2>1, <2>2, Zenon
<1>3. CASE m # p
  BY <1>1, <1>3 DEF Keeps
<1> QED BY <1>2, <1>3

LEMMA PublishDistinct ==
  ASSUME TypeOK, NEW p \in Node, NEW type \in MessageType,
         NEW info \in Nat, PublishMsg(p, type, info), NEW u
  PROVE  \A n, m \in Node :
           Distinct2(chan[n][m], u) /\ (m = p /\ type = u => info \notin Infos(chan[n][m], u))
             => Distinct2(chan'[n][m], u)
<1> SUFFICES ASSUME NEW n \in Node, NEW m \in Node,
                    Distinct2(chan[n][m], u), m = p /\ type = u => info \notin Infos(chan[n][m], u)
             PROVE  Distinct2(chan'[n][m], u)
  OBVIOUS
<1>1. /\ chan[n][m] \in Seq(NodeMessage)
      /\ chan'[n][m] = IF m = p THEN Append(chan[n][m], Msg(type, info)) ELSE chan[n][m]
  BY PublishChan
<1>2. CASE m = p
  <2>1. chan'[n][m] = Append(chan[n][m], Msg(type, info))
    BY <1>1, <1>2
  <2>2. type = u => info \notin Infos(chan[n][m], u)
    BY <1>2
  <2>3. Distinct2(Append(chan[n][m], Msg(type, info)), u)
    BY <1>1, <2>2, DistinctAppend, Zenon
  <2> QED BY <2>1, <2>3, Zenon
<1>3. CASE m # p
  BY <1>1, <1>3
<1> QED BY <1>2, <1>3

LEMMA TakeInfos ==
  ASSUME TypeOK, NEW n \in Node, NEW m \in Node, Take(n, m), NEW t
  PROVE  LET msg == Head(chan[n][m]) IN
         /\ msg \in NodeMessage
         /\ msg.type = t => msg.info \in Infos(chan[n][m], t)
         /\ \A q, r \in Node : Distinct2(chan[q][r], t) => Distinct2(chan'[q][r], t)
         /\ \A q, r \in Node : q # n \/ r # m \/ msg.type # t => Keeps(chan[q][r], chan'[q][r], t)
         /\ Distinct2(chan[n][m], t) /\ msg.type = t
              => Drops(chan[n][m], chan'[n][m], t, msg.info)
<1> DEFINE s == chan[n][m]
           msg == Head(s)
<1>1. chan \in [Node -> [Node -> Seq(NodeMessage)]] /\ s \in Seq(NodeMessage) /\ s # <<>>
  BY DEF TypeOK, Take
<1>2. /\ msg \in NodeMessage
      /\ msg.type # t => Keeps(s, Tail(s), t)
      /\ msg.type = t => msg.info \in Infos(s, t)
      /\ Distinct2(s, t) => Distinct2(Tail(s), t)
      /\ Distinct2(s, t) /\ msg.type = t => Drops(s, Tail(s), t, msg.info)
  BY <1>1, InfosTail DEF Keeps, Drops
<1>3. chan' = [chan EXCEPT ![n][m] = Tail(s)]
  BY DEF Take
<1>4. \A q, r \in Node : chan'[q][r] = IF q = n /\ r = m THEN Tail(s) ELSE chan[q][r]
  BY <1>1, <1>3
<1>5. chan'[n][m] = Tail(s)
  BY <1>4
<1> HIDE DEF msg
<1>6. \A q, r \in Node : Distinct2(chan[q][r], t) => Distinct2(chan'[q][r], t)
  BY <1>2, <1>4
<1>7. \A q, r \in Node : q # n \/ r # m \/ msg.type # t => Keeps(chan[q][r], chan'[q][r], t)
  <2> SUFFICES ASSUME NEW q \in Node, NEW r \in Node, q # n \/ r # m \/ msg.type # t
               PROVE  Keeps(chan[q][r], chan'[q][r], t)
    OBVIOUS
  <2>1. CASE q = n /\ r = m
    BY <1>2, <1>5, <2>1
  <2>2. CASE ~ (q = n /\ r = m)
    BY <1>4, <2>2 DEF Keeps
  <2> QED BY <2>1, <2>2
<1> QED BY <1>2, <1>5, <1>6, <1>7 DEF msg

-----------------------------------------------------------------------------
(* What a step does to what has been counted.                              *)

\* A message that is no MINEPOCH is published.
LEMMA PublishNoNews ==
  ASSUME TypeOK, NewsOK, NEW p \in Node, NEW type \in {"BARRIER", "MAXEPOCH"},
         NEW info \in Nat, PublishMsg(p, type, info), announced' = announced, minEpoch' = minEpoch
  PROVE  NewsOK' /\ \A n \in Node : Told(n)' = Told(n)
<1>1. type # "MINEPOCH" /\ type \in MessageType
  BY DEF MessageType
<1>2. \A n, m \in Node : m # p \/ type # "MINEPOCH" =>
        Keeps(chan[n][m], chan'[n][m], "MINEPOCH")
  BY <1>1, PublishOthers, Zenon
<1>3. \A n, m \in Node :
        Distinct2(chan[n][m], "MINEPOCH")
          /\ (m = p /\ type = "MINEPOCH" => info \notin Infos(chan[n][m], "MINEPOCH"))
            => Distinct2(chan'[n][m], "MINEPOCH")
  BY <1>1, PublishDistinct, Zenon
<1>4. \A n, m \in Node : News(chan'[n][m]) = News(chan[n][m]) /\ Distinct2(chan'[n][m], "MINEPOCH")
  BY <1>1, <1>2, <1>3 DEF NewsOK, News, Keeps
<1> QED BY <1>4 DEF NewsOK, Told

\* Node p announces its next epoch: nobody else has been told that yet.
LEMMA PublishNews ==
  ASSUME TypeOK, NewsOK, NEW p \in Node, announced[p] < MaxEpoch,
         PublishMsg(p, "MINEPOCH", announced[p] + 1), announced' = [announced EXCEPT ![p] = @ + 1]
  PROVE  LET h == <<p, announced[p] + 1>> IN
         /\ \A n, m \in Node : /\ Distinct2(chan'[n][m], "MINEPOCH")
                               /\ News(chan'[n][m]) \subseteq 2..announced'[m]
         /\ h \in Node \X (2..(MaxEpoch + 1))
         /\ \A n \in Node \ {p} : Told(n)' = Told(n)
         /\ h \notin Told(p) /\ Told(p)' = Told(p) \cup {h}
<1> DEFINE e == announced[p] + 1
<1>0. MaxEpoch \in Nat
  BY NodeManagerOK
<1>1. /\ announced \in [Node -> Nat] /\ announced[p] >= 1 /\ e \in Nat
      /\ \A m \in Node : announced'[m] = IF m = p THEN e ELSE announced[m]
  BY DEF TypeOK, NewsOK
<1>2. \A n, m \in Node : Distinct2(chan[n][m], "MINEPOCH") /\ News(chan[n][m]) \subseteq 2..announced[m]
  BY DEF NewsOK
<1>3. \A n \in Node : e \notin News(chan[n][p])
  BY <1>1, <1>2
<1>15. "MINEPOCH" \in MessageType /\ PublishMsg(p, "MINEPOCH", e)
  BY DEF MessageType
<1> HIDE DEF e
<1>12. \A n \in Node : Adds(chan[n][p], chan'[n][p], "MINEPOCH", e)
  BY <1>1, <1>15, PublishSame, Zenon
<1>13. \A n, m \in Node : m # p \/ "MINEPOCH" # "MINEPOCH" =>
         Keeps(chan[n][m], chan'[n][m], "MINEPOCH")
  BY <1>1, <1>15, PublishOthers, Zenon
<1>14. \A n, m \in Node :
         Distinct2(chan[n][m], "MINEPOCH")
           /\ (m = p /\ "MINEPOCH" = "MINEPOCH" => e \notin Infos(chan[n][m], "MINEPOCH"))
             => Distinct2(chan'[n][m], "MINEPOCH")
  BY <1>1, <1>15, PublishDistinct, Zenon
<1>4. ASSUME NEW n \in Node, NEW m \in Node
      PROVE  /\ News(chan'[n][m]) = IF m = p THEN News(chan[n][p]) \cup {e} ELSE News(chan[n][m])
             /\ Distinct2(chan'[n][m], "MINEPOCH")
  <2>1. Infos(chan'[n][m], "MINEPOCH") = IF m = p THEN Infos(chan[n][m], "MINEPOCH") \cup {e}
                                                 ELSE Infos(chan[n][m], "MINEPOCH")
    BY <1>12, <1>13 DEF Adds, Keeps
  <2>2. Distinct2(chan'[n][m], "MINEPOCH")
    BY <1>2, <1>3, <1>14 DEF News
  <2> QED BY <2>1, <2>2 DEF News
<1>5. \A n, m \in Node : News(chan'[n][m]) \subseteq 2..announced'[m]
  <2> SUFFICES ASSUME NEW n \in Node, NEW m \in Node, NEW x \in News(chan'[n][m])
               PROVE  x \in 2..announced'[m]
    OBVIOUS
  <2>1. x \in 2..announced[m] \/ (m = p /\ x = e)
    BY <1>2, <1>4
  <2> QED BY <1>1, <2>1
<1>6. e \in 2..(MaxEpoch + 1)
  BY <1>0, <1>1
<1>7. ASSUME NEW n \in Node
      PROVE  \A h \in Node \X (2..(MaxEpoch + 1)) :
               h \in Told(n)' <=> (h \in Told(n) \/ (n = p /\ h = <<p, e>>))
  <2> SUFFICES ASSUME NEW q \in Node, NEW x \in 2..(MaxEpoch + 1)
               PROVE  <<q, x>> \in Told(n)' <=> (<<q, x>> \in Told(n) \/ (n = p /\ q = p /\ x = e))
    OBVIOUS
  <2>1. x \in Nat
    BY <1>0
  <2>2. /\ <<q, x>> \in Told(n) <=> x <= announced[q] /\ (q = n \/ x \notin News(chan[n][q]))
        /\ <<q, x>> \in Told(n)' <=> x <= announced'[q] /\ (q = n \/ x \notin News(chan'[n][q]))
    BY DEF Told
  <2>3. CASE q # p
    BY <2>2, <2>3, <1>1, <1>4
  <2>4. CASE q = p
    <3>1. x <= announced'[q] <=> (x <= announced[q] \/ x = e)
      BY <2>1, <2>4, <1>1
    <3>2. x \notin News(chan'[n][q]) <=> (x \notin News(chan[n][q]) /\ x # e)
      BY <2>4, <1>4
    <3>3. x = e => ~ (x <= announced[q])
      BY <2>4, <1>1
    <3> QED BY <2>2, <2>4, <3>1, <3>2, <3>3
  <2> QED BY <2>3, <2>4
<1>8. \A n \in Node : /\ Told(n) \subseteq Node \X (2..(MaxEpoch + 1))
                      /\ Told(n)' \subseteq Node \X (2..(MaxEpoch + 1))
  BY DEF Told
<1>9. \A n \in Node \ {p} : Told(n)' = Told(n)
  BY <1>7, <1>8
<1>10. Told(p)' = Told(p) \cup {<<p, e>>}
  BY <1>6, <1>7, <1>8
<1>11. <<p, e>> \notin Told(p)
  BY <1>1 DEF Told
<1> QED BY <1>4, <1>5, <1>6, <1>9, <1>10, <1>11 DEF e

\* A message is read: it is counted if it is a MINEPOCH of another node.
LEMMA TakeNews ==
  ASSUME TypeOK, NewsOK, NEW n \in Node, NEW m \in Node, Take(n, m), announced' = announced
  PROVE  LET msg == Head(chan[n][m])
             h == <<m, msg.info>>
         IN
         /\ \A q, r \in Node : /\ Distinct2(chan'[q][r], "MINEPOCH")
                               /\ News(chan'[q][r]) \subseteq 2..announced'[r]
         /\ msg \in NodeMessage
         /\ \A q \in Node \ {n} : Told(q)' = Told(q)
         /\ msg.type # "MINEPOCH" \/ m = n => Told(n)' = Told(n)
         /\ msg.type = "MINEPOCH" /\ m # n =>
              h \in Node \X (2..(MaxEpoch + 1)) /\ h \notin Told(n) /\ Told(n)' = Told(n) \cup {h}
<1> DEFINE msg == Head(chan[n][m])
           e == msg.info
<1>0. MaxEpoch \in Nat
  BY NodeManagerOK
<1>1. \A q, r \in Node : Distinct2(chan[q][r], "MINEPOCH") /\ News(chan[q][r]) \subseteq 2..announced[r]
  BY DEF NewsOK
<1>2. /\ msg \in NodeMessage
      /\ msg.type = "MINEPOCH" => e \in News(chan[n][m])
      /\ msg.type = "MINEPOCH" => News(chan'[n][m]) = News(chan[n][m]) \ {e}
  BY <1>1, TakeInfos DEF News, Keeps, Drops
<1>3. ASSUME NEW q \in Node, NEW r \in Node
      PROVE  /\ Distinct2(chan'[q][r], "MINEPOCH")
             /\ ~ (q = n /\ r = m /\ msg.type = "MINEPOCH") => News(chan'[q][r]) = News(chan[q][r])
  BY <1>1, TakeInfos DEF News, Keeps, Drops
<1> HIDE DEF msg
<1>4. \A q, r \in Node : News(chan'[q][r]) \subseteq 2..announced'[r]
  BY <1>1, <1>2, <1>3
<1>5. \A q \in Node \ {n} : Told(q)' = Told(q)
  BY <1>3 DEF Told
<1>6. ASSUME msg.type # "MINEPOCH" \/ m = n PROVE Told(n)' = Told(n)
  <2>1. \A r \in Node \ {n} : News(chan'[n][r]) = News(chan[n][r])
    BY <1>3, <1>6
  <2> QED BY <2>1 DEF Told
<1>7. ASSUME msg.type = "MINEPOCH", m # n
      PROVE  /\ <<m, e>> \in Node \X (2..(MaxEpoch + 1)) /\ <<m, e>> \notin Told(n)
             /\ Told(n)' = Told(n) \cup {<<m, e>>}
  <2>1. e \in 2..announced[m] /\ announced[m] \in 1..(MaxEpoch + 1)
    BY <1>1, <1>2, <1>7 DEF NewsOK
  <2>2. e \in 2..(MaxEpoch + 1) /\ e <= announced[m]
    BY <1>0, <2>1
  <2>3. \A r \in Node : News(chan'[n][r]) = IF r = m THEN News(chan[n][m]) \ {e} ELSE News(chan[n][r])
    BY <1>2, <1>3, <1>7
  <2>4. e \in News(chan[n][m])
    BY <1>2, <1>7
  <2>5. Told(n)' = Told(n) \cup {<<m, e>>}
    BY <1>7, <2>2, <2>3 DEF Told
  <2> QED BY <1>7, <2>2, <2>4, <2>5 DEF Told
<1> QED BY <1>2, <1>3, <1>4, <1>5, <1>6, <1>7 DEF msg

\* A node that counts nothing keeps its ring.
LEMMA RingStays ==
  ASSUME NEW n \in Node, RingOK(n), Told(n)' = Told(n), minEpoch'[n] = minEpoch[n],
         nodesFinishedEpoch'[n] = nodesFinishedEpoch[n]
  PROVE  RingOK(n)'
BY DEF RingOK

\* A node that counts one more finished epoch.
LEMMA RingCounts ==
  ASSUME TypeOK, NEW n \in Node, RingOK(n), NEW h \in Node \X (2..(MaxEpoch + 1)), h \notin Told(n),
         Told(n)' = Told(n) \cup {h}, CountFinished(n, h[2])
  PROVE  /\ RingOK(n)'
         /\ minEpoch'[n] >= minEpoch[n]
         /\ \A q \in Node \ {n} : /\ minEpoch'[q] = minEpoch[q]
                                  /\ nodesFinishedEpoch'[q] = nodesFinishedEpoch[q]
<1> DEFINE T == Told(n)
           s == Slot(h[2])
           c == nodesFinishedEpoch[n][s]
<1>0. MaxEpoch \in Nat /\ NumNodes \in Nat \ {0} /\ Staleness \in Nat
  BY NodeManagerOK, NumNodesPos
<1>1. s \in 0..Staleness
  <2>1. h[2] \in 2..(MaxEpoch + 1)
    OBVIOUS
  <2>2. h[2] \in Nat
    BY <1>0, <2>1
  <2> QED BY <2>2, EpochSlot
<1>2. /\ nodesFinishedEpoch \in [Node -> [0..Staleness -> Nat]] /\ minEpoch \in [Node -> Nat]
      /\ c \in Nat /\ minEpoch[n] \in Nat
  <2>1. nodesFinishedEpoch \in [Node -> [0..Staleness -> Nat]] /\ minEpoch \in [Node -> Nat]
    BY DEF TypeOK
  <2>2. nodesFinishedEpoch[n] \in [0..Staleness -> Nat] /\ minEpoch[n] \in Nat
    BY <2>1
  <2> HIDE DEF s
  <2> QED BY <1>1, <2>1, <2>2
<1>3. /\ c < NumNodes /\ IsFiniteSet(Fills(T)) /\ Cardinality(Fills(T)) = minEpoch[n] - 2
      /\ \E f \in Nat : Reads(T, s) = NumNodes * f + c
  BY <1>1 DEF RingOK
<1>4. PICK f \in Nat : Reads(T, s) = NumNodes * f + c
  BY <1>3
<1>5. T \subseteq Node \X (2..(MaxEpoch + 1))
  BY DEF Told
<1> HIDE DEF T, c
<1>6. LET U == T \cup {h} IN
         /\ Reads(U, s) = NumNodes * f + c + 1
         /\ \A r \in 0..Staleness : r # s => Reads(U, r) = Reads(T, r)
         /\ IsFiniteSet(Fills(U))
         /\ Cardinality(Fills(U)) = Cardinality(Fills(T)) + IF c + 1 = NumNodes THEN 1 ELSE 0
  <2>1. Reads(T, Slot(h[2])) = NumNodes * f + c /\ h \notin T
    BY <1>4 DEF T
  <2>2. IsFiniteSet(Fills(T)) /\ c < NumNodes /\ c \in Nat
    BY <1>2, <1>3
  <2> QED BY <2>1, <2>2, <1>5, OneMore, Zenon
<1>7. Told(n)' = T \cup {h}
  BY DEF T
<1> HIDE DEF s
<1>8. /\ nodesFinishedEpoch' =
           [nodesFinishedEpoch EXCEPT ![n][s] = IF c + 1 = NumNodes THEN 0 ELSE c + 1]
      /\ minEpoch' = IF c + 1 = NumNodes THEN [minEpoch EXCEPT ![n] = @ + 1] ELSE minEpoch
  BY DEF CountFinished, s, c
<1>9. /\ \A q \in Node \ {n} : /\ minEpoch'[q] = minEpoch[q]
                               /\ nodesFinishedEpoch'[q] = nodesFinishedEpoch[q]
      /\ minEpoch'[n] = minEpoch[n] + IF c + 1 = NumNodes THEN 1 ELSE 0
      /\ nodesFinishedEpoch'[n][s] = IF c + 1 = NumNodes THEN 0 ELSE c + 1
      /\ \A r \in 0..Staleness : r # s => nodesFinishedEpoch'[n][r] = nodesFinishedEpoch[n][r]
  <2>1. /\ nodesFinishedEpoch'[n][s] = IF c + 1 = NumNodes THEN 0 ELSE c + 1
        /\ \A q \in Node \ {n} : nodesFinishedEpoch'[q] = nodesFinishedEpoch[q]
        /\ \A r \in 0..Staleness : r # s => nodesFinishedEpoch'[n][r] = nodesFinishedEpoch[n][r]
    <3> DEFINE x == IF c + 1 = NumNodes THEN 0 ELSE c + 1
    <3>1. nodesFinishedEpoch' = [nodesFinishedEpoch EXCEPT ![n][s] = x]
      BY <1>8
    <3> HIDE DEF x
    <3>2. \A q \in Node \ {n} : nodesFinishedEpoch'[q] = nodesFinishedEpoch[q]
      BY <1>2, <3>1
    <3>3. nodesFinishedEpoch'[n] = [nodesFinishedEpoch[n] EXCEPT ![s] = x]
      BY <1>2, <3>1
    <3>4. nodesFinishedEpoch[n] \in [0..Staleness -> Nat]
      BY <1>2
    <3>5. nodesFinishedEpoch'[n][s] = x
      BY <1>1, <3>3, <3>4
    <3>6. \A r \in 0..Staleness : r # s => nodesFinishedEpoch'[n][r] = nodesFinishedEpoch[n][r]
      BY <3>3, <3>4
    <3> QED BY <3>2, <3>5, <3>6 DEF x
  <2>2. /\ \A q \in Node \ {n} : minEpoch'[q] = minEpoch[q]
        /\ minEpoch'[n] = minEpoch[n] + IF c + 1 = NumNodes THEN 1 ELSE 0
    BY <1>2, <1>8
  <2> QED BY <2>1, <2>2
<1>10. ASSUME NEW r \in 0..Staleness
       PROVE  /\ nodesFinishedEpoch'[n][r] < NumNodes
              /\ \E g \in Nat : Reads(Told(n)', r) = NumNodes * g + nodesFinishedEpoch'[n][r]
  <2>1. CASE r # s
    <3>1. /\ nodesFinishedEpoch[n][r] < NumNodes
          /\ \E g \in Nat : Reads(T, r) = NumNodes * g + nodesFinishedEpoch[n][r]
      BY DEF RingOK, T
    <3> QED BY <2>1, <3>1, <1>6, <1>7, <1>9
  <2>2. CASE r = s /\ c + 1 = NumNodes
    <3>1. NumNodes * (f + 1) + 0 = NumNodes * f + c + 1
      BY <1>0, <1>2, <2>2
    <3>2. Reads(Told(n)', r) = NumNodes * (f + 1) + 0 /\ nodesFinishedEpoch'[n][r] = 0
      BY <2>2, <3>1, <1>6, <1>7, <1>9
    <3>3. f + 1 \in Nat
      OBVIOUS
    <3> QED BY <1>0, <3>2, <3>3
  <2>3. CASE r = s /\ c + 1 # NumNodes
    <3>1. Reads(Told(n)', r) = NumNodes * f + (c + 1) /\ nodesFinishedEpoch'[n][r] = c + 1
      <4>1. NumNodes * f \in Int /\ NumNodes * f + c + 1 = NumNodes * f + (c + 1)
        BY <1>0, <1>2
      <4> QED BY <2>3, <4>1, <1>2, <1>6, <1>7, <1>9
    <3>2. c + 1 < NumNodes
      BY <1>0, <1>2, <1>3, <2>3
    <3> QED BY <3>1, <3>2
  <2> QED BY <2>1, <2>2, <2>3
<1>11. IsFiniteSet(Fills(Told(n)')) /\ Cardinality(Fills(Told(n)')) = minEpoch'[n] - 2
  <2> DEFINE F == Fills(T \cup {h})
  <2>1. /\ minEpoch[n] \in Nat /\ IsFiniteSet(F)
        /\ Cardinality(F) = minEpoch[n] - 2 + IF c + 1 = NumNodes THEN 1 ELSE 0
    BY <1>2, <1>3, <1>6
  <2>2. Fills(Told(n)') = F
    BY <1>7
  <2> HIDE DEF F
  <2> QED BY <1>9, <2>1, <2>2
<1>12. RingOK(n)'
  BY <1>10, <1>11 DEF RingOK
<1>13. minEpoch'[n] >= minEpoch[n]
  BY <1>2, <1>9
<1> QED BY <1>9, <1>12, <1>13

-----------------------------------------------------------------------------
(* The invariant is inductive.                                             *)

LEMMA InitSInv == Init => SInv
<1> SUFFICES ASSUME Init PROVE SInv
  OBVIOUS
<1>0. MaxEpoch \in Nat /\ Staleness \in Nat
  BY NodeManagerOK
<1>1. NewsOK
  BY <1>0 DEF Init, NewsOK, News, Infos, Distinct2
<1>2. ASSUME NEW n \in Node PROVE RingOK(n)
  <2>0. NumNodes \in Nat \ {0}
    BY NumNodesPos
  <2>1. Told(n) = {}
    BY <1>0 DEF Init, Told
  <2>2. \A s : Reads(Told(n), s) = 0
    BY <2>1, FS_EmptySet DEF Reads, In
  <2>3. Fills(Told(n)) = {}
    <3> SUFFICES ASSUME NEW d \in Fills(Told(n)) PROVE FALSE
      OBVIOUS
    <3>1. d \in Nat /\ NumNodes * ((d \div Round) + 1) <= 0
      BY <2>2 DEF Fills
    <3> DEFINE x == d \div Round
    <3>2. x \in Nat
      BY <3>1, EpochSlot
    <3> HIDE DEF x
    <3>3. NumNodes * (x + 1) > 0
      BY <2>0, <3>2
    <3>4. NumNodes * (x + 1) \in Int /\ NumNodes * (x + 1) <= 0
      BY <2>0, <3>1, <3>2 DEF x
    <3> QED BY <3>3, <3>4
  <2>4. IsFiniteSet({}) /\ Cardinality({}) = 0
    BY FS_EmptySet
  <2>5. minEpoch[n] = 2 /\ \A s \in 0..Staleness : nodesFinishedEpoch[n][s] = 0
    BY DEF Init
  <2>6. \A s \in 0..Staleness : \E f \in Nat : Reads(Told(n), s) = NumNodes * f + nodesFinishedEpoch[n][s]
    <3>1. NumNodes * 0 + 0 = 0
      BY <2>0
    <3> QED BY <3>1, <2>2, <2>5
  <2> QED BY <2>0, <2>3, <2>4, <2>5, <2>6 DEF RingOK
<1>3. BoundedStaleness
  BY DEF Init, BoundedStaleness
<1> QED BY <1>1, <1>2, <1>3 DEF SInv

\* What is left to show of a step once the rings are right after it: nobody
\* announces an epoch more than Staleness beyond its own minEpoch.
LEMMA StaleStep ==
  ASSUME TypeOK, TypeOK', SInv, \A n \in Node : RingOK(n)',
         \A n, m \in Node : /\ Distinct2(chan'[n][m], "MINEPOCH")
                            /\ News(chan'[n][m]) \subseteq 2..announced'[m],
         \A m \in Node : /\ minEpoch'[m] >= minEpoch[m]
                         /\ announced'[m] >= announced[m]
                         /\ announced'[m] \in 1..(MaxEpoch + 1)
                         /\ announced'[m] <= minEpoch[m] + Staleness
  PROVE  SInv'
<1>0. MaxEpoch \in Nat /\ Staleness \in Nat
  BY NodeManagerOK
<1>1. /\ minEpoch \in [Node -> Nat] /\ minEpoch' \in [Node -> Nat]
      /\ announced \in [Node -> Nat] /\ announced' \in [Node -> Nat]
  BY DEF TypeOK
<1>2. announced' \in [Node -> 1..(MaxEpoch + 1)]
  BY <1>1
<1>3. NewsOK'
  BY <1>0, <1>1 DEF NewsOK
<1>4. ASSUME NEW n \in Node, NEW k \in Node
      PROVE  minEpoch'[n] <= announced'[k] + 1
  <2>1. \A m \in Node : announced'[m] <= announced'[k] + 1 + Staleness
    <3> TAKE m \in Node
    <3>1. minEpoch[m] <= announced[k] + 1
      BY DEF SInv, BoundedStaleness
    <3> QED BY <1>0, <1>1, <3>1
  <2> DEFINE T == Told(n)'
  <2>2. T \subseteq {h \in Node \X (2..(MaxEpoch + 1)) : h[2] <= announced'[h[1]]}
    BY DEF Told
  <2> HIDE DEF T
  <2>3. Fills(T) \subseteq 0..(announced'[k] - 2)
    BY <1>2, <2>1, <2>2, FillsBelow
  <2>4. announced'[k] \in Nat /\ announced'[k] >= 1 /\ minEpoch'[n] \in Nat
    BY <1>0, <1>1
  <2>5. IsFiniteSet(0..(announced'[k] - 2)) /\ Cardinality(0..(announced'[k] - 2)) = announced'[k] - 1
    <3> DEFINE u == announced'[k] - 2
    <3>1. u \in Int /\ u >= -1 /\ announced'[k] - 1 = u + 1 /\ 0 \in Int
      BY <2>4
    <3> HIDE DEF u
    <3>2. IsFiniteSet(0..u) /\ Cardinality(0..u) = IF 0 > u THEN 0 ELSE u - 0 + 1
      BY <3>1, FS_Interval, Zenon
    <3>3. Cardinality(0..u) = u + 1
      BY <3>1, <3>2
    <3> QED BY <3>1, <3>2, <3>3 DEF u
  <2>6. Cardinality(Fills(T)) <= announced'[k] - 1
    BY <2>3, <2>5, FS_Subset
  <2>7. Cardinality(Fills(T)) = minEpoch'[n] - 2
    BY DEF RingOK, T
  <2> QED BY <2>4, <2>6, <2>7
<1>5. BoundedStaleness'
  BY <1>4 DEF BoundedStaleness
<1> QED BY <1>3, <1>5 DEF SInv

\* What NewsOK says of the numbers of the epochs announced.
LEMMA AnnouncedFacts ==
  ASSUME TypeOK, SInv, NEW m \in Node
  PROVE  /\ minEpoch[m] \in Nat /\ announced[m] \in Nat
         /\ announced[m] \in 1..(MaxEpoch + 1) /\ announced[m] <= minEpoch[m] + Staleness
BY DEF TypeOK, SInv, NewsOK

\* A step that publishes no MINEPOCH, or does not publish at all, and counts nothing.
LEMMA StaleQuiet ==
  ASSUME SInv, NewsOK', \A n \in Node : Told(n)' = Told(n),
         announced' = announced, minEpoch' = minEpoch, nodesFinishedEpoch' = nodesFinishedEpoch
  PROVE  SInv'
<1>1. \A n \in Node : RingOK(n)'
  BY RingStays DEF SInv
<1>2. BoundedStaleness'
  BY DEF SInv, BoundedStaleness
<1> QED BY <1>1, <1>2 DEF SInv

\* A node reads a message, in whatever call it is.
LEMMA ReadStale ==
  ASSUME TypeOK, TypeOK', SInv, NEW n \in Node, NEW m \in Node, Take(n, m), announced' = announced,
         \/ ParseNodeMsg(n, m, Head(chan[n][m]))
         \/ Head(chan[n][m]).type = "MAXEPOCH" /\ UNCHANGED epochvars
  PROVE  SInv'
<1> DEFINE msg == Head(chan[n][m])
           h == <<m, msg.info>>
<1>1. /\ \A q, r \in Node : /\ Distinct2(chan'[q][r], "MINEPOCH")
                            /\ News(chan'[q][r]) \subseteq 2..announced'[r]
      /\ msg \in NodeMessage
      /\ \A q \in Node \ {n} : Told(q)' = Told(q)
      /\ msg.type # "MINEPOCH" \/ m = n => Told(n)' = Told(n)
      /\ msg.type = "MINEPOCH" /\ m # n =>
           h \in Node \X (2..(MaxEpoch + 1)) /\ h \notin Told(n) /\ Told(n)' = Told(n) \cup {h}
  BY TakeNews DEF SInv
<1>2. CASE msg.type # "MINEPOCH" \/ m = n
  <2>1. minEpoch' = minEpoch /\ nodesFinishedEpoch' = nodesFinishedEpoch
    BY <1>2 DEF ParseNodeMsg, epochvars
  <2>2. NewsOK'
    BY <1>1, <2>1 DEF SInv, NewsOK
  <2>3. \A q \in Node : Told(q)' = Told(q)
    BY <1>1, <1>2
  <2> QED BY <2>1, <2>2, <2>3, StaleQuiet
<1>3. CASE msg.type = "MINEPOCH" /\ m # n
  <2>1. CountFinished(n, h[2])
    BY <1>3 DEF ParseNodeMsg
  <2>2. RingOK(n)
    BY DEF SInv
  <2>3. h \in Node \X (2..(MaxEpoch + 1)) /\ h \notin Told(n) /\ Told(n)' = Told(n) \cup {h}
    BY <1>1, <1>3
  <2> HIDE DEF h
  <2>4. /\ RingOK(n)'
        /\ minEpoch'[n] >= minEpoch[n]
        /\ \A q \in Node \ {n} : /\ minEpoch'[q] = minEpoch[q]
                                 /\ nodesFinishedEpoch'[q] = nodesFinishedEpoch[q]
    BY <2>1, <2>2, <2>3, RingCounts
  <2>5. \A q \in Node : RingOK(q)'
    <3> TAKE q \in Node
    <3>1. CASE q # n
      BY <3>1, <1>1, <2>4, RingStays DEF SInv
    <3> QED BY <3>1, <2>4
  <2>6. ASSUME NEW q \in Node
        PROVE  /\ minEpoch'[q] >= minEpoch[q]
               /\ announced'[q] >= announced[q]
               /\ announced'[q] \in 1..(MaxEpoch + 1)
               /\ announced'[q] <= minEpoch[q] + Staleness
    <3>1. /\ minEpoch[q] \in Nat /\ announced[q] \in Nat
          /\ announced[q] \in 1..(MaxEpoch + 1) /\ announced[q] <= minEpoch[q] + Staleness
      BY AnnouncedFacts
    <3>2. minEpoch'[q] >= minEpoch[q]
      BY <2>4, <3>1
    <3> QED BY <3>1, <3>2
  <2> QED BY <1>1, <2>5, <2>6, StaleStep
<1> QED BY <1>2, <1>3

LEMMA AnnounceStale ==
  ASSUME TypeOK, TypeOK', SInv, NEW n \in Node, SendEpochUpdate(n)
  PROVE  SInv'
<1> DEFINE h == <<n, announced[n] + 1>>
<1>0. MaxEpoch \in Nat /\ Staleness \in Nat
  BY NodeManagerOK
<1>1. /\ announced[n] < MaxEpoch /\ announced[n] < minEpoch[n] + Staleness
      /\ announced' = [announced EXCEPT ![n] = @ + 1]
      /\ PublishMsg(n, "MINEPOCH", announced[n] + 1)
      /\ CountFinished(n, h[2])
  BY DEF SendEpochUpdate
<1>2. /\ \A q, m \in Node : /\ Distinct2(chan'[q][m], "MINEPOCH")
                            /\ News(chan'[q][m]) \subseteq 2..announced'[m]
      /\ h \in Node \X (2..(MaxEpoch + 1))
      /\ \A q \in Node \ {n} : Told(q)' = Told(q)
      /\ h \notin Told(n) /\ Told(n)' = Told(n) \cup {h}
  BY <1>1, PublishNews DEF SInv
<1> HIDE DEF h
<1>3. /\ RingOK(n)'
      /\ minEpoch'[n] >= minEpoch[n]
      /\ \A q \in Node \ {n} : /\ minEpoch'[q] = minEpoch[q]
                               /\ nodesFinishedEpoch'[q] = nodesFinishedEpoch[q]
  BY <1>1, <1>2, RingCounts DEF SInv
<1>4. \A q \in Node : RingOK(q)'
  <2> TAKE q \in Node
  <2>1. CASE q # n
    BY <2>1, <1>2, <1>3, RingStays DEF SInv
  <2> QED BY <2>1, <1>3
<1>5. ASSUME NEW q \in Node
      PROVE  /\ minEpoch'[q] >= minEpoch[q]
             /\ announced'[q] >= announced[q]
             /\ announced'[q] \in 1..(MaxEpoch + 1)
             /\ announced'[q] <= minEpoch[q] + Staleness
  <2>1. /\ minEpoch[q] \in Nat /\ announced[q] \in Nat
        /\ announced[q] \in 1..(MaxEpoch + 1) /\ announced[q] <= minEpoch[q] + Staleness
    BY AnnouncedFacts
  <2>2. minEpoch'[q] >= minEpoch[q]
    BY <1>3, <2>1
  <2>3. announced'[q] = IF q = n THEN announced[q] + 1 ELSE announced[q]
    BY <1>1 DEF TypeOK
  <2> QED BY <1>0, <1>1, <2>1, <2>2, <2>3
<1> QED BY <1>2, <1>4, <1>5, StaleStep

LEMMA NextSInv == TypeOK /\ TypeOK' /\ SInv /\ [Next]_vars => SInv'
<1> SUFFICES ASSUME TypeOK, TypeOK', SInv, [Next]_vars PROVE SInv'
  OBVIOUS
<1>1. ASSUME chan' = chan, announced' = announced, UNCHANGED epochvars PROVE SInv'
  <2>1. NewsOK' /\ \A n \in Node : Told(n)' = Told(n)
    BY <1>1 DEF SInv, NewsOK, Told, epochvars
  <2> QED BY <1>1, <2>1, StaleQuiet DEF epochvars
<1>2. CASE UNCHANGED vars
  BY <1>1, <1>2 DEF vars
<1>3. ASSUME NEW n \in Node, BarrierReturn(n) \/ SyncReturn(n) PROVE SInv'
  BY <1>1, <1>3 DEF BarrierReturn, SyncReturn
<1>4. ASSUME NEW n \in Node, NEW type \in {"BARRIER", "MAXEPOCH"}, NEW info \in Nat,
             PublishMsg(n, type, info), announced' = announced, UNCHANGED epochvars
      PROVE  SInv'
  <2>1. NewsOK' /\ \A q \in Node : Told(q)' = Told(q)
    BY <1>4, PublishNoNews DEF SInv, epochvars
  <2> QED BY <1>4, <2>1, StaleQuiet DEF epochvars
<1>5. ASSUME NEW n \in Node, BarrierCall(n) PROVE SInv'
  <2>1. entered[n] + 1 \in Nat
    BY DEF TypeOK
  <2> QED BY <1>4, <1>5, <2>1 DEF BarrierCall
<1>6. ASSUME NEW n \in Node, SyncCall(n) PROVE SInv'
  <2>1. PICK epoch \in announced[n] .. minEpoch[n] + Staleness : PublishMsg(n, "MAXEPOCH", epoch)
    BY <1>6 DEF SyncCall
  <2>2. epoch \in Nat
    <3>1. announced[n] \in Nat /\ minEpoch[n] \in Nat /\ Staleness \in Nat
      BY NodeManagerOK DEF TypeOK
    <3> QED BY <3>1
  <2> QED BY <1>4, <1>6, <2>1, <2>2 DEF SyncCall
<1>7. ASSUME NEW n \in Node, NEW m \in Node, BarrierRecv(n, m) \/ ReadEpochUpdates(n, m) \/ SyncRecv(n, m)
      PROVE  SInv'
  <2>1. /\ Take(n, m) /\ announced' = announced
        /\ \/ ParseNodeMsg(n, m, Head(chan[n][m]))
           \/ Head(chan[n][m]).type = "MAXEPOCH" /\ UNCHANGED epochvars
    BY <1>7 DEF BarrierRecv, ReadEpochUpdates, SyncRecv
  <2> QED BY <2>1, ReadStale
<1>8. ASSUME NEW n \in Node, SendEpochUpdate(n) PROVE SInv'
  BY <1>8, AnnounceStale
<1> QED BY <1>2, <1>3, <1>5, <1>6, <1>7, <1>8 DEF Next, Barriers, Syncs, Updates

\* An epoch is opened to a node only when everybody has finished the one that is
\* Staleness + 1 before it, for any number of nodes and any staleness, although
\* a slot of the ring may mix the announcements of different epochs.
THEOREM StalenessBounded == Spec => []BoundedStaleness
<1>1. SInv => BoundedStaleness
  BY DEF SInv
<1> QED BY <1>1, InitSInv, NextSInv, TypeCorrect, PTL DEF Spec



-----------------------------------------------------------------------------
(* The agreement on the newest epoch.  MAXEPOCH messages do not say which  *)
(* agreement they belong to; in the code there is one per run              *)
(* (pipeline.cpp:58), and OneSync says so of the program.                  *)

OneSync == \A i, j \in DOMAIN Script : Script[i] = "sync" /\ Script[j] = "sync" => i = j

\* Node n has called syncCurrEpoch.
Synced(n) == \E i \in 1..calls[n] : Script[i] = "sync"

Maxima(n, m) == Infos(chan[n][m], "MAXEPOCH")

\* What each node has sent, and whose messages each has heard.
Agreement(sent, heard) ==
  /\ \A n, m \in Node :
       /\ Distinct2(chan[n][m], "MAXEPOCH")
       /\ Maxima(n, m) \subseteq {sent[m]}
       /\ Maxima(n, m) # {} => Synced(m)
  /\ \A n \in Node : op[n] = "sync" => Synced(n)
  /\ \A n \in Node : Synced(n) =>
       /\ \A m \in heard[n] : Synced(m) /\ Maxima(n, m) = {} /\ sent[m] <= maxEpoch[n]
       /\ Cardinality(heard[n]) = received[n]
       /\ \E m \in Node : Synced(m) /\ maxEpoch[n] = sent[m]
       /\ op[n] # "sync" => heard[n] = Node

SyncInv == \E sent \in [Node -> Nat], heard \in [Node -> SUBSET Node] : Agreement(sent, heard)

LEMMA CallsSynced ==
  ASSUME OneSync, TypeOK, NEW n \in Node, NEW call \in {"barrier", "sync"}, Calls(n, call)
  PROVE  /\ \A m \in Node \ {n} : Synced(m)' <=> Synced(m)
         /\ call = "barrier" => (Synced(n)' <=> Synced(n))
         /\ call = "sync" => Synced(n)' /\ ~ Synced(n)
<1>1. calls \in [Node -> 0..Len(Script)] /\ Len(Script) \in Nat /\ DOMAIN Script = 1..Len(Script)
  BY NodeManagerOK DEF TypeOK
<1>2. calls[n] \in Nat /\ calls[n] < Len(Script) /\ Script[calls[n] + 1] = call
      /\ calls' = [calls EXCEPT ![n] = @ + 1]
  BY <1>1 DEF Calls
<1>3. calls'[n] = calls[n] + 1 /\ \A m \in Node \ {n} : calls'[m] = calls[m]
  BY <1>1, <1>2
<1>4. \A m \in Node \ {n} : Synced(m)' <=> Synced(m)
  BY <1>3 DEF Synced
<1>5. \A i : i \in 1..(calls[n] + 1) <=> (i \in 1..calls[n] \/ i = calls[n] + 1)
  BY <1>2
<1>6. Synced(n)' <=> (Synced(n) \/ call = "sync")
  BY <1>2, <1>3, <1>5 DEF Synced
<1>7. ASSUME call = "sync", Synced(n) PROVE FALSE
  <2>1. PICK i \in 1..calls[n] : Script[i] = "sync"
    BY <1>7 DEF Synced
  <2>2. i \in DOMAIN Script /\ calls[n] + 1 \in DOMAIN Script /\ i # calls[n] + 1
    BY <1>1, <1>2
  <2> QED BY <1>2, <1>7, <2>1, <2>2 DEF OneSync
<1> QED BY <1>4, <1>6, <1>7

LEMMA InitSync == Init => SyncInv
<1> SUFFICES ASSUME Init PROVE SyncInv
  OBVIOUS
<1> DEFINE sent == [m \in Node |-> 0]
           heard == [m \in Node |-> {}]
<1>1. \A n \in Node : calls[n] = 0 /\ op[n] = "idle" /\ \A m \in Node : chan[n][m] = <<>>
  BY DEF Init
<1>2. \A n \in Node : ~ Synced(n)
  BY <1>1 DEF Synced
<1>3. \A n, m \in Node : Maxima(n, m) = {} /\ Distinct2(chan[n][m], "MAXEPOCH")
  BY <1>1 DEF Maxima, Infos, Distinct2
<1>4. Agreement(sent, heard)
  BY <1>1, <1>2, <1>3 DEF Agreement
<1>5. sent \in [Node -> Nat] /\ heard \in [Node -> SUBSET Node]
  OBVIOUS
<1> HIDE DEF sent, heard
<1> QED BY <1>4, <1>5 DEF SyncInv

\* A step that leaves the MAXEPOCH messages and the calls as they are.
LEMMA SyncQuiet ==
  ASSUME SyncInv, \A n, m \in Node : Maxima(n, m)' = Maxima(n, m) /\ Distinct2(chan'[n][m], "MAXEPOCH"),
         \A n \in Node : (Synced(n)' <=> Synced(n)) /\ (op'[n] = "sync" <=> op[n] = "sync"),
         received' = received, maxEpoch' = maxEpoch
  PROVE  SyncInv'
<1>1. PICK sent \in [Node -> Nat], heard \in [Node -> SUBSET Node] : Agreement(sent, heard)
  BY DEF SyncInv
<1>2. Agreement(sent, heard)'
  BY <1>1 DEF Agreement
<1> QED BY <1>2 DEF SyncInv

\* A message is published that is no MAXEPOCH.
LEMMA PublishNoMax ==
  ASSUME TypeOK, SyncInv, NEW p \in Node, NEW type \in {"BARRIER", "MINEPOCH"},
         NEW info \in Nat, PublishMsg(p, type, info), NEW n \in Node, NEW m \in Node
  PROVE  Maxima(n, m)' = Maxima(n, m) /\ Distinct2(chan'[n][m], "MAXEPOCH")
<1>1. type # "MAXEPOCH" /\ type \in MessageType
  BY DEF MessageType
<1>2. \A a, b \in Node : b # p \/ type # "MAXEPOCH" =>
        Keeps(chan[a][b], chan'[a][b], "MAXEPOCH")
  BY <1>1, PublishOthers, Zenon
<1>3. \A a, b \in Node :
        Distinct2(chan[a][b], "MAXEPOCH")
          /\ (b = p /\ type = "MAXEPOCH" => info \notin Infos(chan[a][b], "MAXEPOCH"))
            => Distinct2(chan'[a][b], "MAXEPOCH")
  BY <1>1, PublishDistinct, Zenon
<1>4. \A a, b \in Node : Distinct2(chan[a][b], "MAXEPOCH")
  BY DEF SyncInv, Agreement
<1> QED BY <1>1, <1>2, <1>3, <1>4 DEF Maxima, Keeps

LEMMA SyncCallAgrees ==
  ASSUME OneSync, TypeOK, SyncInv, NEW n \in Node, SyncCall(n)
  PROVE  SyncInv'
<1>1. PICK sent \in [Node -> Nat], heard \in [Node -> SUBSET Node] : Agreement(sent, heard)
  BY DEF SyncInv
<1>2. PICK epoch \in announced[n] .. minEpoch[n] + Staleness :
        PublishMsg(n, "MAXEPOCH", epoch) /\ maxEpoch' = [maxEpoch EXCEPT ![n] = epoch]
  BY DEF SyncCall
<1>3. epoch \in Nat
  <2>1. announced[n] \in Nat /\ minEpoch[n] \in Nat /\ Staleness \in Nat
    BY NodeManagerOK DEF TypeOK
  <2> QED BY <2>1
<1>4. /\ \A m \in Node \ {n} : Synced(m)' <=> Synced(m)
      /\ Synced(n)' /\ ~ Synced(n)
  BY CallsSynced DEF SyncCall
<1>5. /\ op \in [Node -> {"idle", "barrier", "sync"}] /\ received \in [Node -> Nat]
      /\ maxEpoch \in [Node -> Nat] /\ op' = [op EXCEPT ![n] = "sync"]
      /\ received' = [received EXCEPT ![n] = 0]
  BY DEF TypeOK, SyncCall, Calls
<1> DEFINE sent2 == [sent EXCEPT ![n] = epoch]
           heard2 == [heard EXCEPT ![n] = {}]
<1>11. "MAXEPOCH" \in MessageType /\ PublishMsg(n, "MAXEPOCH", epoch)
  BY <1>2 DEF MessageType
<1>12. \A q \in Node : Adds(chan[q][n], chan'[q][n], "MAXEPOCH", epoch)
  BY <1>3, <1>11, PublishSame, Zenon
<1>13. \A q, m \in Node : m # n \/ "MAXEPOCH" # "MAXEPOCH" =>
         Keeps(chan[q][m], chan'[q][m], "MAXEPOCH")
  BY <1>3, <1>11, PublishOthers, Zenon
<1>14. \A q, m \in Node :
         Distinct2(chan[q][m], "MAXEPOCH")
           /\ (m = n /\ "MAXEPOCH" = "MAXEPOCH" => epoch \notin Infos(chan[q][m], "MAXEPOCH"))
             => Distinct2(chan'[q][m], "MAXEPOCH")
  BY <1>3, <1>11, PublishDistinct, Zenon
<1>6. ASSUME NEW q \in Node, NEW m \in Node
      PROVE  /\ Maxima(q, m)' = IF m = n THEN {epoch} ELSE Maxima(q, m)
             /\ Distinct2(chan'[q][m], "MAXEPOCH")
  <2>1. Infos(chan'[q][m], "MAXEPOCH") = IF m = n THEN Infos(chan[q][m], "MAXEPOCH") \cup {epoch}
                                                   ELSE Infos(chan[q][m], "MAXEPOCH")
    BY <1>12, <1>13 DEF Adds, Keeps
  <2>2. Maxima(q, n) = {}
    BY <1>1, <1>4 DEF Agreement
  <2>3. Distinct2(chan[q][m], "MAXEPOCH") /\ (m = n => epoch \notin Infos(chan[q][m], "MAXEPOCH"))
    BY <1>1, <2>2 DEF Agreement, Maxima
  <2>4. Distinct2(chan'[q][m], "MAXEPOCH")
    BY <1>14, <2>3
  <2> QED BY <2>1, <2>2, <2>4 DEF Maxima
<1>7. sent2 \in [Node -> Nat] /\ heard2 \in [Node -> SUBSET Node]
      /\ sent2[n] = epoch /\ heard2[n] = {}
      /\ \A m \in Node \ {n} : sent2[m] = sent[m] /\ heard2[m] = heard[m]
  BY <1>3
<1> HIDE DEF sent2, heard2
<1>8. \A q, m \in Node :
        /\ Distinct2(chan'[q][m], "MAXEPOCH")
        /\ Maxima(q, m)' \subseteq {sent2[m]}
        /\ Maxima(q, m)' # {} => Synced(m)'
  BY <1>1, <1>4, <1>6, <1>7 DEF Agreement
<1>9. \A q \in Node : op'[q] = "sync" => Synced(q)'
  BY <1>1, <1>4, <1>5 DEF Agreement
<1>10. ASSUME NEW q \in Node, Synced(q)'
       PROVE  /\ \A m \in heard2[q] : Synced(m)' /\ Maxima(q, m)' = {} /\ sent2[m] <= maxEpoch'[q]
              /\ Cardinality(heard2[q]) = received'[q]
              /\ \E m \in Node : Synced(m)' /\ maxEpoch'[q] = sent2[m]
              /\ op'[q] # "sync" => heard2[q] = Node
  <2>1. CASE q = n
    <3>1. maxEpoch'[q] = epoch /\ received'[q] = 0 /\ op'[q] = "sync" /\ heard2[q] = {}
      BY <2>1, <1>2, <1>5, <1>7
    <3>2. Cardinality({}) = 0
      BY FS_EmptySet
    <3> QED BY <2>1, <3>1, <3>2, <1>4, <1>7
  <2>2. CASE q # n
    <3>1. Synced(q) /\ maxEpoch'[q] = maxEpoch[q] /\ received'[q] = received[q] /\ op'[q] = op[q]
          /\ heard2[q] = heard[q] /\ heard[q] \subseteq Node
      BY <2>2, <1>2, <1>4, <1>5, <1>7, <1>10
    <3>2. /\ \A m \in heard[q] : Synced(m) /\ Maxima(q, m) = {} /\ sent[m] <= maxEpoch[q]
          /\ Cardinality(heard[q]) = received[q]
          /\ \E m \in Node : Synced(m) /\ maxEpoch[q] = sent[m]
          /\ op[q] # "sync" => heard[q] = Node
      BY <1>1, <3>1 DEF Agreement
    <3>3. ASSUME NEW m \in heard[q]
          PROVE  Synced(m)' /\ Maxima(q, m)' = {} /\ sent2[m] <= maxEpoch'[q]
      <4>1. m \in Node /\ m # n
        BY <3>1, <3>2, <1>4
      <4> QED BY <4>1, <3>1, <3>2, <1>4, <1>6, <1>7
    <3>4. \E m \in Node : Synced(m)' /\ maxEpoch'[q] = sent2[m]
      <4>1. PICK m \in Node : Synced(m) /\ maxEpoch[q] = sent[m]
        BY <3>2
      <4>2. m # n
        BY <4>1, <1>4
      <4> QED BY <4>1, <4>2, <3>1, <1>4, <1>7
    <3> QED BY <3>1, <3>2, <3>3, <3>4
  <2> QED BY <2>1, <2>2
<1>15. Agreement(sent2, heard2)'
  BY <1>8, <1>9, <1>10 DEF Agreement
<1> QED BY <1>7, <1>15 DEF SyncInv

\* A node reads a message: in syncCurrEpoch a MAXEPOCH message counts, elsewhere
\* it is lost.
LEMMA ReadAgrees ==
  ASSUME TypeOK, SyncInv, NEW n \in Node, NEW m \in Node, Take(n, m), UNCHANGED <<op, calls>>,
         \/ UNCHANGED <<received, maxEpoch>>
         \/ LET msg == Head(chan[n][m]) IN
            /\ msg.type = "MAXEPOCH" /\ op[n] = "sync"
            /\ received' = [received EXCEPT ![n] = @ + 1]
            /\ maxEpoch' = [maxEpoch EXCEPT ![n] = IF msg.info > @ THEN msg.info ELSE @]
  PROVE  SyncInv'
<1> DEFINE msg == Head(chan[n][m])
<1>1. PICK sent \in [Node -> Nat], heard \in [Node -> SUBSET Node] : Agreement(sent, heard)
  BY DEF SyncInv
<1>2. \A q \in Node : Synced(q)' <=> Synced(q)
  BY DEF Synced
<1>11. /\ msg \in NodeMessage
       /\ msg.type = "MAXEPOCH" => msg.info \in Infos(chan[n][m], "MAXEPOCH")
       /\ \A q, r \in Node : Distinct2(chan[q][r], "MAXEPOCH") => Distinct2(chan'[q][r], "MAXEPOCH")
       /\ \A q, r \in Node : q # n \/ r # m \/ msg.type # "MAXEPOCH"
                               => Keeps(chan[q][r], chan'[q][r], "MAXEPOCH")
       /\ Distinct2(chan[n][m], "MAXEPOCH") /\ msg.type = "MAXEPOCH"
            => Drops(chan[n][m], chan'[n][m], "MAXEPOCH", msg.info)
  BY TakeInfos, Zenon
<1>3. ASSUME NEW q \in Node, NEW r \in Node
      PROVE  /\ Distinct2(chan'[q][r], "MAXEPOCH")
             /\ ~ (q = n /\ r = m /\ msg.type = "MAXEPOCH") => Maxima(q, r)' = Maxima(q, r)
  BY <1>1, <1>11 DEF Maxima, Keeps, Agreement
<1>4. ASSUME msg.type = "MAXEPOCH"
      PROVE  Synced(m) /\ msg.info = sent[m] /\ Maxima(n, m)' = {} /\ Maxima(n, m) # {}
  <2>1. msg.info \in Maxima(n, m) /\ Maxima(n, m)' = Maxima(n, m) \ {msg.info}
    BY <1>1, <1>4, <1>11 DEF Agreement, Maxima, Drops
  <2>2. Maxima(n, m) \subseteq {sent[m]} /\ (Maxima(n, m) # {} => Synced(m))
    BY <1>1 DEF Agreement
  <2> QED BY <2>1, <2>2
<1> HIDE DEF msg
<1>5. \A q, r \in Node : Maxima(q, r)' = {} \/ Maxima(q, r)' = Maxima(q, r)
  BY <1>3, <1>4
<1>6. \A q, r \in Node :
        /\ Distinct2(chan'[q][r], "MAXEPOCH")
        /\ Maxima(q, r)' \subseteq {sent[r]}
        /\ Maxima(q, r)' # {} => Synced(r)'
  BY <1>1, <1>2, <1>3, <1>5 DEF Agreement
<1>7. \A q \in Node : op'[q] = "sync" => Synced(q)'
  BY <1>1, <1>2 DEF Agreement
<1>8. ASSUME NEW q \in Node, received'[q] = received[q], maxEpoch'[q] = maxEpoch[q], Synced(q)'
      PROVE  /\ \A r \in heard[q] : Synced(r)' /\ Maxima(q, r)' = {} /\ sent[r] <= maxEpoch'[q]
             /\ Cardinality(heard[q]) = received'[q]
             /\ \E r \in Node : Synced(r)' /\ maxEpoch'[q] = sent[r]
             /\ op'[q] # "sync" => heard[q] = Node
  <2>1. /\ \A r \in heard[q] : Synced(r) /\ Maxima(q, r) = {} /\ sent[r] <= maxEpoch[q]
        /\ Cardinality(heard[q]) = received[q]
        /\ \E r \in Node : Synced(r) /\ maxEpoch[q] = sent[r]
        /\ op[q] # "sync" => heard[q] = Node
    BY <1>1, <1>2, <1>8 DEF Agreement
  <2>2. heard[q] \subseteq Node
    OBVIOUS
  <2> QED BY <1>2, <1>5, <1>8, <2>1, <2>2
<1>9. CASE UNCHANGED <<received, maxEpoch>>
  <2>1. Agreement(sent, heard)'
    BY <1>6, <1>7, <1>8, <1>9 DEF Agreement
  <2> QED BY <2>1 DEF SyncInv
<1>10. CASE /\ msg.type = "MAXEPOCH" /\ op[n] = "sync"
            /\ received' = [received EXCEPT ![n] = @ + 1]
            /\ maxEpoch' = [maxEpoch EXCEPT ![n] = IF msg.info > @ THEN msg.info ELSE @]
  <2> DEFINE heard2 == [heard EXCEPT ![n] = @ \cup {m}]
  <2>1. /\ heard2 \in [Node -> SUBSET Node] /\ heard2[n] = heard[n] \cup {m}
        /\ \A q \in Node \ {n} : heard2[q] = heard[q]
    OBVIOUS
  <2>2. /\ received \in [Node -> Nat] /\ maxEpoch \in [Node -> Nat]
        /\ received'[n] = received[n] + 1
        /\ maxEpoch'[n] = IF sent[m] > maxEpoch[n] THEN sent[m] ELSE maxEpoch[n]
        /\ \A q \in Node \ {n} : received'[q] = received[q] /\ maxEpoch'[q] = maxEpoch[q]
    BY <1>4, <1>10 DEF TypeOK
  <2> HIDE DEF heard2
  <2>3. Synced(n)
    BY <1>1, <1>10 DEF Agreement
  <2>4. /\ \A r \in heard[n] : Synced(r) /\ Maxima(n, r) = {} /\ sent[r] <= maxEpoch[n]
        /\ Cardinality(heard[n]) = received[n]
        /\ \E r \in Node : Synced(r) /\ maxEpoch[n] = sent[r]
    BY <1>1, <2>3 DEF Agreement
  <2>5. sent[m] \in Nat /\ maxEpoch[n] \in Nat /\ \A r \in heard[n] : r \in Node /\ sent[r] \in Nat
    BY <2>2
  <2>6. ASSUME NEW r \in heard2[n]
        PROVE  Synced(r)' /\ Maxima(n, r)' = {} /\ sent[r] <= maxEpoch'[n]
    <3>1. CASE r = m
      BY <3>1, <1>2, <1>4, <1>10, <2>2, <2>5
    <3>2. CASE r \in heard[n]
      BY <3>2, <1>2, <1>5, <2>2, <2>4, <2>5
    <3> QED BY <3>1, <3>2, <2>1
  <2>7. Cardinality(heard2[n]) = received'[n]
    <3>1. m \notin heard[n] /\ IsFiniteSet(heard[n])
      BY <1>4, <1>10, <2>4, NodeManagerOK, FS_Subset
    <3>2. Cardinality(heard[n] \cup {m}) = Cardinality(heard[n]) + 1
      BY <3>1, FS_AddElement
    <3> QED BY <3>2, <2>1, <2>2, <2>4
  <2>8. \E r \in Node : Synced(r)' /\ maxEpoch'[n] = sent[r]
    BY <1>2, <1>4, <1>10, <2>2, <2>4
  <2>9. \A q \in Node : Synced(q)' =>
          /\ \A r \in heard2[q] : Synced(r)' /\ Maxima(q, r)' = {} /\ sent[r] <= maxEpoch'[q]
          /\ Cardinality(heard2[q]) = received'[q]
          /\ \E r \in Node : Synced(r)' /\ maxEpoch'[q] = sent[r]
          /\ op'[q] # "sync" => heard2[q] = Node
    <3> SUFFICES ASSUME NEW q \in Node, Synced(q)'
                 PROVE  /\ \A r \in heard2[q] : Synced(r)' /\ Maxima(q, r)' = {} /\ sent[r] <= maxEpoch'[q]
                        /\ Cardinality(heard2[q]) = received'[q]
                        /\ \E r \in Node : Synced(r)' /\ maxEpoch'[q] = sent[r]
                        /\ op'[q] # "sync" => heard2[q] = Node
      OBVIOUS
    <3>1. CASE q = n
      BY <3>1, <1>10, <2>6, <2>7, <2>8
    <3>2. CASE q # n
      BY <3>2, <1>8, <2>1, <2>2
    <3> QED BY <3>1, <3>2
  <2>10. Agreement(sent, heard2)'
    BY <1>6, <1>7, <2>9 DEF Agreement
  <2> QED BY <2>1, <2>10 DEF SyncInv
<1> QED BY <1>9, <1>10 DEF msg

LEMMA SyncReturnAgrees ==
  ASSUME TypeOK, SyncInv, NEW n \in Node, SyncReturn(n)
  PROVE  SyncInv'
<1>1. PICK sent \in [Node -> Nat], heard \in [Node -> SUBSET Node] : Agreement(sent, heard)
  BY DEF SyncInv
<1>2. /\ chan' = chan /\ calls' = calls /\ received' = received /\ maxEpoch' = maxEpoch
      /\ op[n] = "sync" /\ received[n] = NumNodes /\ op' = [op EXCEPT ![n] = "idle"]
      /\ op \in [Node -> {"idle", "barrier", "sync"}]
  BY DEF SyncReturn, syncvars, TypeOK
<1>3. heard[n] = Node
  <2>1. Cardinality(heard[n]) = Cardinality(Node) /\ heard[n] \subseteq Node /\ IsFiniteSet(Node)
    BY <1>1, <1>2, NodeManagerOK DEF Agreement, NumNodes
  <2> QED BY <2>1, FS_Subset
<1>4. (\A q \in Node : Synced(q)' <=> Synced(q)) /\ \A q, r \in Node : Maxima(q, r)' = Maxima(q, r)
  BY <1>2 DEF Synced, Maxima
<1>5. \A q \in Node : /\ op'[q] = "sync" => op[q] = "sync"
                      /\ op'[q] # "sync" => op[q] # "sync" \/ q = n
  BY <1>2
<1>6. \A q, m \in Node :
        /\ Distinct2(chan'[q][m], "MAXEPOCH")
        /\ Maxima(q, m)' \subseteq {sent[m]}
        /\ Maxima(q, m)' # {} => Synced(m)'
  BY <1>1, <1>2, <1>4 DEF Agreement
<1>7. \A q \in Node : op'[q] = "sync" => Synced(q)'
  BY <1>1, <1>4, <1>5 DEF Agreement
<1>8. ASSUME NEW q \in Node, Synced(q)'
      PROVE  /\ \A m \in heard[q] : Synced(m)' /\ Maxima(q, m)' = {} /\ sent[m] <= maxEpoch'[q]
             /\ Cardinality(heard[q]) = received'[q]
             /\ \E m \in Node : Synced(m)' /\ maxEpoch'[q] = sent[m]
             /\ op'[q] # "sync" => heard[q] = Node
  <2>1. /\ \A m \in heard[q] : Synced(m) /\ Maxima(q, m) = {} /\ sent[m] <= maxEpoch[q]
        /\ Cardinality(heard[q]) = received[q]
        /\ \E m \in Node : Synced(m) /\ maxEpoch[q] = sent[m]
        /\ op[q] # "sync" => heard[q] = Node
    BY <1>1, <1>4, <1>8 DEF Agreement
  <2>2. heard[q] \subseteq Node
    OBVIOUS
  <2> QED BY <1>2, <1>3, <1>4, <1>5, <2>1, <2>2
<1>9. Agreement(sent, heard)'
  BY <1>6, <1>7, <1>8 DEF Agreement
<1> QED BY <1>9 DEF SyncInv

LEMMA NextSync == OneSync /\ TypeOK /\ SyncInv /\ [Next]_vars => SyncInv'
<1> SUFFICES ASSUME OneSync, TypeOK, SyncInv, [Next]_vars PROVE SyncInv'
  OBVIOUS
<1>0. op \in [Node -> {"idle", "barrier", "sync"}] /\ announced \in [Node -> Nat] /\ entered \in [Node -> Nat]
  BY DEF TypeOK
<1>1. ASSUME chan' = chan, calls' = calls, received' = received, maxEpoch' = maxEpoch,
             \A q \in Node : op'[q] = "sync" <=> op[q] = "sync"
      PROVE  SyncInv'
  <2>1. \A q, r \in Node : Maxima(q, r)' = Maxima(q, r) /\ Distinct2(chan'[q][r], "MAXEPOCH")
    BY <1>1 DEF SyncInv, Agreement, Maxima
  <2>2. \A q \in Node : Synced(q)' <=> Synced(q)
    BY <1>1 DEF Synced
  <2> QED BY <1>1, <2>1, <2>2, SyncQuiet
<1>2. CASE UNCHANGED vars
  BY <1>1, <1>2 DEF vars, syncvars
<1>3. ASSUME NEW n \in Node, BarrierCall(n) PROVE SyncInv'
  <2>1. entered[n] + 1 \in Nat /\ PublishMsg(n, "BARRIER", entered[n] + 1)
    BY <1>0, <1>3 DEF BarrierCall
  <2>2. \A q, r \in Node : Maxima(q, r)' = Maxima(q, r) /\ Distinct2(chan'[q][r], "MAXEPOCH")
    BY <2>1, PublishNoMax
  <2>3. \A q \in Node : Synced(q)' <=> Synced(q)
    BY <1>3, CallsSynced DEF BarrierCall
  <2>4. \A q \in Node : op'[q] = "sync" <=> op[q] = "sync"
    BY <1>0, <1>3 DEF BarrierCall, Calls
  <2>5. received' = received /\ maxEpoch' = maxEpoch
    BY <1>3 DEF BarrierCall, syncvars
  <2> QED BY <2>2, <2>3, <2>4, <2>5, SyncQuiet
<1>4. ASSUME NEW n \in Node, BarrierReturn(n) PROVE SyncInv'
  <2>1. \A q \in Node : op'[q] = "sync" <=> op[q] = "sync"
    BY <1>0, <1>4 DEF BarrierReturn
  <2> QED BY <1>1, <1>4, <2>1 DEF BarrierReturn, syncvars
<1>5. ASSUME NEW n \in Node, SendEpochUpdate(n) PROVE SyncInv'
  <2>1. announced[n] + 1 \in Nat /\ PublishMsg(n, "MINEPOCH", announced[n] + 1)
    BY <1>0, <1>5 DEF SendEpochUpdate
  <2>2. \A q, r \in Node : Maxima(q, r)' = Maxima(q, r) /\ Distinct2(chan'[q][r], "MAXEPOCH")
    BY <2>1, PublishNoMax
  <2>3. op' = op /\ calls' = calls /\ received' = received /\ maxEpoch' = maxEpoch
    BY <1>5 DEF SendEpochUpdate, syncvars
  <2>4. \A q \in Node : Synced(q)' <=> Synced(q)
    BY <2>3 DEF Synced
  <2> QED BY <2>2, <2>3, <2>4, SyncQuiet
<1>6. ASSUME NEW n \in Node, NEW m \in Node, BarrierRecv(n, m) \/ ReadEpochUpdates(n, m) \/ SyncRecv(n, m)
      PROVE  SyncInv'
  <2>1. /\ Take(n, m) /\ UNCHANGED <<op, calls>>
        /\ \/ UNCHANGED <<received, maxEpoch>>
           \/ LET msg == Head(chan[n][m]) IN
              /\ msg.type = "MAXEPOCH" /\ op[n] = "sync"
              /\ received' = [received EXCEPT ![n] = @ + 1]
              /\ maxEpoch' = [maxEpoch EXCEPT ![n] = IF msg.info > @ THEN msg.info ELSE @]
    BY <1>6 DEF BarrierRecv, ReadEpochUpdates, SyncRecv, syncvars
  <2> QED BY <2>1, ReadAgrees
<1>7. ASSUME NEW n \in Node, SyncCall(n) \/ SyncReturn(n) PROVE SyncInv'
  BY <1>7, SyncCallAgrees, SyncReturnAgrees
<1> QED BY <1>2, <1>3, <1>4, <1>5, <1>6, <1>7 DEF Next, Barriers, Syncs, Updates

LEMMA SyncInvAgrees == TypeOK /\ SyncInv => SyncAgrees
<1> SUFFICES ASSUME TypeOK, SyncInv, NEW n \in Node, NEW m \in Node,
                    op[n] # "sync", op[m] # "sync", Agreed(n) > 0, Agreed(m) > 0
             PROVE  maxEpoch[n] = maxEpoch[m]
  BY DEF SyncAgrees
<1>1. PICK sent \in [Node -> Nat], heard \in [Node -> SUBSET Node] : Agreement(sent, heard)
  BY DEF SyncInv
<1>2. ASSUME NEW q \in Node, op[q] # "sync", Agreed(q) > 0 PROVE Synced(q)
  <2>1. Cardinality({}) = 0
    BY FS_EmptySet
  <2>2. {i \in 1..calls[q] : Script[i] = "sync"} # {}
    BY <1>2, <2>1 DEF Agreed
  <2> QED BY <2>2 DEF Synced
<1>3. ASSUME NEW q \in Node, Synced(q), op[q] # "sync"
      PROVE  /\ \A r \in Node : sent[r] <= maxEpoch[q]
             /\ \E r \in Node : maxEpoch[q] = sent[r]
  BY <1>1, <1>3 DEF Agreement
<1>4. maxEpoch[n] \in Nat /\ maxEpoch[m] \in Nat
  BY DEF TypeOK
<1>5. maxEpoch[n] <= maxEpoch[m] /\ maxEpoch[m] <= maxEpoch[n]
  BY <1>2, <1>3
<1> QED BY <1>4, <1>5

\* All nodes that come out of syncCurrEpoch have the same newest epoch, for any
\* number of nodes, if the program agrees once (as a run of the engine does):
\* with two agreements one after the other and three nodes, messages of the
\* second could be taken for the missing ones of the first.
THEOREM EpochAgreed ==
  ASSUME OneSync
  PROVE  Spec => []SyncAgrees
<1>1. SyncInv /\ TypeOK /\ [Next]_vars => SyncInv'
  BY NextSync
<1> QED BY <1>1, InitSync, SyncInvAgrees, TypeCorrect, PTL DEF Spec

=============================================================================
