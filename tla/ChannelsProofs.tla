---------------------------- MODULE ChannelsProofs ----------------------------
(***************************************************************************)
(* How the number of messages on their way changes when a server sends one *)
(* or reads one, and what its queues hold then.                            *)
(***************************************************************************)
EXTENDS Channels, FiniteSetTheorems, TLAPS

\* What is in the queue does not matter here, only that it is one.
IsQueue(q) == \E M : q \in Seq(M)

LEMMA QueueEmpty == IsQueue(<<>>)
<1>1. <<>> \in Seq({})
  OBVIOUS
<1> QED BY <1>1 DEF IsQueue

LEMMA QueueLen ==
  ASSUME NEW q, IsQueue(q)
  PROVE  Len(q) \in Nat /\ DOMAIN q = 1..Len(q)
<1>1. PICK M : q \in Seq(M)
  BY DEF IsQueue
<1> QED BY <1>1

LEMMA QueueAppend ==
  ASSUME NEW q, IsQueue(q), NEW m
  PROVE  /\ IsQueue(Append(q, m)) /\ Len(Append(q, m)) = Len(q) + 1
         /\ \A i \in 1..Len(q) : Append(q, m)[i] = q[i]
         /\ Append(q, m)[Len(q) + 1] = m
<1>1. PICK M : q \in Seq(M)
  BY DEF IsQueue
<1>2. q \in Seq(M \cup {m}) /\ m \in M \cup {m}
  BY <1>1
<1>3. Append(q, m) \in Seq(M \cup {m})
  BY <1>2
<1>4. /\ Len(Append(q, m)) = Len(q) + 1
      /\ \A i \in 1..Len(q) : Append(q, m)[i] = q[i]
      /\ Append(q, m)[Len(q) + 1] = m
  BY <1>2
<1> QED BY <1>3, <1>4 DEF IsQueue

LEMMA QueueTail ==
  ASSUME NEW q, IsQueue(q), q # <<>>
  PROVE  /\ IsQueue(Tail(q)) /\ Len(q) >= 1 /\ Len(Tail(q)) = Len(q) - 1
         /\ \A i \in 1..Len(q) - 1 : Tail(q)[i] = q[i + 1]
         /\ Head(q) = q[1]
<1>1. PICK M : q \in Seq(M)
  BY DEF IsQueue
<1>2. Tail(q) \in Seq(M)
  BY <1>1
<1>3. /\ Len(q) >= 1 /\ Len(Tail(q)) = Len(q) - 1
      /\ \A i \in 1..Len(q) - 1 : Tail(q)[i] = q[i + 1]
      /\ Head(q) = q[1]
  BY <1>1
<1> QED BY <1>2, <1>3 DEF IsQueue

-----------------------------------------------------------------------------
(* The messages of one queue.                                              *)

LEMMA PlacesFinite ==
  ASSUME NEW q, IsQueue(q), NEW k
  PROVE  /\ IsFiniteSet(Places(q, k)) /\ Cardinality(Places(q, k)) \in Nat
         /\ Places(q, k) \subseteq 1..Len(q)
<1>1. Len(q) \in Nat /\ DOMAIN q = 1..Len(q)
  BY QueueLen
<1>2. Places(q, k) \subseteq 1..Len(q)
  BY <1>1 DEF Places
<1>3. IsFiniteSet(1..Len(q))
  BY <1>1, FS_Interval
<1> QED BY <1>2, <1>3, FS_Subset, FS_CardinalityType

LEMMA PlacesAppend ==
  ASSUME NEW q, IsQueue(q), NEW k, NEW m
  PROVE  Places(Append(q, m), k) = Places(q, k) \cup (IF m.kind = k THEN {Len(q) + 1} ELSE {})
<1>1. Len(q) \in Nat /\ DOMAIN q = 1..Len(q)
  BY QueueLen
<1>2. IsQueue(Append(q, m)) /\ Len(Append(q, m)) = Len(q) + 1
  BY QueueAppend
<1>3. DOMAIN Append(q, m) = 1..Len(q) + 1
  BY <1>2, QueueLen
<1>4. /\ \A i \in 1..Len(q) : Append(q, m)[i] = q[i]
      /\ Append(q, m)[Len(q) + 1] = m
  BY QueueAppend
<1>5. 1..Len(q) + 1 = (1..Len(q)) \cup {Len(q) + 1} /\ Len(q) + 1 \notin 1..Len(q)
  BY <1>1
<1> QED BY <1>1, <1>3, <1>4, <1>5 DEF Places

LEMMA CountAppend ==
  ASSUME NEW q, IsQueue(q), NEW k, NEW m
  PROVE  Cardinality(Places(Append(q, m), k))
           = Cardinality(Places(q, k)) + (IF m.kind = k THEN 1 ELSE 0)
<1>1. Places(Append(q, m), k) = Places(q, k) \cup (IF m.kind = k THEN {Len(q) + 1} ELSE {})
  BY PlacesAppend
<1>2. /\ IsFiniteSet(Places(q, k)) /\ Cardinality(Places(q, k)) \in Nat
      /\ Places(q, k) \subseteq 1..Len(q) /\ Len(q) \in Nat
  BY PlacesFinite, QueueLen
<1>3. Len(q) + 1 \notin Places(q, k)
  BY <1>2
<1>4. Cardinality(Places(q, k) \cup {Len(q) + 1}) = Cardinality(Places(q, k)) + 1
  BY <1>2, <1>3, FS_AddElement
<1>5. CASE m.kind = k
  BY <1>1, <1>4, <1>5
<1>6. CASE m.kind # k
  <2>1. Places(Append(q, m), k) = Places(q, k)
    BY <1>1, <1>6
  <2> QED BY <1>2, <1>6, <2>1
<1> QED BY <1>5, <1>6

\* The places of the rest are those of the queue, but for the first, moved by one.
LEMMA CountTail ==
  ASSUME NEW q, IsQueue(q), q # <<>>, NEW k
  PROVE  Cardinality(Places(Tail(q), k))
           = Cardinality(Places(q, k)) - (IF Head(q).kind = k THEN 1 ELSE 0)
<1> DEFINE rest == Places(q, k) \ {1}
<1>1. /\ IsQueue(Tail(q)) /\ Len(q) >= 1 /\ Len(Tail(q)) = Len(q) - 1
      /\ \A i \in 1..Len(q) - 1 : Tail(q)[i] = q[i + 1]
      /\ Head(q) = q[1]
  BY QueueTail
<1>2. Len(q) \in Nat /\ DOMAIN q = 1..Len(q) /\ DOMAIN Tail(q) = 1..Len(q) - 1
  BY <1>1, QueueLen
<1>3. /\ IsFiniteSet(Places(q, k)) /\ Cardinality(Places(q, k)) \in Nat
  BY PlacesFinite
<1>4. \A i \in Nat : i \in Places(Tail(q), k) <=> i # 0 /\ i + 1 \in rest
  BY <1>1, <1>2 DEF Places
<1>5. Places(Tail(q), k) \subseteq Nat \ {0} /\ rest \subseteq Nat \ {0, 1}
  BY <1>2 DEF Places
<1>6. Cardinality(Places(Tail(q), k)) = Cardinality(rest)
  <2>1. IsFiniteSet(rest)
    BY <1>3, FS_Subset
  <2> DEFINE f == [i \in rest |-> i - 1]
             T == Places(Tail(q), k)
  <2>2. \A i \in rest : i - 1 \in T
    BY <1>4, <1>5
  <2>3. \A j \in T : j + 1 \in rest /\ (j + 1) - 1 = j
    BY <1>4, <1>5
  <2>4. f \in Bijection(rest, T)
    <3>1. f \in [rest -> T]
      BY <2>2
    <3>2. \A a, b \in rest : f[a] = f[b] => a = b
      BY <1>5
    <3>3. \A j \in T : \E i \in rest : f[i] = j
      BY <2>3
    <3> HIDE DEF f, T, rest
    <3>4. f \in Injection(rest, T)
      BY <3>1, <3>2 DEF Injection, IsInjective
    <3>5. f \in Surjection(rest, T)
      BY <3>1, <3>3 DEF Surjection
    <3> QED BY <3>4, <3>5 DEF Bijection
  <2>5. ExistsBijection(rest, T)
    BY <2>4 DEF ExistsBijection
  <2> HIDE DEF f, T, rest
  <2>6. Cardinality(T) = Cardinality(rest)
    BY <2>1, <2>5, FS_Bijection
  <2> QED BY <2>6 DEF T
<1> HIDE DEF rest
<1>7. CASE Head(q).kind = k
  <2>1. 1 \in Places(q, k)
    BY <1>1, <1>2, <1>7 DEF Places
  <2>2. Cardinality(rest) = Cardinality(Places(q, k)) - 1
    BY <1>3, <2>1, FS_RemoveElement DEF rest
  <2> QED BY <1>6, <1>7, <2>2
<1>8. CASE Head(q).kind # k
  <2>1. rest = Places(q, k)
    BY <1>1, <1>8 DEF Places, rest
  <2> QED BY <1>3, <1>6, <1>8, <2>1
<1> QED BY <1>7, <1>8

-----------------------------------------------------------------------------
(* The messages of several queues.                                         *)

\* Pairs with one first component are as many as their second ones.
LEMMA CountPairs ==
  ASSUME NEW t, NEW S, IsFiniteSet(S)
  PROVE  IsFiniteSet({t} \X S) /\ Cardinality({t} \X S) = Cardinality(S)
<1>1. IsFiniteSet({t}) /\ Cardinality({t}) = 1
  BY FS_Singleton
<1>2. Cardinality(S) \in Nat
  BY FS_CardinalityType
<1>3. IsFiniteSet({t} \X S) /\ Cardinality({t} \X S) = Cardinality({t}) * Cardinality(S)
  BY <1>1, FS_Product
<1> QED BY <1>1, <1>2, <1>3

\* The domain and the sets of f are finite.
Countable(f) == IsFiniteSet(DOMAIN f) /\ \A t \in DOMAIN f : IsFiniteSet(f[t])

LEMMA SpreadFinite ==
  ASSUME NEW f, Countable(f)
  PROVE  IsFiniteSet(Spread(f)) /\ Cardinality(Spread(f)) \in Nat
<1> DEFINE Sets == {{t} \X f[t] : t \in DOMAIN f}
           h == [t \in DOMAIN f |-> {t} \X f[t]]
<1>1. IsFiniteSet(Sets)
  <2>1. h \in [DOMAIN f -> Sets] /\ \A S \in Sets : \E t \in DOMAIN f : h[t] = S
    OBVIOUS
  <2> HIDE DEF Sets, h
  <2>2. h \in Surjection(DOMAIN f, Sets)
    BY <2>1 DEF Surjection
  <2> QED BY <2>2, FS_Surjection DEF Countable
<1>2. \A S \in Sets : IsFiniteSet(S)
  <2>1. ASSUME NEW t \in DOMAIN f
        PROVE  IsFiniteSet({t} \X f[t])
    BY CountPairs DEF Countable
  <2> QED BY <2>1
<1>3. IsFiniteSet(UNION Sets)
  BY <1>1, <1>2, FS_UNION
<1> QED BY <1>3, FS_CardinalityType DEF Spread

\* The pairs of t, and the others.
LEMMA SpreadSplit ==
  ASSUME NEW f, Countable(f), NEW t \in DOMAIN f
  PROVE  LET rest == {p \in Spread(f) : p[1] # t} IN
         /\ IsFiniteSet(rest) /\ Cardinality(rest) \in Nat
         /\ Cardinality(f[t]) \in Nat
         /\ Cardinality(Spread(f)) = Cardinality(rest) + Cardinality(f[t])
<1> DEFINE rest == {p \in Spread(f) : p[1] # t}
<1>1. IsFiniteSet(Spread(f))
  BY SpreadFinite
<1>2. IsFiniteSet(rest) /\ Cardinality(rest) \in Nat
  BY <1>1, FS_Subset, FS_CardinalityType
<1>3. /\ IsFiniteSet({t} \X f[t]) /\ Cardinality({t} \X f[t]) = Cardinality(f[t])
      /\ Cardinality(f[t]) \in Nat
  BY CountPairs, FS_CardinalityType DEF Countable
<1>4. Spread(f) = rest \cup ({t} \X f[t])
  BY DEF Spread
<1>5. rest \cap ({t} \X f[t]) = {}
  OBVIOUS
<1> HIDE DEF rest
<1>6. Cardinality(Spread(f)) = Cardinality(rest) + Cardinality({t} \X f[t])
  <2>1. Cardinality(rest \cup ({t} \X f[t]))
          = Cardinality(rest) + Cardinality({t} \X f[t]) - Cardinality(rest \cap ({t} \X f[t]))
    BY <1>2, <1>3, FS_Union
  <2>2. Cardinality(rest \cap ({t} \X f[t])) = 0
    BY <1>5, FS_EmptySet
  <2> QED BY <1>2, <1>3, <1>4, <2>1, <2>2
<1> QED BY <1>2, <1>3, <1>6 DEF rest

\* One set of f changes.
LEMMA SpreadChange ==
  ASSUME NEW f, Countable(f), NEW g, Countable(g), DOMAIN g = DOMAIN f,
         NEW t \in DOMAIN f, \A u \in DOMAIN f : u # t => g[u] = f[u]
  PROVE  Cardinality(Spread(g)) - Cardinality(g[t]) = Cardinality(Spread(f)) - Cardinality(f[t])
<1> DEFINE rest(h) == {p \in Spread(h) : p[1] # t}
<1>1. rest(g) = rest(f)
  BY DEF Spread
<1>2. /\ Cardinality(rest(f)) \in Nat /\ Cardinality(f[t]) \in Nat
      /\ Cardinality(Spread(f)) = Cardinality(rest(f)) + Cardinality(f[t])
  BY SpreadSplit
<1>3. /\ Cardinality(g[t]) \in Nat
      /\ Cardinality(Spread(g)) = Cardinality(rest(g)) + Cardinality(g[t])
  BY SpreadSplit
<1> HIDE DEF rest
<1> QED BY <1>1, <1>2, <1>3

\* Some sets of f get one more element each.
LEMMA SpreadGrows ==
  ASSUME NEW f, Countable(f), NEW g, DOMAIN g = DOMAIN f,
         NEW D \in SUBSET DOMAIN f, NEW e,
         \A t \in D : e[t] \notin f[t] /\ g[t] = f[t] \cup {e[t]},
         \A t \in DOMAIN f \ D : g[t] = f[t]
  PROVE  Cardinality(Spread(g)) = Cardinality(Spread(f)) + Cardinality(D)
<1> DEFINE more == {<<t, e[t]>> : t \in D}
           h == [t \in D |-> <<t, e[t]>>]
<1>1. Spread(g) = Spread(f) \cup more
  BY DEF Spread
<1>2. Spread(f) \cap more = {}
  BY DEF Spread
<1>3. IsFiniteSet(D)
  BY FS_Subset DEF Countable
<1>4. h \in Bijection(D, more)
  <2>1. h \in [D -> more] /\ (\A a, b \in D : h[a] = h[b] => a = b)
        /\ (\A p \in more : \E a \in D : h[a] = p)
    OBVIOUS
  <2> HIDE DEF h, more
  <2> QED BY <2>1 DEF Bijection, Injection, Surjection, IsInjective
<1> HIDE DEF h, more
<1>5. IsFiniteSet(more) /\ Cardinality(more) = Cardinality(D)
  BY <1>3, <1>4, FS_Bijection DEF ExistsBijection
<1>6. IsFiniteSet(Spread(f)) /\ Cardinality(Spread(f)) \in Nat /\ Cardinality(D) \in Nat
  BY <1>3, SpreadFinite, FS_CardinalityType
<1>7. Cardinality(Spread(f) \cup more) = Cardinality(Spread(f)) + Cardinality(more) - Cardinality(Spread(f) \cap more)
  BY <1>5, <1>6, FS_Union
<1>8. Cardinality(Spread(f) \cap more) = 0
  BY <1>2, FS_EmptySet
<1> QED BY <1>1, <1>5, <1>6, <1>7, <1>8
-----------------------------------------------------------------------------
(* The messages a server has sent, and those sent to it.                   *)

Wired(channel, S) ==
  /\ IsFiniteSet(S)
  /\ DOMAIN channel = S
  /\ \A s \in S : DOMAIN channel[s] = S /\ \A t \in S : IsQueue(channel[s][t])

ByOf(channel, s, k) == [t \in DOMAIN channel |-> Places(channel[s][t], k)]
ToOf(channel, s, k) == [t \in DOMAIN channel |-> Places(channel[t][s], k)]

LEMMA WiredCountable ==
  ASSUME NEW S, NEW channel, Wired(channel, S), NEW s \in S, NEW k
  PROVE  Countable(ByOf(channel, s, k)) /\ Countable(ToOf(channel, s, k))
BY PlacesFinite DEF Wired, Countable, ByOf, ToOf

LEMMA CountsNat ==
  ASSUME NEW S, NEW channel, Wired(channel, S), NEW s \in S, NEW k
  PROVE  Cardinality(SentBy(channel, s, k)) \in Nat /\ Cardinality(SentTo(channel, s, k)) \in Nat
<1>1. Countable(ByOf(channel, s, k)) /\ Countable(ToOf(channel, s, k))
  BY WiredCountable
<1>2. SentBy(channel, s, k) = Spread(ByOf(channel, s, k))
      /\ SentTo(channel, s, k) = Spread(ToOf(channel, s, k))
  BY DEF SentBy, SentTo, ByOf, ToOf
<1> QED BY <1>1, <1>2, SpreadFinite

\* No message of the kind: the count is zero.
LEMMA CountsZero ==
  ASSUME NEW S, NEW channel, Wired(channel, S), NEW s \in S, NEW k
  PROVE  /\ (\A t \in S : Places(channel[s][t], k) = {}) => Cardinality(SentBy(channel, s, k)) = 0
         /\ (\A t \in S : Places(channel[t][s], k) = {}) => Cardinality(SentTo(channel, s, k)) = 0
<1>1. (\A t \in S : Places(channel[s][t], k) = {}) => SentBy(channel, s, k) = {}
  BY DEF SentBy, Spread, Wired
<1>2. (\A t \in S : Places(channel[t][s], k) = {}) => SentTo(channel, s, k) = {}
  BY DEF SentTo, Spread, Wired
<1> QED BY <1>1, <1>2, FS_EmptySet

\* The counts of kind k when of all channels only that from a to b has changed, and its
\* count of the kind by d.
OneChannel(channel, new, a, b) ==
  \A s \in DOMAIN channel, t \in DOMAIN channel : <<s, t>> # <<a, b>> => new[s][t] = channel[s][t]

\* The number of messages of a kind from a and to b has changed by d, no other has.
Counts(S, channel, new, a, b, k, d) ==
  /\ Cardinality(SentBy(new, a, k)) = Cardinality(SentBy(channel, a, k)) + d
  /\ Cardinality(SentTo(new, b, k)) = Cardinality(SentTo(channel, b, k)) + d
  /\ \A s \in S \ {a} : SentBy(new, s, k) = SentBy(channel, s, k)
  /\ \A s \in S \ {b} : SentTo(new, s, k) = SentTo(channel, s, k)

LEMMA OneChannelCounts ==
  ASSUME NEW S, NEW channel, Wired(channel, S), NEW new, Wired(new, S),
         NEW a \in S, NEW b \in S, OneChannel(channel, new, a, b), NEW k, NEW d \in Int,
         Cardinality(Places(new[a][b], k)) = Cardinality(Places(channel[a][b], k)) + d
  PROVE  Counts(S, channel, new, a, b, k, d)
<1>1. DOMAIN channel = S /\ DOMAIN new = S /\ IsQueue(channel[a][b])
  BY DEF Wired
<1>2. Cardinality(Places(channel[a][b], k)) \in Nat
  BY <1>1, PlacesFinite
<1>3. Cardinality(SentBy(new, a, k)) = Cardinality(SentBy(channel, a, k)) + d
  <2> DEFINE f == ByOf(channel, a, k)
             g == ByOf(new, a, k)
  <2>1. DOMAIN f = S /\ DOMAIN g = S /\ (\A u \in S : u # b => g[u] = f[u])
        /\ f[b] = Places(channel[a][b], k) /\ g[b] = Places(new[a][b], k)
    BY <1>1 DEF ByOf, OneChannel
  <2>2. Countable(f) /\ Countable(g)
    BY WiredCountable
  <2>3. SentBy(channel, a, k) = Spread(f) /\ SentBy(new, a, k) = Spread(g)
    BY DEF SentBy, ByOf
  <2> HIDE DEF f, g
  <2>4. Cardinality(Spread(g)) - Cardinality(g[b]) = Cardinality(Spread(f)) - Cardinality(f[b])
    BY <2>1, <2>2, SpreadChange
  <2>5. Cardinality(Spread(f)) \in Nat /\ Cardinality(Spread(g)) \in Nat
    BY <2>2, SpreadFinite
  <2>6. Cardinality(g[b]) = Cardinality(f[b]) + d /\ Cardinality(f[b]) \in Nat
    BY <1>2, <2>1
  <2>7. Cardinality(Spread(g)) = Cardinality(Spread(f)) + d
    BY <2>4, <2>5, <2>6
  <2> QED BY <2>3, <2>7
<1>4. Cardinality(SentTo(new, b, k)) = Cardinality(SentTo(channel, b, k)) + d
  <2> DEFINE f == ToOf(channel, b, k)
             g == ToOf(new, b, k)
  <2>1. DOMAIN f = S /\ DOMAIN g = S /\ (\A u \in S : u # a => g[u] = f[u])
        /\ f[a] = Places(channel[a][b], k) /\ g[a] = Places(new[a][b], k)
    BY <1>1 DEF ToOf, OneChannel
  <2>2. Countable(f) /\ Countable(g)
    BY WiredCountable
  <2>3. SentTo(channel, b, k) = Spread(f) /\ SentTo(new, b, k) = Spread(g)
    BY DEF SentTo, ToOf
  <2> HIDE DEF f, g
  <2>4. Cardinality(Spread(g)) - Cardinality(g[a]) = Cardinality(Spread(f)) - Cardinality(f[a])
    BY <2>1, <2>2, SpreadChange
  <2>5. Cardinality(Spread(f)) \in Nat /\ Cardinality(Spread(g)) \in Nat
    BY <2>2, SpreadFinite
  <2>6. Cardinality(g[a]) = Cardinality(f[a]) + d /\ Cardinality(f[a]) \in Nat
    BY <1>2, <2>1
  <2>7. Cardinality(Spread(g)) = Cardinality(Spread(f)) + d
    BY <2>4, <2>5, <2>6
  <2> QED BY <2>3, <2>7
<1>5. ASSUME NEW s \in S \ {a}
      PROVE  SentBy(new, s, k) = SentBy(channel, s, k)
  <2>1. \A t \in S : Places(new[s][t], k) = Places(channel[s][t], k)
    BY <1>1 DEF OneChannel
  <2> QED BY <1>1, <2>1 DEF SentBy
<1>6. ASSUME NEW s \in S \ {b}
      PROVE  SentTo(new, s, k) = SentTo(channel, s, k)
  <2>1. \A t \in S : Places(new[t][s], k) = Places(channel[t][s], k)
    BY <1>1 DEF OneChannel
  <2> QED BY <1>1, <2>1 DEF SentTo
<1> QED BY <1>3, <1>4, <1>5, <1>6 DEF Counts

One(b) == IF b THEN 1 ELSE 0

Square(new, S) == DOMAIN new = S /\ \A s \in S : DOMAIN new[s] = S

\* a sends m to b; b reads the next message of a; a sends m to all others.
Sending(S, channel, new, a, b, m) ==
  /\ Square(new, S) /\ OneChannel(channel, new, a, b)
  /\ new[a][b] = Append(channel[a][b], m)

Reading(S, channel, new, a, b) ==
  /\ Square(new, S) /\ OneChannel(channel, new, a, b)
  /\ channel[a][b] # <<>> /\ new[a][b] = Tail(channel[a][b])

Broadcasting(S, channel, new, a, m) ==
  /\ Square(new, S)
  /\ \A s \in S \ {a} : new[s] = channel[s]
  /\ \A t \in S \ {a} : new[a][t] = Append(channel[a][t], m)
  /\ new[a][a] = channel[a][a]

LEMMA SendsExcept ==
  ASSUME NEW S, NEW channel, Wired(channel, S), NEW a \in S, NEW b \in S, NEW m
  PROVE  Sending(S, channel, [channel EXCEPT ![a][b] = Append(@, m)], a, b, m)
BY DEF Sending, Wired, Square, OneChannel

LEMMA ReadsExcept ==
  ASSUME NEW S, NEW channel, Wired(channel, S), NEW a \in S, NEW b \in S, channel[a][b] # <<>>
  PROVE  Reading(S, channel, [channel EXCEPT ![a][b] = Tail(@)], a, b)
BY DEF Reading, Wired, Square, OneChannel

LEMMA BroadcastsExcept ==
  ASSUME NEW S, NEW channel, Wired(channel, S), NEW a \in S, NEW m
  PROVE  Broadcasting(S, channel,
           [channel EXCEPT ![a] = [t \in S |-> IF t = a THEN @[t] ELSE Append(@[t], m)]], a, m)
BY DEF Broadcasting, Wired, Square

LEMMA SendCounts ==
  ASSUME NEW S, NEW channel, Wired(channel, S), NEW a \in S, NEW b \in S, NEW m, NEW new,
         Sending(S, channel, new, a, b, m)
  PROVE  /\ Wired(new, S)
         /\ \A k : Counts(S, channel, new, a, b, k, One(m.kind = k))
<1>1. new[a][b] = Append(channel[a][b], m) /\ OneChannel(channel, new, a, b) /\ Square(new, S)
  BY DEF Sending
<1>2. IsQueue(channel[a][b])
  BY DEF Wired
<1>3. IsQueue(new[a][b])
  BY <1>1, <1>2, QueueAppend
<1>4. Wired(new, S)
  BY <1>1, <1>3 DEF Wired, OneChannel, Square
<1>5. ASSUME NEW k
      PROVE  Counts(S, channel, new, a, b, k, One(m.kind = k))
  <2>1. Cardinality(Places(new[a][b], k)) = Cardinality(Places(channel[a][b], k)) + One(m.kind = k)
    BY <1>1, <1>2, CountAppend DEF One
  <2>2. One(m.kind = k) \in Int
    BY DEF One
  <2> QED BY <1>1, <1>4, <2>1, <2>2, OneChannelCounts
<1> QED BY <1>4, <1>5

LEMMA ReadCounts ==
  ASSUME NEW S, NEW channel, Wired(channel, S), NEW a \in S, NEW b \in S, NEW new,
         Reading(S, channel, new, a, b)
  PROVE  /\ Wired(new, S)
         /\ \A k : Counts(S, channel, new, a, b, k, -One(Head(channel[a][b]).kind = k))
<1>1. new[a][b] = Tail(channel[a][b]) /\ channel[a][b] # <<>>
      /\ OneChannel(channel, new, a, b) /\ Square(new, S)
  BY DEF Reading
<1>2. IsQueue(channel[a][b])
  BY DEF Wired
<1>3. IsQueue(new[a][b])
  BY <1>1, <1>2, QueueTail
<1>4. Wired(new, S)
  BY <1>1, <1>3 DEF Wired, OneChannel, Square
<1>5. ASSUME NEW k
      PROVE  Counts(S, channel, new, a, b, k, -One(Head(channel[a][b]).kind = k))
  <2>1. PICK m : m = Head(channel[a][b])
    OBVIOUS
  <2>2. Cardinality(Places(new[a][b], k))
          = Cardinality(Places(channel[a][b], k)) - (IF m.kind = k THEN 1 ELSE 0)
    BY <1>1, <1>2, <2>1, CountTail
  <2>3. Cardinality(Places(channel[a][b], k)) \in Nat
    BY <1>2, PlacesFinite
  <2>4. Cardinality(Places(new[a][b], k))
          = Cardinality(Places(channel[a][b], k)) + (-One(m.kind = k))
    BY <2>2, <2>3 DEF One
  <2>5. -One(m.kind = k) \in Int
    BY DEF One
  <2>6. Counts(S, channel, new, a, b, k, -One(m.kind = k))
    BY <1>1, <1>4, <2>4, <2>5, OneChannelCounts
  <2> QED BY <2>1, <2>6
<1> QED BY <1>4, <1>5

\* All the others are sent one message of kind k.
BroadcastCounted(S, channel, new, a, k) ==
  /\ Cardinality(SentBy(new, a, k)) = Cardinality(SentBy(channel, a, k)) + Cardinality(S \ {a})
  /\ \A s \in S \ {a} : SentBy(new, s, k) = SentBy(channel, s, k)
  /\ \A j : j # k => \A s \in S : /\ SentBy(new, s, j) = SentBy(channel, s, j)
                                /\ SentTo(new, s, j) = SentTo(channel, s, j)

LEMMA BroadcastCounts ==
  ASSUME NEW S, NEW channel, Wired(channel, S), NEW a \in S, NEW m, NEW new,
         Broadcasting(S, channel, new, a, m)
  PROVE  Wired(new, S) /\ BroadcastCounted(S, channel, new, a, m.kind)
<1>1. /\ DOMAIN channel = S /\ DOMAIN new = S /\ (\A s \in S : DOMAIN new[s] = S)
      /\ \A s \in S \ {a} : new[s] = channel[s]
      /\ \A t \in S \ {a} : new[a][t] = Append(channel[a][t], m)
      /\ new[a][a] = channel[a][a]
  BY DEF Wired, Broadcasting, Square
<1>2. \A s \in S, t \in S : IsQueue(channel[s][t])
  BY DEF Wired
<1>3. ASSUME NEW t \in S \ {a}
      PROVE  IsQueue(new[a][t])
  <2>1. IsQueue(channel[a][t]) /\ new[a][t] = Append(channel[a][t], m)
    BY <1>1, <1>2
  <2> QED BY <2>1, QueueAppend
<1>4. Wired(new, S)
  BY <1>1, <1>2, <1>3 DEF Wired
<1>5. \A k : \A s \in S \ {a} : SentBy(new, s, k) = SentBy(channel, s, k)
  BY <1>1 DEF SentBy
<1>6. ASSUME NEW k, NEW t \in S \ {a}
      PROVE  Places(new[a][t], k)
               = Places(channel[a][t], k) \cup (IF m.kind = k THEN {Len(channel[a][t]) + 1} ELSE {})
  <2>1. IsQueue(channel[a][t]) /\ new[a][t] = Append(channel[a][t], m)
    BY <1>1, <1>2
  <2> QED BY <2>1, PlacesAppend
<1>7. ASSUME NEW k, k # m.kind, NEW s \in S
      PROVE  SentBy(new, s, k) = SentBy(channel, s, k) /\ SentTo(new, s, k) = SentTo(channel, s, k)
  <2>1. ASSUME NEW u \in S, NEW t \in S
        PROVE  Places(new[u][t], k) = Places(channel[u][t], k)
    <3>1. CASE u = a /\ t # a
      <4>1. t \in S \ {a}
        BY <3>1
      <4>2. Places(new[a][t], k)
              = Places(channel[a][t], k) \cup (IF m.kind = k THEN {Len(channel[a][t]) + 1} ELSE {})
        BY <1>6, <4>1
      <4> QED BY <1>7, <3>1, <4>2
    <3>2. CASE u # a \/ t = a
      BY <1>1, <3>2
    <3> QED BY <3>1, <3>2
  <2>2. SentBy(new, s, k) = SentBy(channel, s, k)
    BY <1>1, <2>1 DEF SentBy
  <2>3. SentTo(new, s, k) = SentTo(channel, s, k)
    BY <1>1, <2>1 DEF SentTo
  <2> QED BY <2>2, <2>3
<1>8. Cardinality(SentBy(new, a, m.kind))
        = Cardinality(SentBy(channel, a, m.kind)) + Cardinality(S \ {a})
  <2>0. PICK k : k = m.kind
    OBVIOUS
  <2> DEFINE f == ByOf(channel, a, k)
             g == ByOf(new, a, k)
             e == [t \in S |-> Len(channel[a][t]) + 1]
             D == S \ {a}
  <2>1. Countable(f)
    BY WiredCountable
  <2>2. DOMAIN f = S /\ DOMAIN g = S /\ D \in SUBSET S
    BY <1>1 DEF ByOf
  <2>3. SentBy(channel, a, k) = Spread(f) /\ SentBy(new, a, k) = Spread(g)
    BY DEF SentBy, ByOf
  <2>4. ASSUME NEW t \in D
        PROVE  e[t] \notin f[t] /\ g[t] = f[t] \cup {e[t]}
    <3>1. Places(channel[a][t], k) \subseteq 1..Len(channel[a][t]) /\ Len(channel[a][t]) \in Nat
      BY <1>2, PlacesFinite, QueueLen
    <3>2. Len(channel[a][t]) + 1 \notin Places(channel[a][t], k)
      BY <3>1
    <3>3. f[t] = Places(channel[a][t], k) /\ g[t] = Places(new[a][t], k)
      BY <1>1 DEF ByOf
    <3>4. g[t] = f[t] \cup {e[t]}
      BY <1>6, <2>0, <3>3
    <3> QED BY <3>2, <3>3, <3>4
  <2>5. \A t \in S \ D : g[t] = f[t]
    BY <1>1 DEF ByOf
  <2> HIDE DEF f, g, e, D
  <2>6. Cardinality(Spread(g)) = Cardinality(Spread(f)) + Cardinality(D)
    BY <2>1, <2>2, <2>4, <2>5, SpreadGrows
  <2> QED BY <2>0, <2>3, <2>6 DEF D
<1> QED BY <1>4, <1>5, <1>7, <1>8 DEF BroadcastCounted

-----------------------------------------------------------------------------
(* Queues, and what is counted.                                            *)

LEMMA QueueNone ==
  ASSUME NEW q, IsQueue(q)
  PROVE  q = <<>> <=> Len(q) = 0
<1>1. PICK M : q \in Seq(M)
  BY DEF IsQueue
<1> QED BY <1>1

LEMMA QueueOne ==
  ASSUME NEW m
  PROVE  IsQueue(<<m>>) /\ Len(<<m>>) = 1 /\ <<m>>[1] = m
<1>1. <<m>> \in Seq({m})
  OBVIOUS
<1> QED BY <1>1 DEF IsQueue

\* Two messages, INITDONE and the weights, after what is already in a queue.
Joined(q, a, b, r) == r = q \o <<a>> \o <<b>>

LEMMA QueueTwo ==
  ASSUME NEW q, IsQueue(q), NEW a, NEW b, NEW r, Joined(q, a, b, r)
  PROVE  /\ IsQueue(r) /\ Len(r) = Len(q) + 2
         /\ \A i \in 1..Len(q) : r[i] = q[i]
         /\ r[Len(q) + 1] = a
<1>1. PICK M : q \in Seq(M)
  BY DEF IsQueue
<1>2. PICK N : N = M \cup {a, b}
  OBVIOUS
<1>3. q \in Seq(N) /\ <<a>> \in Seq(N) /\ <<b>> \in Seq(N) /\ Len(q) \in Nat
      /\ Len(<<a>>) = 1 /\ Len(<<b>>) = 1 /\ <<a>>[1] = a
  BY <1>1, <1>2
<1>4. PICK p : p = q \o <<a>>
  OBVIOUS
<1>5. /\ p \in Seq(N) /\ Len(p) = Len(q) + 1
      /\ \A i \in 1..Len(q) : p[i] = q[i]
      /\ p[Len(q) + 1] = a
  BY <1>3, <1>4
<1>6. r = p \o <<b>>
  BY <1>4 DEF Joined
<1>7. /\ r \in Seq(N) /\ Len(r) = Len(p) + 1
      /\ \A i \in 1..Len(p) : r[i] = p[i]
  BY <1>3, <1>5, <1>6
<1> QED BY <1>3, <1>5, <1>7 DEF IsQueue

LEMMA QueueConcat ==
  ASSUME NEW q, IsQueue(q), NEW m
  PROVE  q \o <<>> = q /\ q \o <<m>> = Append(q, m)
<1>1. PICK M : q \in Seq(M)
  BY DEF IsQueue
<1>2. PICK N : N = M \cup {m}
  OBVIOUS
<1>3. q \in Seq(N) /\ m \in N
  BY <1>1, <1>2
<1> QED BY <1>3

LEMMA NoPlaces ==
  ASSUME NEW q, IsQueue(q), NEW k
  PROVE  Places(q, k) = {} <=> Cardinality(Places(q, k)) = 0
BY PlacesFinite, FS_EmptySet

\* In the queue after the first message: what was behind it.
LEMMA RestOfQueue ==
  ASSUME NEW q, IsQueue(q), q # <<>>
  PROVE  /\ IsQueue(Tail(q)) /\ Len(q) \in Nat /\ Len(q) >= 1 /\ Len(Tail(q)) = Len(q) - 1
         /\ \A i \in 1..Len(q) - 1 : Tail(q)[i] = q[i + 1]
         /\ Head(q) = q[1]
BY QueueTail, QueueLen

\* Places that do not change their kind's number of messages, or lose it.
LEMMA TailPlaces ==
  ASSUME NEW q, IsQueue(q), q # <<>>, NEW k
  PROVE  /\ Head(q).kind # k => (Places(Tail(q), k) = {} <=> Places(q, k) = {})
         /\ Head(q).kind = k => Places(q, k) # {}
         /\ Cardinality(Places(Tail(q), k)) <= Cardinality(Places(q, k))
         /\ Places(q, k) = {} => Places(Tail(q), k) = {}
         /\ (Head(q).kind = k /\ Cardinality(Places(q, k)) <= 1) => Places(Tail(q), k) = {}
<1>1. IsQueue(Tail(q))
  BY QueueTail
<1>2. Cardinality(Places(q, k)) \in Nat /\ Cardinality(Places(Tail(q), k)) \in Nat
  BY <1>1, PlacesFinite
<1>3. (Places(q, k) = {} <=> Cardinality(Places(q, k)) = 0)
      /\ (Places(Tail(q), k) = {} <=> Cardinality(Places(Tail(q), k)) = 0)
  BY <1>1, NoPlaces
<1>4. Cardinality(Places(Tail(q), k))
        = Cardinality(Places(q, k)) - (IF Head(q).kind = k THEN 1 ELSE 0)
  BY CountTail
<1>5. CASE Head(q).kind = k
  <2>1. Cardinality(Places(Tail(q), k)) = Cardinality(Places(q, k)) - 1
    BY <1>4, <1>5
  <2> QED BY <1>2, <1>3, <1>5, <2>1
<1>6. CASE Head(q).kind # k
  <2>1. Cardinality(Places(Tail(q), k)) = Cardinality(Places(q, k))
    BY <1>2, <1>4, <1>6
  <2> QED BY <1>2, <1>3, <1>6, <2>1
<1> QED BY <1>5, <1>6

LEMMA Times ==
  ASSUME NEW S \in Nat, NEW a \in Int, NEW b \in Int, a < b
  PROVE  S * a + S <= S * b /\ S * a \in Int /\ S * b \in Int
<1>1. b = a + 1 + (b - a - 1) /\ b - a - 1 \in Nat
  OBVIOUS
<1>2. \A d \in Nat : S * (a + 1 + d) = S * a + S + S * d /\ S * d >= 0 /\ S * a \in Int /\ S * d \in Int
  OBVIOUS
<1> QED BY <1>1, <1>2

\* One quotient and one remainder.
LEMMA Division ==
  ASSUME NEW S \in Nat \ {0}, NEW a \in Int, NEW b \in Int, NEW r \in 0..S - 1, NEW t \in 0..S - 1,
         S * a + r = S * b + t
  PROVE  a = b /\ r = t
<1>1. S * a \in Int /\ S * b \in Int
  OBVIOUS
<1>2. ~(a < b)
  <2> SUFFICES ASSUME a < b PROVE FALSE
    OBVIOUS
  <2>1. S * a + S <= S * b
    BY Times
  <2> QED BY <1>1, <2>1
<1>3. ~(b < a)
  <2> SUFFICES ASSUME b < a PROVE FALSE
    OBVIOUS
  <2>1. S * b + S <= S * a
    BY Times
  <2> QED BY <1>1, <2>1
<1>4. a = b
  BY <1>2, <1>3
<1> QED BY <1>1, <1>4

LEMMA DivMod ==
  ASSUME NEW S \in Nat \ {0}, NEW c \in Nat
  PROVE  c \div S \in Nat /\ c % S \in 0..S - 1 /\ c = S * (c \div S) + (c % S)
OBVIOUS

\* Different elements of T are of different elements of S, and T is not smaller.
LEMMA Covering ==
  ASSUME NEW S, IsFiniteSet(S), NEW T, NEW f \in [T -> S],
         \A x \in T, y \in T : f[x] = f[y] => x = y,
         Cardinality(T) >= Cardinality(S)
  PROVE  \A v \in S : \E x \in T : f[x] = v
<1>1. f \in Injection(T, S)
  BY DEF Injection, IsInjective
<1>2. /\ IsFiniteSet(T) /\ Cardinality(T) <= Cardinality(S)
      /\ Cardinality(T) = Cardinality(S) <=> f \in Surjection(T, S)
  BY <1>1, FS_Injection
<1>3. Cardinality(T) \in Nat /\ Cardinality(S) \in Nat
  BY <1>2, FS_CardinalityType
<1>4. f \in Surjection(T, S)
  BY <1>2, <1>3
<1> QED BY <1>4 DEF Surjection

LEMMA TwoLevels ==
  ASSUME NEW A, NEW B, NEW q, DOMAIN q = A, \A u \in A : DOMAIN q[u] = B,
         NEW s, NEW w, NEW v, NEW r, r = [q EXCEPT ![s][w] = v]
  PROVE  /\ DOMAIN r = A
         /\ \A u \in A : DOMAIN r[u] = B
         /\ \A u \in A, x \in B : r[u][x] = IF u = s /\ x = w THEN v ELSE q[u][x]
<1>1. DOMAIN r = A
  OBVIOUS
<1>2. \A u \in A : r[u] = IF u = s THEN [q[u] EXCEPT ![w] = v] ELSE q[u]
  OBVIOUS
<1>3. \A u \in A : DOMAIN r[u] = B
  BY <1>2
<1>4. ASSUME NEW u \in A, NEW x \in B
      PROVE  r[u][x] = IF u = s /\ x = w THEN v ELSE q[u][x]
  BY <1>2
<1> QED BY <1>1, <1>3, <1>4

-----------------------------------------------------------------------------
(* The updates of layers in a queue, whose gradients are on their way.      *)

\* The updates on the way in q, a channel.
Updates(q, l) == {i \in 1..Len(q) : q[i].kind = "DATA" /\ q[i].layer = l}
OnWay(q, l) == UNION {q[i].upd : i \in Updates(q, l)}
UpdatesOK(q, L, U) ==
  \A i \in 1..Len(q) : q[i].kind = "DATA" => q[i].layer \in L /\ q[i].upd \subseteq U
Disjoint(q) ==
  \A l : \A i \in Updates(q, l), j \in Updates(q, l) : i # j => q[i].upd \cap q[j].upd = {}

LEMMA ChanMore ==
  ASSUME NEW q, IsQueue(q), NEW L, NEW U, UpdatesOK(q, L, U),
         NEW m, m.kind = "DATA" => m.layer \in L /\ m.upd \subseteq U
  PROVE  /\ IsQueue(Append(q, m)) /\ UpdatesOK(Append(q, m), L, U)
         /\ Disjoint(q) /\ (m.kind = "DATA" => m.upd \cap OnWay(q, m.layer) = {}) => Disjoint(Append(q, m))
         /\ \A l : \A g \in OnWay(Append(q, m), l) :
              g \in OnWay(q, l) \/ (m.kind = "DATA" /\ m.layer = l /\ g \in m.upd)
<1>1. PICK z : z = Append(q, m)
  OBVIOUS
<1>2. PICK n : n = Len(q)
  OBVIOUS
<1>3. /\ n \in Nat /\ IsQueue(z) /\ Len(z) = n + 1
      /\ \A i \in 1..n : z[i] = q[i]
      /\ z[n + 1] = m
  BY <1>1, <1>2, QueueLen, QueueAppend
<1>4. ASSUME NEW i \in 1..Len(z)
      PROVE  i \in 1..n \/ i = n + 1
  BY <1>3
<1>5. UpdatesOK(z, L, U)
  BY <1>2, <1>3, <1>4 DEF UpdatesOK
<1>6. ASSUME NEW l, NEW i \in Updates(z, l)
      PROVE  \/ i \in Updates(q, l) /\ z[i] = q[i]
             \/ i = n + 1 /\ z[i] = m /\ m.kind = "DATA" /\ m.layer = l
  <2>1. i \in 1..Len(z) /\ z[i].kind = "DATA" /\ z[i].layer = l
    BY DEF Updates
  <2>2. CASE i \in 1..n
    BY <1>2, <1>3, <2>1, <2>2 DEF Updates
  <2>3. CASE i = n + 1
    BY <1>3, <2>1, <2>3
  <2> QED BY <1>4, <2>1, <2>2, <2>3
<1>7. ASSUME NEW l, NEW g \in OnWay(z, l)
      PROVE  g \in OnWay(q, l) \/ (m.kind = "DATA" /\ m.layer = l /\ g \in m.upd)
  <2>1. PICK i \in Updates(z, l) : g \in z[i].upd
    BY DEF OnWay
  <2> QED BY <1>6, <2>1 DEF OnWay
<1>8. ASSUME Disjoint(q), m.kind = "DATA" => m.upd \cap OnWay(q, m.layer) = {}
      PROVE  Disjoint(z)
  <2>1. ASSUME NEW l, NEW i \in Updates(z, l), NEW j \in Updates(z, l), i # j
        PROVE  z[i].upd \cap z[j].upd = {}
    <3>1. CASE i \in Updates(q, l) /\ z[i] = q[i] /\ j \in Updates(q, l) /\ z[j] = q[j]
      BY <1>8, <2>1, <3>1 DEF Disjoint
    <3>2. ASSUME NEW k \in Updates(q, l), m.kind = "DATA", m.layer = l
          PROVE  q[k].upd \cap m.upd = {}
      <4>1. q[k].upd \subseteq OnWay(q, l)
        BY DEF OnWay
      <4> QED BY <1>8, <3>2, <4>1
    <3>3. CASE i \in Updates(q, l) /\ z[i] = q[i] /\ j = n + 1 /\ z[j] = m /\ m.kind = "DATA" /\ m.layer = l
      BY <3>2, <3>3
    <3>4. CASE j \in Updates(q, l) /\ z[j] = q[j] /\ i = n + 1 /\ z[i] = m /\ m.kind = "DATA" /\ m.layer = l
      BY <3>2, <3>4
    <3> QED BY <1>6, <2>1, <3>1, <3>3, <3>4
  <2> QED BY <2>1 DEF Disjoint
<1> QED BY <1>1, <1>3, <1>5, <1>7, <1>8

LEMMA ChanLess ==
  ASSUME NEW q, IsQueue(q), NEW L, NEW U, UpdatesOK(q, L, U), q # <<>>
  PROVE  /\ IsQueue(Tail(q)) /\ UpdatesOK(Tail(q), L, U)
         /\ Disjoint(q) => Disjoint(Tail(q))
         /\ \A l : OnWay(Tail(q), l) \subseteq OnWay(q, l)
         /\ Head(q).kind = "DATA" =>
              /\ Head(q).layer \in L /\ Head(q).upd \subseteq U
              /\ Head(q).upd \subseteq OnWay(q, Head(q).layer)
              /\ Disjoint(q) => Head(q).upd \cap OnWay(Tail(q), Head(q).layer) = {}
<1>1. PICK z : z = Tail(q)
  OBVIOUS
<1>2. PICK n : n = Len(q)
  OBVIOUS
<1>3. /\ n \in Nat /\ n >= 1 /\ IsQueue(z) /\ Len(z) = n - 1
      /\ \A i \in 1..n - 1 : z[i] = q[i + 1]
      /\ Head(q) = q[1]
  BY <1>1, <1>2, QueueLen, QueueTail
<1>4. \A i \in 1..Len(z) : i + 1 \in 1..n /\ i + 1 # 1 /\ z[i] = q[i + 1]
  BY <1>3
<1>5. UpdatesOK(z, L, U)
  BY <1>2, <1>4 DEF UpdatesOK
<1>6. \A l : \A i \in Updates(z, l) : i \in Nat /\ i + 1 \in Updates(q, l) /\ i + 1 # 1 /\ z[i] = q[i + 1]
  BY <1>2, <1>3, <1>4 DEF Updates
<1>7. ASSUME NEW l, NEW g \in OnWay(z, l)
      PROVE  g \in OnWay(q, l)
  <2>1. PICK i \in Updates(z, l) : g \in z[i].upd
    BY DEF OnWay
  <2> QED BY <1>6, <2>1 DEF OnWay
<1>8. ASSUME Disjoint(q)
      PROVE  Disjoint(z)
  <2>1. ASSUME NEW l, NEW i \in Updates(z, l), NEW j \in Updates(z, l), i # j
        PROVE  z[i].upd \cap z[j].upd = {}
    <3>1. i + 1 # j + 1
      BY <1>6, <2>1
    <3>2. q[i + 1].upd \cap q[j + 1].upd = {}
      BY <1>6, <1>8, <3>1 DEF Disjoint
    <3> QED BY <1>6, <3>2
  <2> QED BY <2>1 DEF Disjoint
<1>9. ASSUME q[1].kind = "DATA"
      PROVE  /\ q[1].layer \in L /\ q[1].upd \subseteq U
             /\ q[1].upd \subseteq OnWay(q, q[1].layer)
             /\ Disjoint(q) => q[1].upd \cap OnWay(z, q[1].layer) = {}
  <2>1. PICK l : l = q[1].layer
    OBVIOUS
  <2>2. l \in L /\ q[1].upd \subseteq U /\ 1 \in Updates(q, l)
    BY <1>2, <1>3, <1>9, <2>1 DEF UpdatesOK, Updates
  <2>3. q[1].upd \subseteq OnWay(q, l)
    BY <2>2 DEF OnWay
  <2>4. ASSUME Disjoint(q), NEW g \in q[1].upd, g \in OnWay(z, l)
        PROVE  FALSE
    <3>1. PICK i \in Updates(z, l) : g \in z[i].upd
      BY <2>4 DEF OnWay
    <3>2. i + 1 \in Updates(q, l) /\ i + 1 # 1 /\ g \in q[i + 1].upd
      BY <1>6, <3>1
    <3> QED BY <2>2, <2>4, <3>2 DEF Disjoint
  <2> QED BY <2>1, <2>2, <2>3, <2>4
<1> QED BY <1>1, <1>3, <1>5, <1>7, <1>8, <1>9

LEMMA UpdatesMore ==
  ASSUME NEW q, NEW L, NEW U, UpdatesOK(q, L, U), NEW V, U \subseteq V
  PROVE  UpdatesOK(q, L, V)
BY DEF UpdatesOK

\* No gradient is sent on the channel.
Quieter(q, L, z) ==
  \/ z = q
  \/ z = <<>>
  \/ q # <<>> /\ z = Tail(q)
  \/ \E m : (m.kind = "DATA" => m.layer \in L /\ m.upd = {}) /\ z = Append(q, m)

LEMMA QuieterChan ==
  ASSUME NEW q, IsQueue(q), NEW L, NEW U, UpdatesOK(q, L, U), NEW z, Quieter(q, L, z)
  PROVE  /\ IsQueue(z) /\ UpdatesOK(z, L, U) /\ (Disjoint(q) => Disjoint(z))
         /\ \A l : OnWay(z, l) \subseteq OnWay(q, l)
<1>1. CASE z = <<>>
  <2>1. IsQueue(z) /\ Len(z) = 0
    BY <1>1, QueueEmpty
  <2>2. UpdatesOK(z, L, U) /\ \A l : Updates(z, l) = {}
    BY <2>1 DEF UpdatesOK, Updates
  <2> QED BY <2>1, <2>2 DEF Disjoint, OnWay
<1>2. CASE q # <<>> /\ z = Tail(q)
  BY <1>2, ChanLess
<1>3. ASSUME NEW m, m.kind = "DATA" => m.layer \in L /\ m.upd = {}, z = Append(q, m)
      PROVE  /\ IsQueue(z) /\ UpdatesOK(z, L, U) /\ (Disjoint(q) => Disjoint(z))
             /\ \A l : OnWay(z, l) \subseteq OnWay(q, l)
  <2>1. m.kind = "DATA" => m.layer \in L /\ m.upd \subseteq U
    BY <1>3
  <2>2. m.kind = "DATA" => m.upd \cap OnWay(q, m.layer) = {}
    BY <1>3
  <2>3. /\ IsQueue(z) /\ UpdatesOK(z, L, U) /\ (Disjoint(q) => Disjoint(z))
        /\ \A l : \A g \in OnWay(z, l) : g \in OnWay(q, l) \/ (m.kind = "DATA" /\ m.layer = l /\ g \in m.upd)
    BY <1>3, <2>1, <2>2, ChanMore
  <2> QED BY <1>3, <2>3
<1> QED BY <1>1, <1>2, <1>3 DEF Quieter

-----------------------------------------------------------------------------
(* The pulls in the queue of a worker, when it changes at either end.       *)

\* Message i of x is a pull.
IsPull(x, i) == i \in 1..Len(x) /\ x[i].op = "PULL"

\* The requests for weights in z were in x.
Shifts(x, z) ==
  \E d \in Nat : \A i : IsPull(z, i) => i \in Nat /\ IsPull(x, i + d) /\ x[i + d] = z[i]

LEMMA ShiftsSame ==
  ASSUME NEW x
  PROVE  Shifts(x, x)
<1>1. \A i : IsPull(x, i) => i \in Nat /\ i + 0 = i
  BY DEF IsPull
<1> QED BY <1>1 DEF Shifts

LEMMA ShiftsTail ==
  ASSUME NEW x, IsQueue(x), x # <<>>
  PROVE  Shifts(x, Tail(x)) /\ \A i : IsPull(Tail(x), i) => i \in Nat /\ IsPull(x, i + 1) /\ x[i + 1] = Tail(x)[i]
<1>1. PICK n, z : n = Len(x) /\ z = Tail(x)
  OBVIOUS
<1>2. n \in Nat /\ n >= 1 /\ Len(z) = n - 1 /\ \A i \in 1..n - 1 : z[i] = x[i + 1]
  BY <1>1, QueueLen, QueueTail
<1>3. ASSUME NEW i, IsPull(z, i)
      PROVE  i \in Nat /\ IsPull(x, i + 1) /\ x[i + 1] = z[i]
  <2>1. i \in 1..n - 1 /\ z[i].op = "PULL"
    BY <1>2, <1>3 DEF IsPull
  <2>2. i \in Nat /\ i + 1 \in 1..n /\ x[i + 1] = z[i]
    BY <1>2, <2>1
  <2> QED BY <1>1, <2>1, <2>2 DEF IsPull
<1> QED BY <1>1, <1>3 DEF Shifts

LEMMA PullLast ==
  ASSUME NEW x, IsQueue(x), NEW m, NEW i, IsPull(Append(x, m), i)
  PROVE  \/ IsPull(x, i) /\ Append(x, m)[i] = x[i] /\ i <= Len(x)
         \/ i = Len(x) + 1 /\ Append(x, m)[i] = m /\ m.op = "PULL"
<1>1. PICK n, z : n = Len(x) /\ z = Append(x, m)
  OBVIOUS
<1>2. n \in Nat /\ Len(z) = n + 1 /\ (\A j \in 1..n : z[j] = x[j]) /\ z[n + 1] = m
  BY <1>1, QueueLen, QueueAppend
<1>3. i \in 1..n + 1 /\ z[i].op = "PULL"
  BY <1>1, <1>2 DEF IsPull
<1>4. CASE i \in 1..n
  BY <1>1, <1>2, <1>3, <1>4 DEF IsPull
<1>5. CASE i = n + 1
  BY <1>1, <1>2, <1>3, <1>5
<1> QED BY <1>2, <1>3, <1>4, <1>5

\* Requests are done, and others are made, for anything but weights.
Duller(x, z) == z = x \/ (x # <<>> /\ z = Tail(x)) \/ \E m : m.op # "PULL" /\ z = Append(x, m)

LEMMA DullerShifts ==
  ASSUME NEW x, IsQueue(x), NEW z, Duller(x, z)
  PROVE  IsQueue(z) /\ Shifts(x, z)
<1>1. CASE z = x
  BY <1>1, ShiftsSame
<1>2. CASE x # <<>> /\ z = Tail(x)
  BY <1>2, ShiftsTail, QueueTail
<1>3. ASSUME NEW m, m.op # "PULL", z = Append(x, m)
      PROVE  IsQueue(z) /\ Shifts(x, z)
  <2>1. \A i : IsPull(z, i) => IsPull(x, i) /\ z[i] = x[i]
    BY <1>3, PullLast
  <2>2. \A i : IsPull(z, i) => i \in Nat /\ i + 0 = i
    BY DEF IsPull
  <2>3. Shifts(x, z)
    BY <2>1, <2>2 DEF Shifts
  <2> QED BY <1>3, <2>3, QueueAppend
<1> QED BY <1>1, <1>2, <1>3 DEF Duller

=============================================================================
