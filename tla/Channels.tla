------------------------------- MODULE Channels -------------------------------
(***************************************************************************)
(* Counting messages on their way between servers: channel[s][t] is the    *)
(* queue of what s has sent to t and t has not read.                       *)
(***************************************************************************)
EXTENDS Integers, Sequences, FiniteSets

\* The places of the messages of a kind in a queue.
Places(q, k) == {i \in DOMAIN q : q[i].kind = k}

\* A place together with the other end of its channel.
Spread(f) == UNION {{t} \X f[t] : t \in DOMAIN f}

\* The messages of a kind that a server has sent, and that are sent to it.
SentBy(channel, s, k) == Spread([t \in DOMAIN channel |-> Places(channel[s][t], k)])
SentTo(channel, s, k) == Spread([t \in DOMAIN channel |-> Places(channel[t][s], k)])

=============================================================================
