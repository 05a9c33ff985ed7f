---------------------------- MODULE RingChannels ----------------------------
(***************************************************************************)
(* What the ring promises the slide units: a channel from each cluster to  *)
(* each other one, which loses, doubles and reorders nothing.  Packets of  *)
(* different channels may overtake each other.  Many clusters send and     *)
(* receive in one step, each at most one packet.                           *)
(***************************************************************************)
EXTENDS Naturals, Sequences

CONSTANTS
  Clusters,
  Traffic  \* the sequences of packets [src, dst, no] the clusters may want to send

VARIABLES
  todo,    \* the packets each cluster has still to send
  chan,    \* the packets on the way, by source and destination
  arrived  \* how many packets the destination has taken, by source and destination

Pairs == Clusters \X Clusters

Init ==
  /\ todo \in Traffic
  /\ chan = [p \in Pairs |-> <<>>]
  /\ arrived = [p \in Pairs |-> 0]

\* The packet that enters the channel of p in this step.
Sent(p) == IF todo'[p[1]] # todo[p[1]] /\ Head(todo[p[1]]).dst = p[2]
           THEN <<Head(todo[p[1]])>> ELSE <<>>
Taken(p) == arrived'[p] # arrived[p]

Next ==
  /\ DOMAIN todo' = Clusters /\ DOMAIN chan' = Pairs /\ DOMAIN arrived' = Pairs
  /\ \A c \in Clusters : todo'[c] = todo[c] \/ (todo[c] # <<>> /\ todo'[c] = Tail(todo[c]))
  /\ \A p \in Pairs :
       \/ /\ arrived'[p] = arrived[p]
          /\ chan'[p] = chan[p] \o Sent(p)
       \/ /\ chan[p] # <<>> /\ arrived'[p] = arrived[p] + 1
          /\ chan'[p] = Tail(chan[p]) \o Sent(p)
  /\ \A p, q \in Pairs : Taken(p) /\ Taken(q) /\ p[2] = q[2] => p = q

vars == <<todo, chan, arrived>>
Spec == Init /\ [][Next]_vars
=============================================================================
