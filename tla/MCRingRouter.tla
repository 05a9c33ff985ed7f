---------------------------- MODULE MCRingRouter ----------------------------
EXTENDS RingRouter

\* `count' packets from every cluster to the one k further on the right
Rotation(k, count) == [c \in 0 .. N - 1 |->
  [i \in 1 .. count |-> [src |-> c, dst |-> (c + k) % N, no |-> i]]]
\* cluster c sends its packets to the clusters of a sequence of distances
Mixed(hops) == [c \in 0 .. N - 1 |->
  [i \in 1 .. Len(hops[c]) |-> [src |-> c, dst |-> (c + hops[c][i]) % N, no |-> i]]]

FourClusters == {Rotation(2, 3),
  Mixed(0 :> <<1, 2, 3>> @@ 1 :> <<2, 3>> @@ 2 :> <<2, 2>> @@ 3 :> <<1, 1>>)}
Halves == {{}, 0 .. N - 1, {c \in 0 .. N - 1 : c % 2 = 0}, {c \in 0 .. N - 1 : c % 2 = 1}}
AllOrNone == {{}, 0 .. N - 1}
EvenCuts == {l \in (0 .. N - 1) \X {"left", "right"} : l[1] % 2 = IF l[2] = "left" THEN 0 ELSE 1}
=============================================================================
