--------------------------- MODULE SlideRing_proofs ---------------------------
(***************************************************************************)
(* What holds of the ring for every number of clusters, every traffic, and *)
(* whatever the slide units do: the types of its registers, and that it is *)
(* a channel between each two clusters.  These rest on the assumptions of  *)
(* RingRouter alone.  Then what holds of one slide on that ring: each      *)
(* packet is used in the row it belongs to.                                *)
(***************************************************************************)
EXTENDS SlideRing, SequenceTheorems, WellFoundedInduction, FiniteSetTheorems, DivModLemmas

-----------------------------------------------------------------------------
(***************************************************************************)
(* Sequences that are put together from pieces.                            *)
(***************************************************************************)
LEMMA LeastOf ==
  ASSUME NEW T, T \subseteq Nat, T # {}
  PROVE  \E x \in T : \A y \in T : ~(y < x)
<1> DEFINE R == OpToRel(<, Nat)
<1>1. \E x \in T : \A y \in T : ~(<<y, x>> \in R)
  <2>1. IsWellFoundedOn(R, Nat)
    BY NatLessThanWellFounded
  <2> HIDE DEF R
  <2>2. QED
    BY <2>1, WFMin
<1>2. \A x, y \in Nat : y < x => <<y, x>> \in R
  BY DEF OpToRel
<1> HIDE DEF R
<1>3. QED
  BY <1>1, <1>2

Cat(s, t) == s \o t

LEMMA CatTyped ==
  ASSUME NEW S, NEW s \in Seq(S), NEW t \in Seq(S)
  PROVE  Cat(s, t) \in Seq(S)
BY ConcatProperties DEF Cat

LEMMA CatAssociative ==
  ASSUME NEW S, NEW s \in Seq(S), NEW t \in Seq(S), NEW u \in Seq(S)
  PROVE  Cat(Cat(s, t), u) = Cat(s, Cat(t, u))
BY ConcatAssociative DEF Cat

LEMMA CatNothing ==
  ASSUME NEW S, NEW s \in Seq(S)
  PROVE  Cat(s, <<>>) = s /\ Cat(<<>>, s) = s
BY ConcatEmptySeq DEF Cat

LEMMA CatIsEmpty ==
  ASSUME NEW S, NEW s \in Seq(S), NEW t \in Seq(S), Cat(s, t) = <<>>
  PROVE  s = <<>> /\ t = <<>>
BY ConcatEqualIffEmpty DEF Cat

\* What leaves x enters y before it, and what leaves f enters g.
MovesOn(a, b, c, f, g, x, y) ==
  Cat(a, g) = Cat(f, b) /\ Cat(b, y) = Cat(x, c) => Cat(a, Cat(g, y)) = Cat(Cat(f, x), c)

LEMMA CatMoves ==
  ASSUME NEW S, NEW a \in Seq(S), NEW b \in Seq(S), NEW c \in Seq(S),
         NEW f \in Seq(S), NEW g \in Seq(S), NEW x \in Seq(S), NEW y \in Seq(S)
  PROVE  MovesOn(a, b, c, f, g, x, y)
<1>1. Cat(a, Cat(g, y)) = Cat(Cat(a, g), y)
  BY CatAssociative
<1>2. Cat(Cat(f, b), y) = Cat(f, Cat(b, y))
  BY CatAssociative
<1>3. Cat(f, Cat(x, c)) = Cat(Cat(f, x), c)
  BY CatAssociative
<1>4. QED
  BY <1>1, <1>2, <1>3 DEF MovesOn

\* f is what FlattenSeq computes, piece after piece.
Pieced(f, h, m) ==
  f = [i \in 1 .. m |-> IF i = 1 THEN h[i] ELSE Cat(f[i - 1], h[i])]

Pieces(f, h, n) ==
  /\ f[1] = h[1]
  /\ \A i \in 2 .. n : f[i] = Cat(f[i - 1], h[i])
  /\ FlattenSeq(h) = f[n]

LEMMA PiecedExists ==
  ASSUME NEW h, NEW n \in Nat \ {0}
  PROVE  \E f : Pieced(f, h, n)
<1> DEFINE T == {m \in 1 .. n : ~(\E f : Pieced(f, h, m))}
<1>1. SUFFICES ASSUME T # {}
               PROVE  FALSE
  <2>1. T = {} => n \notin T
    OBVIOUS
  <2>2. n \in 1 .. n
    OBVIOUS
  <2>3. n \notin T => \E f : Pieced(f, h, n)
    BY <2>2
  <2> HIDE DEF T
  <2>4. QED
    BY <2>1, <2>3
<1>2. T \subseteq Nat
  OBVIOUS
<1>3. PICK m \in T : \A y \in T : ~(y < m)
  <2> HIDE DEF T
  <2>1. QED
    BY <1>1, <1>2, LeastOf
<1>4. m \in 1 .. n /\ ~(\E f : Pieced(f, h, m))
  OBVIOUS
<1>5. CASE m = 1
  <2> DEFINE f == [i \in 1 .. 1 |-> h[1]]
  <2>1. f = [i \in 1 .. 1 |-> IF i = 1 THEN h[i] ELSE Cat(f[i - 1], h[i])]
    OBVIOUS
  <2>2. Pieced(f, h, m)
    BY <2>1, <1>5 DEF Pieced
  <2>3. QED
    BY <2>2, <1>4
<1>6. CASE m # 1
  <2>1. m - 1 \in 1 .. n /\ m - 1 < m
    BY <1>4, <1>6
  <2>2. m - 1 \notin T
    <3> HIDE DEF T
    <3>1. QED
      BY <2>1, <1>3
  <2>3. PICK g : Pieced(g, h, m - 1)
    BY <2>1, <2>2
  <2> DEFINE f == [i \in 1 .. m |-> IF i = m THEN Cat(g[m - 1], h[m]) ELSE g[i]]
  <2>4. \A i \in 1 .. m : f[i] = IF i = 1 THEN h[i] ELSE Cat(f[i - 1], h[i])
    <3> SUFFICES ASSUME NEW i \in 1 .. m
                 PROVE  f[i] = IF i = 1 THEN h[i] ELSE Cat(f[i - 1], h[i])
      OBVIOUS
    <3>1. CASE i = m
      <4>1. m - 1 \in 1 .. m /\ m - 1 # m
        BY <2>1, <1>4
      <4>2. f[m - 1] = g[m - 1] /\ f[m] = Cat(g[m - 1], h[m])
        BY <4>1, <1>4
      <4>3. QED
        BY <3>1, <4>2, <1>6
    <3>2. CASE i # m
      <4>1. i \in 1 .. m - 1 /\ f[i] = g[i]
        BY <3>2, <1>4
      <4>2. g[i] = IF i = 1 THEN h[i] ELSE Cat(g[i - 1], h[i])
        BY <4>1, <2>3 DEF Pieced
      <4>3. i # 1 => i - 1 \in 1 .. m /\ i - 1 # m
        BY <4>1, <1>4
      <4>4. i # 1 => f[i - 1] = g[i - 1]
        BY <4>3
      <4>5. QED
        BY <4>1, <4>2, <4>4
    <3>3. QED
      BY <3>1, <3>2
  <2>5. f = [i \in 1 .. m |-> f[i]]
    OBVIOUS
  <2>6. Pieced(f, h, m)
    <3> HIDE DEF f
    <3>1. QED
      BY <2>4, <2>5 DEF Pieced
  <2>7. QED
    BY <2>6, <1>4
<1>7. QED
  BY <1>5, <1>6

\* The pieces up to each of them.
LEMMA FlattenSeqPieces ==
  ASSUME NEW S, NEW n \in Nat \ {0}, NEW h, h \in [1 .. n -> Seq(S)]
  PROVE  \E f \in [1 .. n -> Seq(S)] : Pieces(f, h, n)
<1> DEFINE f == CHOOSE g : Pieced(g, h, n)
<1>1. Pieced(f, h, n)
  BY PiecedExists
<1>2. Len(h) = n /\ Len(h) # 0
  OBVIOUS
<1>3. FlattenSeq(h) = f[n]
  BY <1>2 DEF FlattenSeq, Pieced, Cat
<1> HIDE DEF f
<1>4. f[1] = h[1] /\ \A i \in 2 .. n : f[i] = Cat(f[i - 1], h[i])
  <2>1. \A i \in 1 .. n : f[i] = IF i = 1 THEN h[i] ELSE Cat(f[i - 1], h[i])
    BY <1>1 DEF Pieced
  <2>2. 1 \in 1 .. n /\ \A i \in 2 .. n : i \in 1 .. n /\ i # 1
    OBVIOUS
  <2>3. QED
    BY <2>1, <2>2
<1>5. \A i \in 1 .. n : f[i] \in Seq(S)
  <2> DEFINE T == {m \in 1 .. n : ~(f[m] \in Seq(S))}
  <2>1. SUFFICES ASSUME T # {}
                 PROVE  FALSE
    OBVIOUS
  <2>2. PICK m \in T : \A y \in T : ~(y < m)
    <3>1. T \subseteq Nat
      OBVIOUS
    <3> HIDE DEF T
    <3>2. QED
      BY <2>1, <3>1, LeastOf
  <2>3. m \in 1 .. n /\ ~(f[m] \in Seq(S))
    OBVIOUS
  <2>4. m # 1
    BY <2>3, <1>4
  <2>5. m - 1 \in 1 .. n /\ m - 1 < m /\ m \in 2 .. n
    BY <2>3, <2>4
  <2>6. f[m - 1] \in Seq(S)
    BY <2>5, <2>2
  <2>7. f[m] = Cat(f[m - 1], h[m]) /\ h[m] \in Seq(S)
    BY <2>5, <1>4, <2>3
  <2>8. f[m] \in Seq(S)
    BY <2>6, <2>7, CatTyped
  <2>9. QED
    BY <2>3, <2>8
<1>6. f \in [1 .. n -> Seq(S)]
  <2>1. \E e : f = [i \in 1 .. n |-> e[i]]
    <3> DEFINE e == [i \in 1 .. n |-> IF i = 1 THEN h[i] ELSE Cat(f[i - 1], h[i])]
    <3>1. f = e
      BY <1>1 DEF Pieced
    <3>2. e = [i \in 1 .. n |-> e[i]]
      OBVIOUS
    <3>3. QED
      BY <3>1, <3>2
  <2>2. QED
    BY <1>5, <2>1
<1>7. QED
  BY <1>3, <1>4, <1>6 DEF Pieces

\* When what leaves each piece enters the one before, a whole leaves what
\* leaves its first piece and enters what enters its last one.
Chained(n, X, Y, a) == \A k \in 1 .. n : Cat(a[k], Y[k]) = Cat(X[k], a[k + 1])
Telescopes(S, n, X, Y, a) ==
  /\ FlattenSeq(X) \in Seq(S) /\ FlattenSeq(Y) \in Seq(S)
  /\ Cat(a[1], FlattenSeq(Y)) = Cat(FlattenSeq(X), a[n + 1])
  /\ X[1] # <<>> => FlattenSeq(X) # <<>>

LEMMA Telescope ==
  ASSUME NEW S, NEW n \in Nat \ {0}, NEW X, X \in [1 .. n -> Seq(S)],
         NEW Y, Y \in [1 .. n -> Seq(S)], NEW a, a \in [1 .. n + 1 -> Seq(S)],
         Chained(n, X, Y, a)
  PROVE  Telescopes(S, n, X, Y, a)
<1>1. PICK f \in [1 .. n -> Seq(S)] : Pieces(f, X, n)
  <2>1. \E f \in [1 .. n -> Seq(S)] : Pieces(f, X, n)
    BY FlattenSeqPieces
  <2>2. QED
    BY <2>1
<1>2. PICK g \in [1 .. n -> Seq(S)] : Pieces(g, Y, n)
  <2>1. \E g \in [1 .. n -> Seq(S)] : Pieces(g, Y, n)
    BY FlattenSeqPieces
  <2>2. QED
    BY <2>1
<1> DEFINE Moved(m) == Cat(a[1], g[m]) = Cat(f[m], a[m + 1]) /\ (X[1] # <<>> => f[m] # <<>>)
<1>3. \A m \in 1 .. n : Moved(m)
  <2> DEFINE T == {m \in 1 .. n : ~Moved(m)}
  <2>1. SUFFICES ASSUME T # {}
                 PROVE  FALSE
    OBVIOUS
  <2>2. PICK m \in T : \A y \in T : ~(y < m)
    <3>1. T \subseteq Nat
      OBVIOUS
    <3> HIDE DEF T
    <3>2. QED
      BY <2>1, <3>1, LeastOf
  <2>3. m \in 1 .. n /\ ~Moved(m)
    OBVIOUS
  <2>4. 1 \in 1 .. n /\ 1 \in 1 .. n + 1
    OBVIOUS
  <2>5. m # 1
    <3>1. Cat(a[1], Y[1]) = Cat(X[1], a[1 + 1])
      BY <2>4 DEF Chained
    <3>2. Moved(1)
      BY <1>1, <1>2, <3>1 DEF Pieces
    <3> HIDE DEF Moved
    <3>3. QED
      BY <3>2, <2>3
  <2>6. m - 1 \in 1 .. n /\ m - 1 < m /\ m \in 2 .. n /\ (m - 1) + 1 = m
        /\ m \in 1 .. n + 1 /\ m + 1 \in 1 .. n + 1
    BY <2>3, <2>5
  <2>7. Moved(m - 1)
    <3> HIDE DEF Moved
    <3>1. m - 1 \notin T
      <4> HIDE DEF T
      <4>1. QED
        BY <2>6, <2>2
    <3>2. QED
      BY <3>1, <2>6
  <2>8. Cat(a[1], g[m - 1]) = Cat(f[m - 1], a[m]) /\ (X[1] # <<>> => f[m - 1] # <<>>)
    BY <2>7, <2>6
  <2>9. f[m] = Cat(f[m - 1], X[m]) /\ g[m] = Cat(g[m - 1], Y[m])
    BY <2>6, <1>1, <1>2 DEF Pieces
  <2>10. /\ f[m - 1] \in Seq(S) /\ g[m - 1] \in Seq(S) /\ X[m] \in Seq(S) /\ Y[m] \in Seq(S)
         /\ a[1] \in Seq(S) /\ a[m] \in Seq(S) /\ a[m + 1] \in Seq(S)
    BY <2>4, <2>6, <2>3
  <2>11. Cat(a[m], Y[m]) = Cat(X[m], a[m + 1])
    BY <2>3 DEF Chained
  <2> HIDE DEF T, Moved
  <2>12. MovesOn(a[1], a[m], a[m + 1], f[m - 1], g[m - 1], X[m], Y[m])
    BY <2>10, CatMoves
  <2>15. Cat(a[1], g[m]) = Cat(f[m], a[m + 1])
    BY <2>8, <2>9, <2>11, <2>12 DEF MovesOn
  <2>16. X[1] # <<>> => f[m] # <<>>
    BY <2>8, <2>9, <2>10, CatIsEmpty
  <2>17. QED
    BY <2>3, <2>15, <2>16 DEF Moved
<1>4. n \in 1 .. n /\ Moved(n)
  BY <1>3
<1>5. f[n] \in Seq(S) /\ g[n] \in Seq(S)
  BY <1>4
<1>6. QED
  BY <1>1, <1>2, <1>4, <1>5 DEF Pieces, Telescopes
-----------------------------------------------------------------------------
(***************************************************************************)
(* The way round the ring: how far it is in a direction, and the routers   *)
(* on the way back.                                                        *)
(***************************************************************************)
Way(p) == FindRingDir(p[1], p[2])

\* How many hops it is from c to x in direction d; a packet to its own cluster
\* goes round the ring.
Ahead(c, x, d) == IF d = "right" THEN (x + N - c) % N ELSE (c + N - x) % N
Far(c, x, d) == IF Ahead(c, x, d) = 0 THEN N ELSE Ahead(c, x, d)

LEMMA NIsNat == N \in Nat \ {0}
BY RingAssumption

LEMMA Wrap ==
  ASSUME NEW a \in Nat, a < N + N
  PROVE  a % N = IF a < N THEN a ELSE a - N
<1>1. N \in Nat \ {0}
  BY NIsNat
<1>2. CASE a < N
  <2>1. a = N * 0 + a /\ a \in 0 .. N - 1
    BY <1>1, <1>2
  <2>2. (N * 0 + a) % N = a
    BY <1>1, <2>1, DivModUnique
  <2>3. QED
    BY <1>2, <2>1, <2>2
<1>3. CASE ~(a < N)
  <2>1. a = N * 1 + (a - N) /\ a - N \in 0 .. N - 1
    BY <1>1, <1>3
  <2>2. (N * 1 + (a - N)) % N = a - N
    BY <1>1, <2>1, DivModUnique
  <2>3. QED
    BY <1>3, <2>1, <2>2
<1>4. QED
  BY <1>2, <1>3

LEMMA AheadIs ==
  ASSUME NEW c \in Clusters, NEW x \in Clusters, NEW d
  PROVE  /\ Ahead(c, x, d) = IF d = "right" THEN IF c <= x THEN x - c ELSE x + N - c
                                            ELSE IF x <= c THEN c - x ELSE c + N - x
         /\ Ahead(c, x, d) \in 0 .. N - 1 /\ Far(c, x, d) \in 1 .. N
<1>1. N \in Nat \ {0} /\ c \in 0 .. N - 1 /\ x \in 0 .. N - 1
  BY NIsNat DEF Clusters
<1>2. x + N - c \in Nat /\ x + N - c < N + N /\ c + N - x \in Nat /\ c + N - x < N + N
  BY <1>1
<1>3. /\ (x + N - c) % N = IF x + N - c < N THEN x + N - c ELSE (x + N - c) - N
      /\ (c + N - x) % N = IF c + N - x < N THEN c + N - x ELSE (c + N - x) - N
  BY <1>2, Wrap
<1>4. Ahead(c, x, d) = IF d = "right" THEN IF c <= x THEN x - c ELSE x + N - c
                                      ELSE IF x <= c THEN c - x ELSE c + N - x
  <2>1. CASE d = "right"
    <3>1. (x + N - c) % N = IF c <= x THEN x - c ELSE x + N - c
      BY <1>1, <1>3
    <3>2. QED
      BY <2>1, <3>1 DEF Ahead
  <2>2. CASE d # "right"
    <3>1. (c + N - x) % N = IF x <= c THEN c - x ELSE c + N - x
      BY <1>1, <1>3
    <3>2. QED
      BY <2>2, <3>1 DEF Ahead
  <2>3. QED
    BY <2>1, <2>2
<1>5. Ahead(c, x, d) \in 0 .. N - 1
  BY <1>1, <1>4
<1>6. QED
  BY <1>1, <1>4, <1>5 DEF Far

LEMMA NeighboursAre ==
  ASSUME NEW c \in Clusters, NEW d
  PROVE  /\ After(c, d) = IF d = "right" THEN IF c + 1 = N THEN 0 ELSE c + 1
                                         ELSE IF c = 0 THEN N - 1 ELSE c - 1
         /\ Before(c, d) = IF d = "right" THEN IF c = 0 THEN N - 1 ELSE c - 1
                                          ELSE IF c + 1 = N THEN 0 ELSE c + 1
         /\ After(c, d) \in Clusters /\ Before(c, d) \in Clusters
<1>1. N \in Nat \ {0} /\ c \in 0 .. N - 1
  BY NIsNat DEF Clusters
<1>2. c + 1 \in Nat /\ c + 1 < N + N /\ c + N - 1 \in Nat /\ c + N - 1 < N + N
  BY <1>1
<1>3. /\ (c + 1) % N = IF c + 1 < N THEN c + 1 ELSE (c + 1) - N
      /\ (c + N - 1) % N = IF c + N - 1 < N THEN c + N - 1 ELSE (c + N - 1) - N
  BY <1>2, Wrap
<1>4. /\ (c + 1) % N = IF c + 1 = N THEN 0 ELSE c + 1
      /\ (c + N - 1) % N = IF c = 0 THEN N - 1 ELSE c - 1
  BY <1>1, <1>3
<1>5. (c + 1) % N \in Clusters /\ (c + N - 1) % N \in Clusters
  BY <1>1, <1>4 DEF Clusters
<1>6. QED
  BY <1>4, <1>5 DEF After, Before

\* A hop brings a packet one cluster nearer.
LEMMA AfterBefore ==
  ASSUME NEW c \in Clusters, NEW d
  PROVE  /\ After(Before(c, d), d) = c /\ Before(After(c, d), d) = c
         /\ \A x \in Clusters : Ahead(After(c, d), x, d) = Far(c, x, d) - 1
<1>1. N \in Nat \ {0} /\ c \in 0 .. N - 1
  BY NIsNat DEF Clusters
<1>2. After(Before(c, d), d) = c
  <2> DEFINE b == Before(c, d)
  <2>1. /\ b = IF d = "right" THEN IF c = 0 THEN N - 1 ELSE c - 1
                              ELSE IF c + 1 = N THEN 0 ELSE c + 1
        /\ b \in Clusters
    BY NeighboursAre
  <2> HIDE DEF b
  <2>2. After(b, d) = IF d = "right" THEN IF b + 1 = N THEN 0 ELSE b + 1
                                     ELSE IF b = 0 THEN N - 1 ELSE b - 1
    BY <2>1, NeighboursAre
  <2>3. After(b, d) = c
    BY <1>1, <2>1, <2>2
  <2>4. QED
    BY <2>3 DEF b
<1>3. /\ Before(After(c, d), d) = c
      /\ \A x \in Clusters : Ahead(After(c, d), x, d) = Far(c, x, d) - 1
  <2> DEFINE a == After(c, d)
  <2>1. /\ a = IF d = "right" THEN IF c + 1 = N THEN 0 ELSE c + 1
                              ELSE IF c = 0 THEN N - 1 ELSE c - 1
        /\ a \in Clusters
    BY NeighboursAre
  <2> HIDE DEF a
  <2>2. Before(a, d) = IF d = "right" THEN IF a = 0 THEN N - 1 ELSE a - 1
                                      ELSE IF a + 1 = N THEN 0 ELSE a + 1
    BY <2>1, NeighboursAre
  <2>3. Before(a, d) = c
    BY <1>1, <2>1, <2>2
  <2>4. ASSUME NEW x \in Clusters
        PROVE  Ahead(a, x, d) = Far(c, x, d) - 1
    <3>1. /\ Ahead(c, x, d) = IF d = "right" THEN IF c <= x THEN x - c ELSE x + N - c
                                             ELSE IF x <= c THEN c - x ELSE c + N - x
          /\ Ahead(a, x, d) = IF d = "right" THEN IF a <= x THEN x - a ELSE x + N - a
                                             ELSE IF x <= a THEN a - x ELSE a + N - x
      BY <2>1, AheadIs
    <3>2. x \in 0 .. N - 1
      BY DEF Clusters
    <3>3. Far(c, x, d) = IF Ahead(c, x, d) = 0 THEN N ELSE Ahead(c, x, d)
      BY DEF Far
    <3>4. QED
      BY <1>1, <2>1, <3>1, <3>2, <3>3
  <2>5. QED
    BY <2>3, <2>4 DEF a
<1>4. QED
  BY <1>2, <1>3

LEMMA DirectionsTwo ==
  ASSUME NEW a, NEW b
  PROVE  FindRingDir(a, b) \in Directions
BY DEF FindRingDir, Directions

\* The routers on the way back are each once hop after hop further away.
LEMMA BackIs ==
  ASSUME NEW p \in Pairs, NEW k \in 1 .. N
  PROVE  /\ Back(p, k) \in Clusters /\ Back(p, k - 1) \in Clusters
         /\ Back(p, k) = Before(Back(p, k - 1), Way(p)) /\ Back(p, k - 1) = After(Back(p, k), Way(p))
         /\ Far(Back(p, k), p[2], Way(p)) = k
         /\ Ahead(Back(p, k - 1), p[2], Way(p)) = k - 1
<1> DEFINE d == Way(p)
           t == p[2]
           b == Back(p, k)
<1>1. N \in Nat \ {0} /\ t \in 0 .. N - 1 /\ t \in Clusters
  BY NIsNat DEF Pairs, Clusters
<1>2. \A j \in 0 .. N : Back(p, j) = IF d = "right" THEN (t + N - j) % N ELSE (t + j) % N
  BY DEF Back, Way
<1>3. \A j \in 0 .. N :
        Back(p, j) = IF d = "right" THEN IF j <= t THEN t - j ELSE t + N - j
                                    ELSE IF t + j < N THEN t + j ELSE (t + j) - N
  <2> SUFFICES ASSUME NEW j \in 0 .. N
               PROVE  Back(p, j) = IF d = "right" THEN IF j <= t THEN t - j ELSE t + N - j
                                    ELSE IF t + j < N THEN t + j ELSE (t + j) - N
    OBVIOUS
  <2> HIDE DEF d, t
  <2>1. t + N - j \in Nat /\ t + N - j < N + N /\ t + j \in Nat /\ t + j < N + N
    BY <1>1
  <2>2. /\ (t + N - j) % N = IF t + N - j < N THEN t + N - j ELSE (t + N - j) - N
        /\ (t + j) % N = IF t + j < N THEN t + j ELSE (t + j) - N
    BY <2>1, Wrap
  <2>3. (t + N - j) % N = IF j <= t THEN t - j ELSE t + N - j
    BY <1>1, <2>2
  <2>4. QED
    BY <1>2, <2>2, <2>3
<1>4. Back(p, k - 1) \in Clusters
  <2> HIDE DEF d, t
  <2>1. k - 1 \in 0 .. N
    BY <1>1
  <2>2. Back(p, k - 1) \in 0 .. N - 1
    BY <1>1, <1>3, <2>1
  <2>3. QED
    BY <2>2 DEF Clusters
<1>5. b \in Clusters /\ After(b, d) = Back(p, k - 1) /\ Far(b, t, d) = k
  <2>1. b = IF d = "right" THEN IF k <= t THEN t - k ELSE t + N - k
                           ELSE IF t + k < N THEN t + k ELSE (t + k) - N
    BY <1>1, <1>3
  <2>2. Back(p, k - 1) = IF d = "right" THEN IF k - 1 <= t THEN t - (k - 1) ELSE t + N - (k - 1)
                           ELSE IF t + (k - 1) < N THEN t + (k - 1) ELSE (t + (k - 1)) - N
    <3>1. k - 1 \in 0 .. N
      BY <1>1
    <3> HIDE DEF d, t, b
    <3>2. QED
      BY <1>3, <3>1
  <2> HIDE DEF d, t, b
  <2>3. b \in 0 .. N - 1
    BY <1>1, <2>1
  <2>4. b \in Clusters
    BY <2>3 DEF Clusters
  <2>5. After(b, d) = IF d = "right" THEN IF b + 1 = N THEN 0 ELSE b + 1
                                     ELSE IF b = 0 THEN N - 1 ELSE b - 1
    BY <2>4, NeighboursAre
  <2>6. Ahead(b, t, d) = IF d = "right" THEN IF b <= t THEN t - b ELSE t + N - b
                                        ELSE IF t <= b THEN b - t ELSE b + N - t
    BY <1>1, <2>4, AheadIs
  <2>7. Far(b, t, d) = IF Ahead(b, t, d) = 0 THEN N ELSE Ahead(b, t, d)
    BY DEF Far
  <2>8. After(b, d) = Back(p, k - 1)
    BY <1>1, <2>1, <2>2, <2>3, <2>5
  <2>9. Far(b, t, d) = k
    BY <1>1, <2>1, <2>3, <2>6, <2>7
  <2>10. QED
    BY <2>4, <2>8, <2>9
<1>6. Before(After(b, d), d) = b /\ Ahead(After(b, d), t, d) = Far(b, t, d) - 1
  <2> HIDE DEF d, t, b
  <2>1. QED
    BY <1>1, <1>5, AfterBefore
<1>7. QED
  <2> HIDE DEF b
  <2>1. QED
    BY <1>4, <1>5, <1>6 DEF b

\* The source is one of them, and the first is the destination.
LEMMA SourceOnTheWay ==
  ASSUME NEW p \in Pairs
  PROVE  /\ Far(p[1], p[2], Way(p)) \in 1 .. N
         /\ \A k \in 1 .. N : Back(p, k) = p[1] <=> k = Far(p[1], p[2], Way(p))
         /\ Back(p, 0) = p[2]
<1> DEFINE d == Way(p)
           s == p[1]
           t == p[2]
<1>1. N \in Nat \ {0} /\ s \in Clusters /\ t \in Clusters /\ s \in 0 .. N - 1 /\ t \in 0 .. N - 1
  BY NIsNat DEF Pairs, Clusters
<1>2. Far(s, t, d) \in 1 .. N
  <2> HIDE DEF s, t, d
  <2>1. QED
    BY <1>1, AheadIs
<1>3. ASSUME NEW k \in 1 .. N
      PROVE  Back(p, k) = s <=> k = Far(s, t, d)
  <2> DEFINE b == Back(p, k)
  <2>1. b \in Clusters /\ Far(b, t, d) = k
    BY BackIs
  <2>2. \A x, y \in Clusters : Far(x, t, d) = Far(y, t, d) => x = y
    <3> SUFFICES ASSUME NEW x \in Clusters, NEW y \in Clusters, Far(x, t, d) = Far(y, t, d)
                 PROVE  x = y
      OBVIOUS
    <3> HIDE DEF s, t, d
    <3>1. /\ Ahead(x, t, d) = IF d = "right" THEN IF x <= t THEN t - x ELSE t + N - x
                                             ELSE IF t <= x THEN x - t ELSE x + N - t
          /\ Ahead(y, t, d) = IF d = "right" THEN IF y <= t THEN t - y ELSE t + N - y
                                             ELSE IF t <= y THEN y - t ELSE y + N - t
          /\ Ahead(x, t, d) \in 0 .. N - 1 /\ Ahead(y, t, d) \in 0 .. N - 1
      BY <1>1, AheadIs
    <3>2. x \in 0 .. N - 1 /\ y \in 0 .. N - 1
      BY DEF Clusters
    <3>3. /\ Far(x, t, d) = IF Ahead(x, t, d) = 0 THEN N ELSE Ahead(x, t, d)
          /\ Far(y, t, d) = IF Ahead(y, t, d) = 0 THEN N ELSE Ahead(y, t, d)
      BY DEF Far
    <3>4. Ahead(x, t, d) = Ahead(y, t, d)
      <4>1. Ahead(x, t, d) # N /\ Ahead(y, t, d) # N
        <5>1. \A a \in 0 .. N - 1 : a # N
          BY <1>1
        <5>2. QED
          BY <3>1, <5>1
      <4>2. QED
        BY <3>3, <4>1
    <3>5. QED
      BY <1>1, <3>1, <3>2, <3>4
  <2> HIDE DEF b, s, t, d
  <2>3. b = s <=> k = Far(s, t, d)
    BY <1>1, <2>1, <2>2
  <2>4. QED
    BY <2>3 DEF b
<1>4. Back(p, 0) = t
  <2>1. t + N - 0 = t + N /\ t + 0 = t /\ t + N \in Nat /\ t + N < N + N /\ t < N + N /\ t \in Nat
    BY <1>1
  <2>2. (t + N) % N = t /\ t % N = t
    <3> HIDE DEF t
    <3>1. /\ (t + N) % N = IF t + N < N THEN t + N ELSE (t + N) - N
          /\ t % N = IF t < N THEN t ELSE t - N
      BY <2>1, Wrap
    <3>2. QED
      BY <1>1, <3>1
  <2>3. QED
    BY <2>1, <2>2 DEF Back
<1>5. QED
  BY <1>2, <1>3, <1>4
-----------------------------------------------------------------------------
(***************************************************************************)
(* The types of the registers, with what the packets in them have in       *)
(* common: each rides in its own direction and has not passed its          *)
(* destination.                                                            *)
(***************************************************************************)
Boarding(c) == {pkt \in Packets : pkt.src = c /\ pkt.dst \in Clusters}
Riding(d) == {pkt \in Packets : /\ pkt.src \in Clusters /\ pkt.dst \in Clusters
                                /\ FindRingDir(pkt.src, pkt.dst) = d}
AtInput(c, d) == {pkt \in Riding(d) : Ahead(c, pkt.dst, d) < Far(pkt.src, pkt.dst, d)}
AtOutput(c, d) == {pkt \in Riding(d) : Far(c, pkt.dst, d) <= Far(pkt.src, pkt.dst, d)}

Small(q, S) == q \in Seq(S) /\ Len(q) <= 2

\* The inductive invariant.
RingInv ==
  /\ \A c \in Clusters, d \in Directions :
       /\ Small(inq[<<c, d>>], AtInput(c, d))
       /\ Small(outq[<<c, d>>], AtOutput(c, d))
       /\ Small(cut[<<c, d>>], AtOutput(c, d))
       /\ <<c, d>> \notin CutLinks => cut[<<c, d>>] = <<>>
  /\ turn \in [Links -> BOOLEAN] /\ turnUp \in [Clusters -> Directions]
  /\ arrived \in [Pairs -> Nat]
  /\ DOMAIN todo = Clusters /\ \A c \in Clusters : todo[c] \in Seq(Boarding(c))

LEMMA LinkIs ==
  /\ \A c \in Clusters, d \in Directions : <<c, d>> \in Links /\ <<c, d>>[1] = c /\ <<c, d>>[2] = d
  /\ \A l \in Links : \E c \in Clusters, d \in Directions : l = <<c, d>>
BY DEF Links

LEMMA InvGivesTypes == RingInv => TypeOK
<1> SUFFICES ASSUME RingInv
             PROVE  TypeOK
  OBVIOUS
<1>1. ASSUME NEW c \in Clusters, NEW d \in Directions
      PROVE  /\ inq[<<c, d>>] \in Seq(Packets) /\ Len(inq[<<c, d>>]) <= 2
             /\ outq[<<c, d>>] \in Seq(Packets) /\ Len(outq[<<c, d>>]) <= 2
             /\ cut[<<c, d>>] \in Seq(Packets) /\ Len(cut[<<c, d>>]) <= 2
  <2>1. /\ inq[<<c, d>>] \in Seq(AtInput(c, d)) /\ Len(inq[<<c, d>>]) <= 2
        /\ outq[<<c, d>>] \in Seq(AtOutput(c, d)) /\ Len(outq[<<c, d>>]) <= 2
        /\ cut[<<c, d>>] \in Seq(AtOutput(c, d)) /\ Len(cut[<<c, d>>]) <= 2
    BY DEF RingInv, Small
  <2>2. AtInput(c, d) \subseteq Packets /\ AtOutput(c, d) \subseteq Packets
    BY DEF AtInput, AtOutput, Riding
  <2>3. QED
    BY <2>1, <2>2, SeqMonotonic
<1>2. \A regs \in Registers : \A l \in Links : regs[l] \in Seq(Packets) /\ Len(regs[l]) <= 2
  BY <1>1, LinkIs DEF Registers
<1>3. \A l \in Links \ CutLinks : cut[l] = <<>>
  BY LinkIs DEF RingInv
<1>4. QED
  BY <1>2, <1>3 DEF RingInv, TypeOK

LEMMA TrafficTyped ==
  ASSUME NEW t \in Traffic, NEW c \in Clusters
  PROVE  DOMAIN t = Clusters /\ t[c] \in Seq(Boarding(c))
<1>1. /\ DOMAIN t = Clusters /\ t[c] \in Seq(Range(t[c]))
      /\ \A p \in Range(t[c]) : p.src = c /\ p.dst \in Clusters
  BY TrafficAssumption
<1>2. Range(t[c]) \subseteq Packets
  BY DEF Packets
<1>3. Range(t[c]) \subseteq Boarding(c)
  BY <1>1, <1>2 DEF Boarding
<1>4. QED
  BY <1>1, <1>3, SeqMonotonic

LEMMA NothingSmall ==
  ASSUME NEW S
  PROVE  Small(<<>>, S)
BY EmptySeq DEF Small

LEMMA RingInitially == Init => RingInv
<1> SUFFICES ASSUME Init
             PROVE  RingInv
  OBVIOUS
<1>1. \A c \in Clusters, d \in Directions :
        inq[<<c, d>>] = <<>> /\ outq[<<c, d>>] = <<>> /\ cut[<<c, d>>] = <<>>
  BY LinkIs DEF Init
<1>2. turn \in [Links -> BOOLEAN] /\ turnUp \in [Clusters -> Directions] /\ arrived \in [Pairs -> Nat]
  BY DEF Init, Directions
<1>3. todo \in Traffic
  BY DEF Init
<1>4. DOMAIN todo = Clusters /\ \A c \in Clusters : todo[c] \in Seq(Boarding(c))
  <2>1. 0 \in Clusters
    BY NIsNat DEF Clusters
  <2>2. QED
    BY <1>3, <2>1, TrafficTyped
<1>5. QED
  BY <1>1, <1>2, <1>4, NothingSmall DEF RingInv

LEMMA HeadApart ==
  ASSUME NEW S, NEW q \in Seq(S), q # <<>>
  PROVE  /\ Head(q) \in S /\ <<Head(q)>> \in Seq(S) /\ Tail(q) \in Seq(S)
         /\ q = Cat(<<Head(q)>>, Tail(q)) /\ Len(q) \in Nat \ {0} /\ Len(Tail(q)) = Len(q) - 1
<1>1. Head(q) \in S /\ Tail(q) \in Seq(S) /\ Len(Tail(q)) = Len(q) - 1
  BY HeadTailProperties
<1>2. <<Head(q)>> \in Seq(S)
  BY <1>1
<1>3. Len(q) \in Nat \ {0}
  BY EmptySeq
<1>4. q = <<Head(q)>> \o Tail(q)
  <2>1. SubSeq(q, 1, Len(q)) = <<q[1]>> \o SubSeq(q, 1 + 1, Len(q))
    BY <1>3, SubSeqRecursiveFirst
  <2>2. SubSeq(q, 1, Len(q)) = q /\ Tail(q) = SubSeq(q, 2, Len(q)) /\ Head(q) = q[1]
    BY SubSeqFull, TailIsSubSeq
  <2>3. QED
    BY <2>1, <2>2
<1>5. QED
  BY <1>1, <1>2, <1>3, <1>4 DEF Cat
-----------------------------------------------------------------------------
(***************************************************************************)
(* A cycle, register by register: what leaves it and what enters it.       *)
(***************************************************************************)
LeftInput(c, d, offer, take) ==
  IF Pops(c, d, offer, take) THEN <<Head(inq[<<c, d>>])>> ELSE <<>>
LeftOutput(c, d) == IF LeavesOut(c, d) THEN <<Head(outq[<<c, d>>])>> ELSE <<>>
LeftCut(c, d) == IF LeavesCut(c, d) THEN <<Head(cut[<<c, d>>])>> ELSE <<>>
IntoCut(c, d) == IF <<c, d>> \in CutLinks THEN LeftOutput(c, d) ELSE <<>>

AtMostOne(s, S) == s = <<>> \/ \E x \in S : s = <<x>>

\* A register of S that held q holds q2 after `left' has left and `new' entered.
Replaces(q, q2, left, new, S) ==
  \E rest \in Seq(S) : /\ q = Cat(left, rest) /\ q2 = Cat(rest, new)
                       /\ Len(rest) <= Len(q) /\ Len(rest) + Len(left) = Len(q)

LEMMA Popped ==
  ASSUME NEW S, NEW q \in Seq(S), q # <<>>, NEW new
  PROVE  Replaces(q, Tail(q) \o new, <<Head(q)>>, new, S)
<1>1. /\ Tail(q) \in Seq(S) /\ q = Cat(<<Head(q)>>, Tail(q))
      /\ Len(q) \in Nat \ {0} /\ Len(Tail(q)) = Len(q) - 1
  BY HeadApart
<1>2. Len(<<Head(q)>>) = 1
  OBVIOUS
<1>3. Len(Tail(q)) <= Len(q) /\ Len(Tail(q)) + Len(<<Head(q)>>) = Len(q)
  BY <1>1, <1>2
<1>4. Tail(q) \o new = Cat(Tail(q), new)
  BY DEF Cat
<1>5. QED
  BY <1>1, <1>3, <1>4 DEF Replaces

LEMMA NotPopped ==
  ASSUME NEW S, NEW q \in Seq(S), NEW new
  PROVE  Replaces(q, q \o new, <<>>, new, S)
<1>1. q = Cat(<<>>, q)
  BY CatNothing
<1>2. Len(q) \in Nat /\ Len(<<>>) = 0
  BY LenProperties
<1>3. Len(q) <= Len(q) /\ Len(q) + Len(<<>>) = Len(q)
  BY <1>2
<1>4. q \o new = Cat(q, new)
  BY DEF Cat
<1>5. QED
  BY <1>1, <1>3, <1>4 DEF Replaces

LEMMA AtMostOneTyped ==
  ASSUME NEW S, NEW s, AtMostOne(s, S)
  PROVE  s \in Seq(S) /\ Len(s) \in {0, 1} /\ (s # <<>> => Len(s) = 1)
<1>1. CASE s = <<>>
  BY <1>1, EmptySeq
<1>2. ASSUME NEW x \in S, s = <<x>>
      PROVE  s \in Seq(S) /\ Len(s) = 1
  BY <1>2
<1>3. QED
  BY <1>1, <1>2 DEF AtMostOne

LEMMA StaysSmall ==
  ASSUME NEW S, NEW q, NEW q2, NEW left, NEW new, Small(q, S), Replaces(q, q2, left, new, S),
         AtMostOne(new, S), new # <<>> => Len(q) < 2
  PROVE  Small(q2, S)
<1>1. PICK rest \in Seq(S) : q2 = Cat(rest, new) /\ Len(rest) <= Len(q)
  BY DEF Replaces
<1>2. new \in Seq(S) /\ Len(new) \in {0, 1} /\ (new # <<>> => Len(new) = 1)
  BY AtMostOneTyped
<1>3. q2 \in Seq(S) /\ Len(q2) = Len(rest) + Len(new) /\ Len(rest) \in Nat
  BY <1>1, <1>2, ConcatProperties, LenProperties DEF Cat
<1>4. q \in Seq(S) /\ Len(q) <= 2
  BY DEF Small
<1>5. Len(q) \in Nat
  BY <1>4, LenProperties
<1>6. Len(q2) <= 2
  <2>1. CASE new = <<>>
    <3>1. Len(new) = 0
      BY <2>1
    <3>2. \A a, b \in Nat : b <= a /\ a <= 2 => b + 0 <= 2
      OBVIOUS
    <3>3. Len(rest) + 0 <= 2
      BY <3>2, <1>1, <1>3, <1>4, <1>5
    <3>4. QED
      BY <3>1, <3>3, <1>3
  <2>2. CASE new # <<>>
    <3>1. Len(new) = 1 /\ Len(q) < 2
      BY <2>2, <1>2
    <3>2. \A a, b \in Nat : b <= a /\ a < 2 => b + 1 <= 2
      OBVIOUS
    <3>3. Len(rest) + 1 <= 2
      BY <3>1, <3>2, <1>1, <1>3, <1>5
    <3>4. QED
      BY <3>1, <3>3, <1>3
  <2>3. QED
    BY <2>1, <2>2
<1>7. QED
  BY <1>3, <1>6 DEF Small

\* What the wires bring to an input.
LEMMA ArrivingIs ==
  ASSUME NEW c \in Clusters, NEW d
  PROVE  /\ Arriving(c, d) = IF <<Before(c, d), d>> \in CutLinks THEN LeftCut(Before(c, d), d)
                                                                 ELSE LeftOutput(Before(c, d), d)
         /\ Arriving(c, d) # <<>> => HasRoom(inq[<<c, d>>])
<1>1. After(Before(c, d), d) = c
  BY AfterBefore
<1>2. Arriving(c, d) = IF <<Before(c, d), d>> \in CutLinks THEN LeftCut(Before(c, d), d)
                                                           ELSE LeftOutput(Before(c, d), d)
  BY DEF Arriving, LeftCut, LeftOutput
<1>3. Arriving(c, d) # <<>> => HasRoom(inq[<<c, d>>])
  BY <1>1, <1>2 DEF LeftCut, LeftOutput, LeavesCut, LeavesOut
<1>4. QED
  BY <1>2, <1>3

LEMMA NearerInput ==
  ASSUME NEW c \in Clusters, NEW d \in Directions
  PROVE  AtOutput(c, d) \subseteq AtInput(After(c, d), d)
<1> SUFFICES ASSUME NEW pkt \in AtOutput(c, d)
             PROVE  pkt \in AtInput(After(c, d), d)
  OBVIOUS
<1>1. /\ pkt \in Riding(d) /\ pkt.src \in Clusters /\ pkt.dst \in Clusters
      /\ Far(c, pkt.dst, d) <= Far(pkt.src, pkt.dst, d)
  BY DEF AtOutput, Riding
<1>2. Ahead(After(c, d), pkt.dst, d) = Far(c, pkt.dst, d) - 1
  BY <1>1, AfterBefore
<1>3. Far(c, pkt.dst, d) \in 1 .. N /\ Far(pkt.src, pkt.dst, d) \in 1 .. N
  BY <1>1, AheadIs
<1>4. N \in Nat
  BY NIsNat
<1>5. \A x, y \in 1 .. N : x <= y => x - 1 < y
  BY <1>4
<1>6. Ahead(After(c, d), pkt.dst, d) < Far(pkt.src, pkt.dst, d)
  BY <1>1, <1>2, <1>3, <1>5
<1>7. QED
  BY <1>1, <1>6 DEF AtInput

LEMMA LeftTyped ==
  ASSUME RingInv, NEW c \in Clusters, NEW d \in Directions
  PROVE  /\ AtMostOne(LeftOutput(c, d), AtOutput(c, d))
         /\ AtMostOne(LeftCut(c, d), AtOutput(c, d))
         /\ AtMostOne(IntoCut(c, d), AtOutput(c, d))
         /\ IntoCut(c, d) # <<>> => HasRoom(cut[<<c, d>>])
<1>1. outq[<<c, d>>] \in Seq(AtOutput(c, d)) /\ cut[<<c, d>>] \in Seq(AtOutput(c, d))
  BY DEF RingInv, Small
<1>2. AtMostOne(LeftOutput(c, d), AtOutput(c, d))
  <2>1. CASE LeavesOut(c, d)
    <3>1. Head(outq[<<c, d>>]) \in AtOutput(c, d)
      BY <1>1, <2>1, HeadApart DEF LeavesOut
    <3>2. QED
      BY <2>1, <3>1 DEF LeftOutput, AtMostOne
  <2>2. CASE ~LeavesOut(c, d)
    BY <2>2 DEF LeftOutput, AtMostOne
  <2>3. QED
    BY <2>1, <2>2
<1>3. AtMostOne(LeftCut(c, d), AtOutput(c, d))
  <2>1. CASE LeavesCut(c, d)
    <3>1. Head(cut[<<c, d>>]) \in AtOutput(c, d)
      BY <1>1, <2>1, HeadApart DEF LeavesCut
    <3>2. QED
      BY <2>1, <3>1 DEF LeftCut, AtMostOne
  <2>2. CASE ~LeavesCut(c, d)
    BY <2>2 DEF LeftCut, AtMostOne
  <2>3. QED
    BY <2>1, <2>2
<1>4. AtMostOne(IntoCut(c, d), AtOutput(c, d)) /\ (IntoCut(c, d) # <<>> => HasRoom(cut[<<c, d>>]))
  BY <1>2 DEF IntoCut, AtMostOne, LeftOutput, LeavesOut
<1>5. QED
  BY <1>2, <1>3, <1>4

LEMMA ArrivingTyped ==
  ASSUME RingInv, NEW c \in Clusters, NEW d \in Directions
  PROVE  AtMostOne(Arriving(c, d), AtInput(c, d))
<1> DEFINE b == Before(c, d)
<1>1. b \in Clusters /\ After(b, d) = c
  BY NeighboursAre, AfterBefore
<1>2. AtMostOne(Arriving(c, d), AtOutput(b, d))
  BY <1>1, ArrivingIs, LeftTyped
<1>3. AtOutput(b, d) \subseteq AtInput(c, d)
  BY <1>1, NearerInput
<1>4. QED
  BY <1>2, <1>3 DEF AtMostOne

LEMMA EnteringTyped ==
  ASSUME RingInv, NEW c \in Clusters, NEW d \in Directions, NEW offer
  PROVE  /\ AtMostOne(Entering(c, d, offer), AtOutput(c, d))
         /\ Entering(c, d, offer) # <<>> => HasRoom(outq[<<c, d>>])
<1>1. inq[<<c, d>>] \in Seq(AtInput(c, d)) /\ todo[c] \in Seq(Boarding(c))
  BY DEF RingInv, Small
<1>2. ASSUME Passing(c, d)
      PROVE  Head(inq[<<c, d>>]) \in AtOutput(c, d)
  <2> DEFINE pkt == Head(inq[<<c, d>>])
  <2>1. pkt \in AtInput(c, d) /\ pkt.dst # c
    BY <1>1, <1>2, HeadApart DEF Passing
  <2> HIDE DEF pkt
  <2>2. pkt \in Riding(d) /\ pkt.dst \in Clusters /\ Ahead(c, pkt.dst, d) < Far(pkt.src, pkt.dst, d)
        /\ pkt.src \in Clusters
    BY <2>1 DEF AtInput, Riding
  <2>3. Ahead(c, pkt.dst, d) # 0
    <3>1. \A x \in Clusters : Ahead(c, x, d) = 0 => x = c
      <4> SUFFICES ASSUME NEW x \in Clusters, Ahead(c, x, d) = 0
                   PROVE  x = c
        OBVIOUS
      <4>1. Ahead(c, x, d) = IF d = "right" THEN IF c <= x THEN x - c ELSE x + N - c
                                            ELSE IF x <= c THEN c - x ELSE c + N - x
        BY AheadIs
      <4>2. N \in Nat /\ c \in 0 .. N - 1 /\ x \in 0 .. N - 1
        BY NIsNat DEF Clusters
      <4>3. QED
        BY <4>1, <4>2
    <3>2. QED
      BY <2>1, <2>2, <3>1
  <2>4. Far(c, pkt.dst, d) = Ahead(c, pkt.dst, d)
    BY <2>3 DEF Far
  <2>5. Far(c, pkt.dst, d) <= Far(pkt.src, pkt.dst, d)
    <3>1. Far(c, pkt.dst, d) \in 1 .. N /\ Far(pkt.src, pkt.dst, d) \in 1 .. N
      BY <2>2, AheadIs
    <3>2. \A x, y \in 1 .. N : x < y => x <= y
      BY NIsNat
    <3>3. QED
      BY <2>2, <2>4, <3>1, <3>2
  <2>6. pkt \in AtOutput(c, d)
    BY <2>2, <2>5 DEF AtOutput
  <2>7. QED
    BY <2>6 DEF pkt
<1>3. ASSUME Joining(c, d, offer)
      PROVE  Head(todo[c]) \in AtOutput(c, d)
  <2> DEFINE pkt == Head(todo[c])
  <2>1. pkt \in Boarding(c) /\ FindRingDir(c, pkt.dst) = d
    BY <1>1, <1>3, HeadApart DEF Joining
  <2> HIDE DEF pkt
  <2>2. pkt \in Packets /\ pkt.src = c /\ pkt.dst \in Clusters
    BY <2>1 DEF Boarding
  <2>3. pkt \in Riding(d)
    BY <2>1, <2>2 DEF Riding
  <2>4. Far(c, pkt.dst, d) <= Far(pkt.src, pkt.dst, d)
    <3>1. Far(c, pkt.dst, d) \in 1 .. N
      BY <2>2, AheadIs
    <3>2. \A x \in 1 .. N : x <= x
      BY NIsNat
    <3>3. QED
      BY <2>2, <3>1, <3>2
  <2>5. pkt \in AtOutput(c, d)
    BY <2>3, <2>4 DEF AtOutput
  <2>6. QED
    BY <2>5 DEF pkt
<1>4. QED
  BY <1>2, <1>3 DEF Entering, AtMostOne

\* Each register in a cycle.
Moves(offer, take) ==
  \A c \in Clusters, d \in Directions :
    /\ Replaces(inq[<<c, d>>], inq'[<<c, d>>], LeftInput(c, d, offer, take), Arriving(c, d),
                AtInput(c, d))
    /\ Replaces(outq[<<c, d>>], outq'[<<c, d>>], LeftOutput(c, d), Entering(c, d, offer),
                AtOutput(c, d))
    /\ Replaces(cut[<<c, d>>], cut'[<<c, d>>], LeftCut(c, d), IntoCut(c, d), AtOutput(c, d))

LEMMA CycleMoves ==
  ASSUME RingInv, NEW offer, NEW take, Cycle(offer, take)
  PROVE  Moves(offer, take)
<1> SUFFICES ASSUME NEW c \in Clusters, NEW d \in Directions
             PROVE  /\ Replaces(inq[<<c, d>>], inq'[<<c, d>>], LeftInput(c, d, offer, take),
                                Arriving(c, d), AtInput(c, d))
                    /\ Replaces(outq[<<c, d>>], outq'[<<c, d>>], LeftOutput(c, d),
                                Entering(c, d, offer), AtOutput(c, d))
                    /\ Replaces(cut[<<c, d>>], cut'[<<c, d>>], LeftCut(c, d), IntoCut(c, d),
                                AtOutput(c, d))
  BY DEF Moves
<1> DEFINE l == <<c, d>>
<1>1. l \in Links /\ l[1] = c /\ l[2] = d
  BY LinkIs
<1>2. /\ inq[l] \in Seq(AtInput(c, d)) /\ outq[l] \in Seq(AtOutput(c, d))
      /\ cut[l] \in Seq(AtOutput(c, d))
  BY DEF RingInv, Small
<1> HIDE DEF l
<1>3. inq'[l] = Shifted(inq[l], Pops(c, d, offer, take), Arriving(c, d))
  BY <1>1 DEF Cycle
<1>4. outq'[l] = Shifted(outq[l], LeavesOut(c, d), Entering(c, d, offer))
  BY <1>1 DEF Cycle
<1>5. cut'[l] = Shifted(cut[l], LeavesCut(c, d), IntoCut(c, d))
  <2>1. cut'[l] = Shifted(cut[l], LeavesCut(c, d),
                     IF l \in CutLinks /\ LeavesOut(c, d) THEN <<Head(outq[l])>> ELSE <<>>)
    BY <1>1 DEF Cycle
  <2>2. (IF l \in CutLinks /\ LeavesOut(c, d) THEN <<Head(outq[l])>> ELSE <<>>) = IntoCut(c, d)
    BY DEF IntoCut, LeftOutput, l
  <2>3. QED
    BY <2>1, <2>2
<1>6. Replaces(inq[l], inq'[l], LeftInput(c, d, offer, take), Arriving(c, d), AtInput(c, d))
  <2>1. CASE Pops(c, d, offer, take)
    <3>1. inq'[l] = Tail(inq[l]) \o Arriving(c, d)
      BY <1>3, <2>1 DEF Shifted
    <3>2. inq[l] # <<>> /\ LeftInput(c, d, offer, take) = <<Head(inq[l])>>
      BY <2>1 DEF Pops, LeftInput, l
    <3>3. QED
      BY <1>2, <3>1, <3>2, Popped
  <2>2. CASE ~Pops(c, d, offer, take)
    <3>1. inq'[l] = inq[l] \o Arriving(c, d)
      BY <1>3, <2>2 DEF Shifted
    <3>2. LeftInput(c, d, offer, take) = <<>>
      BY <2>2 DEF LeftInput
    <3>3. QED
      BY <1>2, <3>1, <3>2, NotPopped
  <2>3. QED
    BY <2>1, <2>2
<1>7. Replaces(outq[l], outq'[l], LeftOutput(c, d), Entering(c, d, offer), AtOutput(c, d))
  <2>1. CASE LeavesOut(c, d)
    <3>1. outq'[l] = Tail(outq[l]) \o Entering(c, d, offer)
      BY <1>4, <2>1 DEF Shifted
    <3>2. outq[l] # <<>> /\ LeftOutput(c, d) = <<Head(outq[l])>>
      BY <2>1 DEF LeavesOut, LeftOutput, l
    <3>3. QED
      BY <1>2, <3>1, <3>2, Popped
  <2>2. CASE ~LeavesOut(c, d)
    <3>1. outq'[l] = outq[l] \o Entering(c, d, offer)
      BY <1>4, <2>2 DEF Shifted
    <3>2. LeftOutput(c, d) = <<>>
      BY <2>2 DEF LeftOutput
    <3>3. QED
      BY <1>2, <3>1, <3>2, NotPopped
  <2>3. QED
    BY <2>1, <2>2
<1>8. Replaces(cut[l], cut'[l], LeftCut(c, d), IntoCut(c, d), AtOutput(c, d))
  <2>1. CASE LeavesCut(c, d)
    <3>1. cut'[l] = Tail(cut[l]) \o IntoCut(c, d)
      BY <1>5, <2>1 DEF Shifted
    <3>2. cut[l] # <<>> /\ LeftCut(c, d) = <<Head(cut[l])>>
      BY <2>1 DEF LeavesCut, LeftCut, l
    <3>3. QED
      BY <1>2, <3>1, <3>2, Popped
  <2>2. CASE ~LeavesCut(c, d)
    <3>1. cut'[l] = cut[l] \o IntoCut(c, d)
      BY <1>5, <2>2 DEF Shifted
    <3>2. LeftCut(c, d) = <<>>
      BY <2>2 DEF LeftCut
    <3>3. QED
      BY <1>2, <3>1, <3>2, NotPopped
  <2>3. QED
    BY <2>1, <2>2
<1>9. QED
  BY <1>6, <1>7, <1>8 DEF l

\* What the slide units still have to send.
LEMMA CycleSends ==
  ASSUME RingInv, NEW offer, NEW take, Cycle(offer, take)
  PROVE  /\ DOMAIN todo' = Clusters
         /\ \A c \in Clusters : /\ todo'[c] = IF Accepted(c, offer) THEN Tail(todo[c]) ELSE todo[c]
                                /\ Accepted(c, offer) => todo[c] # <<>>
                                /\ todo'[c] \in Seq(Boarding(c))
<1>1. todo' = [c \in Clusters |-> IF Accepted(c, offer) THEN Tail(todo[c]) ELSE todo[c]]
  BY DEF Cycle
<1>2. \A c \in Clusters : Accepted(c, offer) => todo[c] # <<>>
  BY DEF Accepted, JoiningReady, Joining
<1>3. \A c \in Clusters : todo[c] \in Seq(Boarding(c))
  BY DEF RingInv
<1>4. \A c \in Clusters : todo[c] # <<>> => Tail(todo[c]) \in Seq(Boarding(c))
  BY <1>3, HeadApart
<1>5. QED
  BY <1>1, <1>2, <1>3, <1>4

LEMMA RingCycle ==
  ASSUME RingInv, NEW offer, NEW take, Cycle(offer, take)
  PROVE  RingInv'
<1>1. Moves(offer, take)
  BY CycleMoves
<1>2. ASSUME NEW c \in Clusters, NEW d \in Directions
      PROVE  /\ Small(inq'[<<c, d>>], AtInput(c, d))
             /\ Small(outq'[<<c, d>>], AtOutput(c, d))
             /\ Small(cut'[<<c, d>>], AtOutput(c, d))
  <2>1. /\ Small(inq[<<c, d>>], AtInput(c, d)) /\ Small(outq[<<c, d>>], AtOutput(c, d))
        /\ Small(cut[<<c, d>>], AtOutput(c, d))
    BY DEF RingInv
  <2>2. /\ AtMostOne(Arriving(c, d), AtInput(c, d))
        /\ Arriving(c, d) # <<>> => Len(inq[<<c, d>>]) < 2
    BY ArrivingTyped, ArrivingIs DEF HasRoom
  <2>3. /\ AtMostOne(Entering(c, d, offer), AtOutput(c, d))
        /\ Entering(c, d, offer) # <<>> => Len(outq[<<c, d>>]) < 2
    BY EnteringTyped DEF HasRoom
  <2>4. /\ AtMostOne(IntoCut(c, d), AtOutput(c, d))
        /\ IntoCut(c, d) # <<>> => Len(cut[<<c, d>>]) < 2
    BY LeftTyped DEF HasRoom
  <2>5. /\ Replaces(inq[<<c, d>>], inq'[<<c, d>>], LeftInput(c, d, offer, take), Arriving(c, d),
                    AtInput(c, d))
        /\ Replaces(outq[<<c, d>>], outq'[<<c, d>>], LeftOutput(c, d), Entering(c, d, offer),
                    AtOutput(c, d))
        /\ Replaces(cut[<<c, d>>], cut'[<<c, d>>], LeftCut(c, d), IntoCut(c, d), AtOutput(c, d))
    BY <1>1 DEF Moves
  <2>6. Small(inq'[<<c, d>>], AtInput(c, d))
    BY <2>1, <2>2, <2>5, StaysSmall
  <2>7. Small(outq'[<<c, d>>], AtOutput(c, d))
    BY <2>1, <2>3, <2>5, StaysSmall
  <2>8. Small(cut'[<<c, d>>], AtOutput(c, d))
    BY <2>1, <2>4, <2>5, StaysSmall
  <2>9. QED
    BY <2>6, <2>7, <2>8
<1>3. ASSUME NEW c \in Clusters, NEW d \in Directions, <<c, d>> \notin CutLinks
      PROVE  cut'[<<c, d>>] = <<>>
  <2>1. cut[<<c, d>>] = <<>>
    BY <1>3 DEF RingInv
  <2>2. cut'[<<c, d>>] = Shifted(<<>>, LeavesCut(c, d), IntoCut(c, d))
    <3>1. cut'[<<c, d>>] = Shifted(cut[<<c, d>>], LeavesCut(c, d),
            IF <<c, d>> \in CutLinks /\ LeavesOut(c, d) THEN <<Head(outq[<<c, d>>])>> ELSE <<>>)
      BY LinkIs DEF Cycle
    <3>2. QED
      BY <1>3, <2>1, <3>1 DEF IntoCut
  <2>3. ~LeavesCut(c, d) /\ IntoCut(c, d) = <<>>
    BY <1>3, <2>1 DEF LeavesCut, IntoCut
  <2>4. <<>> \o <<>> = <<>>
    OBVIOUS
  <2>5. QED
    BY <2>2, <2>3, <2>4 DEF Shifted
<1>4. turn' \in [Links -> BOOLEAN]
  <2>1. \A c \in Clusters, d \in Directions : NextTurn(c, d, offer) \in BOOLEAN
    BY LinkIs DEF NextTurn, RingInv
  <2>2. \A l \in Links : l[1] \in Clusters /\ l[2] \in Directions
    BY DEF Links
  <2>3. turn' = [l \in Links |-> NextTurn(l[1], l[2], offer)]
    BY DEF Cycle
  <2>4. QED
    BY <2>1, <2>2, <2>3
<1>5. turnUp' \in [Clusters -> Directions]
  <2>1. \A c \in Clusters : NextTurnUp(c, take) \in Directions
    BY DEF NextTurnUp, RingInv, Directions
  <2>2. turnUp' = [c \in Clusters |-> NextTurnUp(c, take)]
    BY DEF Cycle
  <2>3. QED
    BY <2>1, <2>2
<1>6. arrived' \in [Pairs -> Nat]
  <2>1. \A p \in Pairs : arrived[p] + 1 \in Nat /\ arrived[p] + 0 \in Nat
    BY DEF RingInv
  <2>2. QED
    BY <2>1 DEF Cycle
<1>7. DOMAIN todo' = Clusters /\ \A c \in Clusters : todo'[c] \in Seq(Boarding(c))
  BY CycleSends
<1>8. QED
  BY <1>2, <1>3, <1>4, <1>5, <1>6, <1>7 DEF RingInv

LEMMA RingStays == RingInv /\ [Next]_vars => RingInv'
<1> SUFFICES ASSUME RingInv, [Next]_vars
             PROVE  RingInv'
  OBVIOUS
<1>1. CASE UNCHANGED vars
  BY <1>1 DEF vars, RingInv
<1>2. CASE \E offer \in Offerings, take \in Takings : Cycle(offer, take)
  BY <1>2, RingCycle
<1>3. QED
  BY <1>1, <1>2 DEF Next

\* Every register has at most two entries, all of them packets.
THEOREM RingTypeCorrect == Spec => []TypeOK
<1>1. Spec => []RingInv
  BY RingInitially, RingStays, PTL DEF Spec
<1>2. QED
  BY <1>1, InvGivesTypes, PTL
-----------------------------------------------------------------------------
(***************************************************************************)
(* The packets of one channel in a register.                               *)
(***************************************************************************)
Mine(p, pkt) == pkt.src = p[1] /\ pkt.dst = p[2]
OneOf(p, q, i) == IF i <= Len(q) /\ Mine(p, q[i]) THEN <<q[i]>> ELSE <<>>

LEMMA OfIs ==
  ASSUME NEW p, NEW q
  PROVE  Of(p, q) = Cat(OneOf(p, q, 1), OneOf(p, q, 2))
BY DEF Of, Cat, OneOf, Mine

LEMMA TwoApart ==
  ASSUME NEW S, NEW x \in S, NEW y \in S
  PROVE  Cat(<<x>>, <<y>>) = <<x, y>>
<1> DEFINE c == <<x>> \o <<y>>
           t == <<x, y>>
<1>1. <<x>> \in Seq(S) /\ <<y>> \in Seq(S) /\ t \in Seq(S) /\ Len(t) = 2
      /\ Len(<<x>>) = 1 /\ Len(<<y>>) = 1 /\ t[1] = x /\ t[2] = y
  OBVIOUS
<1>2. /\ c \in Seq(S) /\ Len(c) = 1 + 1
      /\ \A i \in 1 .. 1 + 1 : c[i] = IF i <= 1 THEN <<x>>[i] ELSE <<y>>[i - 1]
  BY <1>1, ConcatProperties
<1>3. c[1] = x /\ c[2] = y
  <2> HIDE DEF c
  <2>1. c[1] = <<x>>[1] /\ c[2] = <<y>>[2 - 1]
    BY <1>2
  <2>2. QED
    BY <2>1
<1>4. c = t
  <2> HIDE DEF c, t
  <2>1. Len(c) = Len(t) /\ \A i \in 1 .. Len(c) : c[i] = t[i]
    BY <1>1, <1>2, <1>3
  <2>2. QED
    BY <1>1, <1>2, <2>1, SeqEqual
<1>5. QED
  BY <1>4 DEF Cat

LEMMA OneOfTyped ==
  ASSUME NEW S, NEW p, NEW q \in Seq(S), NEW i \in Nat \ {0}
  PROVE  OneOf(p, q, i) \in Seq(S)
<1>1. CASE i <= Len(q) /\ Mine(p, q[i])
  <2>1. i \in 1 .. Len(q)
    BY <1>1, LenProperties
  <2>2. q[i] \in S
    BY <2>1, ElementOfSeq
  <2>3. QED
    BY <1>1, <2>2 DEF OneOf
<1>2. CASE ~(i <= Len(q) /\ Mine(p, q[i]))
  BY <1>2, EmptySeq DEF OneOf
<1>3. QED
  BY <1>1, <1>2

LEMMA OfTyped ==
  ASSUME NEW S, NEW p, NEW q \in Seq(S)
  PROVE  Of(p, q) \in Seq(S)
<1>1. OneOf(p, q, 1) \in Seq(S) /\ OneOf(p, q, 2) \in Seq(S)
  BY OneOfTyped
<1>2. QED
  BY <1>1, OfIs, CatTyped

LEMMA OfNothing ==
  ASSUME NEW p
  PROVE  Of(p, <<>>) = <<>>
<1>1. OneOf(p, <<>>, 1) = <<>> /\ OneOf(p, <<>>, 2) = <<>>
  BY DEF OneOf
<1>2. <<>> \o <<>> = <<>>
  OBVIOUS
<1>3. QED
  BY <1>1, <1>2, OfIs DEF Cat

LEMMA OfOne ==
  ASSUME NEW p, NEW x
  PROVE  Of(p, <<x>>) = IF Mine(p, x) THEN <<x>> ELSE <<>>
<1>1. OneOf(p, <<x>>, 1) = IF Mine(p, x) THEN <<x>> ELSE <<>>
  BY DEF OneOf
<1>2. OneOf(p, <<x>>, 2) = <<>>
  BY DEF OneOf
<1>3. <<>> \o <<>> = <<>> /\ <<x>> \o <<>> = <<x>>
  OBVIOUS
<1>4. QED
  BY <1>1, <1>2, <1>3, OfIs DEF Cat

\* In a register nothing can be hidden behind the second entry.
LEMMA OfCat ==
  ASSUME NEW S, NEW p, NEW q \in Seq(S), NEW r \in Seq(S), Len(q) + Len(r) <= 2
  PROVE  Of(p, Cat(q, r)) = Cat(Of(p, q), Of(p, r))
<1>1. Len(q) \in Nat /\ Len(r) \in Nat
  BY LenProperties
<1>2. CASE q = <<>>
  <2>1. Of(p, q) = <<>> /\ Cat(q, r) = r /\ Of(p, r) \in Seq(S)
    BY <1>2, OfNothing, CatNothing, OfTyped
  <2>2. QED
    BY <2>1, CatNothing
<1>3. CASE r = <<>>
  <2>1. Of(p, r) = <<>> /\ Cat(q, r) = q /\ Of(p, q) \in Seq(S)
    BY <1>3, OfNothing, CatNothing, OfTyped
  <2>2. QED
    BY <2>1, CatNothing
<1>4. CASE q # <<>> /\ r # <<>>
  <2>1. Len(q) # 0 /\ Len(r) # 0
    BY <1>4, EmptySeq
  <2>2. Len(q) = 1 /\ Len(r) = 1
    <3>1. \A a, b \in Nat : a # 0 /\ b # 0 /\ a + b <= 2 => a = 1 /\ b = 1
      OBVIOUS
    <3>2. QED
      BY <1>1, <2>1, <3>1
  <2>3. PICK x \in S : q = <<x>>
    BY <2>2
  <2>4. PICK y \in S : r = <<y>>
    BY <2>2
  <2>5. Cat(q, r) = <<x, y>>
    BY <2>3, <2>4, TwoApart
  <2>6. /\ OneOf(p, <<x, y>>, 1) = IF Mine(p, x) THEN <<x>> ELSE <<>>
        /\ OneOf(p, <<x, y>>, 2) = IF Mine(p, y) THEN <<y>> ELSE <<>>
    BY DEF OneOf
  <2>7. Of(p, q) = (IF Mine(p, x) THEN <<x>> ELSE <<>>) /\ Of(p, r) = IF Mine(p, y) THEN <<y>> ELSE <<>>
    BY <2>3, <2>4, OfOne
  <2>8. QED
    BY <2>5, <2>6, <2>7, OfIs
<1>5. QED
  BY <1>2, <1>3, <1>4

LEMMA OfStrangers ==
  ASSUME NEW S, NEW p, NEW q \in Seq(S), \A x \in S : ~Mine(p, x)
  PROVE  Of(p, q) = <<>>
<1>1. ASSUME NEW i \in {1, 2}
      PROVE  OneOf(p, q, i) = <<>>
  <2>1. i <= Len(q) => i \in 1 .. Len(q)
    BY LenProperties
  <2>2. i <= Len(q) => q[i] \in S
    BY <2>1, ElementOfSeq
  <2>3. QED
    BY <2>2 DEF OneOf
<1>2. <<>> \o <<>> = <<>>
  OBVIOUS
<1>3. QED
  BY <1>1, <1>2, OfIs DEF Cat

\* The packets of p leave and enter a register as all packets do.
OfMoves(p, q, q2, left, new, S) ==
  \E rest \in Seq(S) : Of(p, q) = Cat(Of(p, left), rest) /\ Of(p, q2) = Cat(rest, Of(p, new))

LEMMA OfReplaces ==
  ASSUME NEW S, NEW p, NEW q, NEW q2, NEW left, NEW new, Small(q, S), Small(q2, S),
         Replaces(q, q2, left, new, S), AtMostOne(left, S), AtMostOne(new, S)
  PROVE  OfMoves(p, q, q2, left, new, S)
<1>1. PICK r \in Seq(S) : q = Cat(left, r) /\ q2 = Cat(r, new)
  BY DEF Replaces
<1>2. left \in Seq(S) /\ new \in Seq(S)
  BY AtMostOneTyped
<1>3. Len(left) + Len(r) <= 2
  <2>1. Len(q) = Len(left) + Len(r)
    BY <1>1, <1>2, ConcatProperties DEF Cat
  <2>2. QED
    BY <2>1 DEF Small
<1>4. Len(r) + Len(new) <= 2
  <2>1. Len(q2) = Len(r) + Len(new)
    BY <1>1, <1>2, ConcatProperties DEF Cat
  <2>2. QED
    BY <2>1 DEF Small
<1>5. Of(p, q) = Cat(Of(p, left), Of(p, r))
  BY <1>1, <1>2, <1>3, OfCat
<1>6. Of(p, q2) = Cat(Of(p, r), Of(p, new))
  BY <1>1, <1>2, <1>4, OfCat
<1>7. Of(p, r) \in Seq(S)
  BY OfTyped
<1>8. QED
  BY <1>5, <1>6, <1>7 DEF OfMoves
-----------------------------------------------------------------------------
(***************************************************************************)
(* The way of the packets of a channel in a cycle, hop by hop.             *)
(***************************************************************************)
Hop(p, k) == Cat(Cat(Of(p, inq[<<Back(p, k - 1), Way(p)>>]), Of(p, cut[<<Back(p, k), Way(p)>>])),
                 Of(p, outq[<<Back(p, k), Way(p)>>]))
Length(p) == Far(p[1], p[2], Way(p))

LEMMA OnTheWayIs ==
  ASSUME NEW p
  PROVE  /\ OnTheWay(p) = FlattenSeq([k \in 1 .. N |-> Hop(p, k)])
         /\ OnTheWay(p)' = FlattenSeq([k \in 1 .. N |-> Hop(p, k)'])
<1>1. OnTheWay(p) = FlattenSeq([k \in 1 .. N |-> Hop(p, k)])
  BY DEF OnTheWay, Hop, Cat, Way
<1>2. OnTheWay(p)' = FlattenSeq([k \in 1 .. N |-> Hop(p, k)'])
  BY DEF OnTheWay, Hop, Cat, Way
<1>3. QED
  BY <1>1, <1>2

\* What the slide unit sends into the channel of p in this cycle.
SentNow(p, offer) ==
  IF Accepted(p[1], offer) /\ Mine(p, Head(todo[p[1]])) THEN <<Head(todo[p[1]])>> ELSE <<>>

\* What leaves the k-th hop for the one before it; beyond the source, what
\* is about to be sent.
LeftHop(p, k, offer, take) ==
  IF k <= Length(p) THEN Of(p, LeftInput(Back(p, k - 1), Way(p), offer, take))
                    ELSE SentNow(p, offer)

LEMMA HomeIsThere ==
  ASSUME NEW c, NEW take, SlduReady(c, take)
  PROVE  HomeSelected(c) \in Directions /\ AtHome(c, HomeSelected(c))
BY DEF SlduReady, HomeSelected, Directions

\* Who goes through from the input to the output.
Through(c, d, offer) ==
  HasRoom(outq[<<c, d>>]) /\ Passing(c, d) /\ PassingSelected(c, d, offer)

\* A packet for another cluster is taken from an input when it enters the output.
LEMMA PoppedIsThrough ==
  ASSUME NEW p, NEW c, c # p[2], NEW d, NEW offer, NEW take
  PROVE  Of(p, LeftInput(c, d, offer, take)) =
           IF Through(c, d, offer) THEN Of(p, <<Head(inq[<<c, d>>])>>) ELSE <<>>
<1>1. CASE Through(c, d, offer)
  <2>1. Pops(c, d, offer, take)
    BY <1>1 DEF Through, Pops, InReady, PassingReady, Passing
  <2>2. QED
    BY <1>1, <2>1 DEF LeftInput
<1>2. CASE ~Through(c, d, offer)
  <2>1. CASE Pops(c, d, offer, take)
    <3>1. SlduReady(c, take) /\ HomeSelected(c) = d
      BY <1>2, <2>1 DEF Through, Pops, InReady, PassingReady
    <3>2. AtHome(c, d)
      BY <3>1, HomeIsThere
    <3>3. ~Mine(p, Head(inq[<<c, d>>]))
      BY <3>2 DEF AtHome, Mine
    <3>4. LeftInput(c, d, offer, take) = <<Head(inq[<<c, d>>])>>
      BY <2>1 DEF LeftInput
    <3>5. QED
      BY <1>2, <3>3, <3>4, OfOne
  <2>2. CASE ~Pops(c, d, offer, take)
    BY <1>2, <2>2, OfNothing DEF LeftInput
  <2>3. QED
    BY <2>1, <2>2
<1>3. QED
  BY <1>1, <1>2

\* Away from the source, only packets that pass enter an output.
LEMMA EnteredAway ==
  ASSUME RingInv, NEW p, NEW c \in Clusters, c # p[1], NEW d, NEW offer
  PROVE  Of(p, Entering(c, d, offer)) =
           IF Through(c, d, offer) THEN Of(p, <<Head(inq[<<c, d>>])>>) ELSE <<>>
<1>1. CASE Through(c, d, offer)
  BY <1>1 DEF Through, Entering
<1>2. CASE ~Through(c, d, offer)
  <2>1. Entering(c, d, offer) = <<>> \/ (Joining(c, d, offer) /\ Entering(c, d, offer) = <<Head(todo[c])>>)
    BY <1>2 DEF Through, Entering
  <2>2. ASSUME Joining(c, d, offer)
        PROVE  ~Mine(p, Head(todo[c]))
    <3>1. todo[c] # <<>> /\ todo[c] \in Seq(Boarding(c))
      BY <2>2 DEF Joining, RingInv
    <3>2. Head(todo[c]) \in Boarding(c)
      BY <3>1, HeadApart
    <3>3. QED
      BY <3>2 DEF Boarding, Mine
  <2>3. QED
    BY <1>2, <2>1, <2>2, OfNothing, OfOne
<1>3. QED
  BY <1>1, <1>2

\* At the source, only the slide unit's own packets do.
LEMMA EnteredAtSource ==
  ASSUME RingInv, NEW p \in Pairs, NEW offer
  PROVE  Of(p, Entering(p[1], Way(p), offer)) = SentNow(p, offer)
<1> DEFINE c == p[1]
           d == Way(p)
<1>1. c \in Clusters /\ d \in Directions /\ p[2] \in Clusters
  BY DirectionsTwo DEF Pairs, Way
<1>2. ASSUME Passing(c, d)
      PROVE  ~Mine(p, Head(inq[<<c, d>>]))
  <2>1. inq[<<c, d>>] # <<>> /\ inq[<<c, d>>] \in Seq(AtInput(c, d))
    BY <1>1, <1>2 DEF Passing, RingInv, Small
  <2>2. Head(inq[<<c, d>>]) \in AtInput(c, d) /\ Head(inq[<<c, d>>]).dst # c
    BY <1>2, <2>1, HeadApart DEF Passing
  <2>3. SUFFICES ASSUME Mine(p, Head(inq[<<c, d>>]))
                 PROVE  FALSE
    OBVIOUS
  <2>4. Ahead(c, p[2], d) < Far(c, p[2], d) /\ p[2] # c
    BY <2>2, <2>3 DEF AtInput, Mine
  <2>5. Ahead(c, p[2], d) = IF d = "right" THEN IF c <= p[2] THEN p[2] - c ELSE p[2] + N - c
                                           ELSE IF p[2] <= c THEN c - p[2] ELSE c + N - p[2]
    BY <1>1, AheadIs
  <2>6. Ahead(c, p[2], d) # 0
    <3>1. \A x, y \in 0 .. N - 1 : x # y =>
            (IF d = "right" THEN IF x <= y THEN y - x ELSE y + N - x
                            ELSE IF y <= x THEN x - y ELSE x + N - y) # 0
      BY NIsNat
    <3>2. QED
      BY <1>1, <2>4, <2>5, <3>1 DEF Clusters
  <2>7. Far(c, p[2], d) = Ahead(c, p[2], d) /\ Far(c, p[2], d) \in 1 .. N
    BY <1>1, <2>6, AheadIs DEF Far
  <2>8. \A x \in 1 .. N : ~(x < x)
    BY NIsNat
  <2>9. QED
    BY <2>4, <2>7, <2>8
<1>3. ASSUME todo[c] # <<>>
      PROVE  Head(todo[c]).src = c
  <2>1. Head(todo[c]) \in Boarding(c)
    BY <1>1, <1>3, HeadApart DEF RingInv
  <2>2. QED
    BY <2>1 DEF Boarding
<1>4. JoiningReady(c, d, offer) <=>
        HasRoom(outq[<<c, d>>]) /\ ~(Passing(c, d) /\ PassingSelected(c, d, offer)) /\ Joining(c, d, offer)
  BY DEF JoiningReady, PassingSelected
<1>5. \A e : Joining(c, e, offer) /\ Mine(p, Head(todo[c])) => e = d
  BY DEF Joining, Mine, Way
<1>6. Mine(p, Head(todo[c])) => (Accepted(c, offer) <=> JoiningReady(c, d, offer))
  BY <1>1, <1>5 DEF Accepted, JoiningReady
<1>7. CASE Passing(c, d) /\ PassingSelected(c, d, offer) /\ HasRoom(outq[<<c, d>>])
  <2>1. Entering(c, d, offer) = <<Head(inq[<<c, d>>])>> /\ ~JoiningReady(c, d, offer)
    BY <1>4, <1>7 DEF Entering
  <2>2. Of(p, Entering(c, d, offer)) = <<>>
    BY <1>2, <1>7, <2>1, OfOne
  <2>3. SentNow(p, offer) = <<>>
    BY <1>6, <2>1 DEF SentNow
  <2>4. QED
    BY <2>2, <2>3
<1>8. CASE JoiningReady(c, d, offer)
  <2>1. Entering(c, d, offer) = <<Head(todo[c])>>
    BY <1>4, <1>8 DEF Entering
  <2>2. Of(p, Entering(c, d, offer)) = IF Mine(p, Head(todo[c])) THEN <<Head(todo[c])>> ELSE <<>>
    BY <2>1, OfOne
  <2>3. QED
    BY <1>6, <1>8, <2>2 DEF SentNow
<1>9. CASE ~JoiningReady(c, d, offer)
           /\ ~(Passing(c, d) /\ PassingSelected(c, d, offer) /\ HasRoom(outq[<<c, d>>]))
  <2>1. Entering(c, d, offer) = <<>>
    BY <1>4, <1>9 DEF Entering
  <2>2. SentNow(p, offer) = <<>>
    BY <1>6, <1>9 DEF SentNow
  <2>3. QED
    BY <2>1, <2>2, OfNothing
<1>10. QED
  BY <1>7, <1>8, <1>9

\* At the destination, a packet of p leaves the input when the slide unit takes it.
TakenNow(p, take) ==
  SlduReady(p[2], take) /\ Head(inq[<<p[2], HomeSelected(p[2])>>]).src = p[1]

LEMMA TakenAtHome ==
  ASSUME RingInv, NEW p \in Pairs, NEW offer, NEW take
  PROVE  Of(p, LeftInput(p[2], Way(p), offer, take)) =
           IF TakenNow(p, take) THEN <<Head(inq[<<p[2], Way(p)>>])>> ELSE <<>>
<1> DEFINE c == p[2]
           d == Way(p)
<1>1. c \in Clusters /\ d \in Directions
  BY DirectionsTwo DEF Pairs, Way
<1>2. CASE TakenNow(p, take)
  <2> DEFINE h == HomeSelected(c)
  <2>1. h \in Directions /\ AtHome(c, h) /\ SlduReady(c, take) /\ Head(inq[<<c, h>>]).src = p[1]
    BY <1>2, HomeIsThere DEF TakenNow
  <2> HIDE DEF h
  <2>2. Head(inq[<<c, h>>]) \in AtInput(c, h)
    BY <1>1, <2>1, HeadApart DEF AtHome, RingInv, Small
  <2>3. h = d
    BY <2>1, <2>2 DEF AtInput, Riding, AtHome, Way
  <2>4. Pops(c, d, offer, take) /\ Mine(p, Head(inq[<<c, d>>]))
    BY <2>1, <2>3 DEF Pops, InReady, AtHome, Mine, h
  <2>5. QED
    BY <1>2, <2>4, OfOne DEF LeftInput
<1>3. CASE ~TakenNow(p, take)
  <2>1. ASSUME Pops(c, d, offer, take)
        PROVE  ~Mine(p, Head(inq[<<c, d>>]))
    BY <1>3, <2>1 DEF Pops, InReady, Passing, Mine, TakenNow
  <2>2. QED
    BY <1>3, <2>1, OfOne, OfNothing DEF LeftInput
<1>4. QED
  BY <1>2, <1>3

\* Between two routers, with a register on the wires and without one.
ThroughCut(a, r1, b, r2, c, r3, e) ==
  Cat(a, Cat(Cat(Cat(r1, b), Cat(r2, c)), Cat(r3, e)))
    = Cat(Cat(Cat(Cat(a, r1), Cat(b, r2)), Cat(c, r3)), e)
ThroughWire(a, r1, c, r3, e) ==
  Cat(a, Cat(Cat(Cat(r1, c), <<>>), Cat(r3, e))) = Cat(Cat(Cat(Cat(a, r1), <<>>), Cat(c, r3)), e)

LEMMA CatsThroughWire ==
  ASSUME NEW S, NEW a \in Seq(S), NEW r1 \in Seq(S), NEW c \in Seq(S), NEW r3 \in Seq(S),
         NEW e \in Seq(S)
  PROVE  ThroughWire(a, r1, c, r3, e)
<1>1. Cat(r1, c) \in Seq(S) /\ Cat(a, r1) \in Seq(S) /\ Cat(r3, e) \in Seq(S) /\ Cat(c, r3) \in Seq(S)
  BY CatTyped
<1>2. Cat(Cat(r1, c), <<>>) = Cat(r1, c) /\ Cat(Cat(a, r1), <<>>) = Cat(a, r1)
  BY <1>1, CatNothing
<1>3. Cat(Cat(r1, c), Cat(r3, e)) = Cat(r1, Cat(c, Cat(r3, e)))
  BY <1>1, CatAssociative
<1>4. Cat(c, Cat(r3, e)) = Cat(Cat(c, r3), e)
  BY CatAssociative
<1>5. Cat(a, Cat(r1, Cat(Cat(c, r3), e))) = Cat(Cat(a, r1), Cat(Cat(c, r3), e))
  <2>1. Cat(Cat(c, r3), e) \in Seq(S)
    BY <1>1, CatTyped
  <2>2. QED
    BY <2>1, CatAssociative
<1>6. Cat(Cat(a, r1), Cat(Cat(c, r3), e)) = Cat(Cat(Cat(a, r1), Cat(c, r3)), e)
  BY <1>1, CatAssociative
<1>7. QED
  BY <1>2, <1>3, <1>4, <1>5, <1>6 DEF ThroughWire

LEMMA CatsThroughCut ==
  ASSUME NEW S, NEW a \in Seq(S), NEW r1 \in Seq(S), NEW b \in Seq(S), NEW r2 \in Seq(S),
         NEW c \in Seq(S), NEW r3 \in Seq(S), NEW e \in Seq(S)
  PROVE  ThroughCut(a, r1, b, r2, c, r3, e)
<1> DEFINE br == Cat(b, r2)
<1>1. br \in Seq(S) /\ Cat(r2, c) \in Seq(S) /\ Cat(r1, b) \in Seq(S) /\ Cat(r3, e) \in Seq(S)
      /\ Cat(a, r1) \in Seq(S) /\ Cat(c, r3) \in Seq(S)
  BY CatTyped
<1>2. Cat(Cat(r1, b), Cat(r2, c)) = Cat(Cat(r1, br), c)
  <2>1. Cat(Cat(r1, b), Cat(r2, c)) = Cat(Cat(Cat(r1, b), r2), c)
    BY <1>1, CatAssociative
  <2>2. Cat(Cat(r1, b), r2) = Cat(r1, br)
    BY CatAssociative
  <2>3. QED
    BY <2>1, <2>2
<1> HIDE DEF br
<1>3. Cat(r1, br) \in Seq(S) /\ Cat(Cat(a, r1), br) \in Seq(S) /\ Cat(Cat(r1, br), c) \in Seq(S)
  BY <1>1, CatTyped
<1>4. Cat(a, Cat(Cat(Cat(r1, br), c), Cat(r3, e))) = Cat(Cat(Cat(a, Cat(r1, br)), Cat(c, r3)), e)
  <2> DEFINE r == Cat(r1, br)
  <2>1. r \in Seq(S)
    BY <1>3
  <2> HIDE DEF r
  <2>2. ThroughWire(a, r, c, r3, e)
    BY <2>1, CatsThroughWire
  <2>3. Cat(Cat(r, c), <<>>) = Cat(r, c) /\ Cat(Cat(a, r), <<>>) = Cat(a, r)
    <3>1. Cat(r, c) \in Seq(S) /\ Cat(a, r) \in Seq(S)
      BY <2>1, CatTyped
    <3>2. QED
      BY <3>1, CatNothing
  <2>4. Cat(a, Cat(Cat(r, c), Cat(r3, e))) = Cat(Cat(Cat(a, r), Cat(c, r3)), e)
    BY <2>2, <2>3 DEF ThroughWire
  <2>5. QED
    BY <2>4 DEF r
<1>5. Cat(a, Cat(r1, br)) = Cat(Cat(a, r1), br)
  BY <1>1, CatAssociative
<1>6. QED
  BY <1>2, <1>4, <1>5 DEF ThroughCut, br

LEMMA SentNowTyped ==
  ASSUME RingInv, NEW p \in Pairs, NEW offer
  PROVE  AtMostOne(SentNow(p, offer), Packets)
<1>1. p[1] \in Clusters
  BY DEF Pairs
<1>2. ASSUME Accepted(p[1], offer)
      PROVE  Head(todo[p[1]]) \in Packets
  <2>1. todo[p[1]] # <<>> /\ todo[p[1]] \in Seq(Boarding(p[1]))
    BY <1>1, <1>2 DEF Accepted, JoiningReady, Joining, RingInv
  <2>2. Head(todo[p[1]]) \in Boarding(p[1])
    BY <2>1, HeadApart
  <2>3. QED
    BY <2>2 DEF Boarding
<1>3. QED
  BY <1>2 DEF SentNow, AtMostOne

LEMMA LeftInputTyped ==
  ASSUME RingInv, NEW c \in Clusters, NEW d \in Directions, NEW offer, NEW take
  PROVE  AtMostOne(LeftInput(c, d, offer, take), AtInput(c, d))
<1>1. inq[<<c, d>>] \in Seq(AtInput(c, d))
  BY DEF RingInv, Small
<1>2. CASE Pops(c, d, offer, take)
  <2>1. Head(inq[<<c, d>>]) \in AtInput(c, d)
    BY <1>1, <1>2, HeadApart DEF Pops
  <2>2. QED
    BY <1>2, <2>1 DEF LeftInput, AtMostOne
<1>3. CASE ~Pops(c, d, offer, take)
  BY <1>3 DEF LeftInput, AtMostOne
<1>4. QED
  BY <1>2, <1>3

LEMMA InPackets ==
  ASSUME NEW c, NEW d, NEW p
  PROVE  /\ AtInput(c, d) \subseteq Packets /\ AtOutput(c, d) \subseteq Packets
         /\ \A s \in Seq(AtInput(c, d)) : s \in Seq(Packets) /\ Of(p, s) \in Seq(Packets)
         /\ \A s \in Seq(AtOutput(c, d)) : s \in Seq(Packets) /\ Of(p, s) \in Seq(Packets)
<1>1. AtInput(c, d) \subseteq Packets /\ AtOutput(c, d) \subseteq Packets
  BY DEF AtInput, AtOutput, Riding
<1>2. \A s \in Seq(AtInput(c, d)) : s \in Seq(Packets)
  BY <1>1, SeqMonotonic
<1>3. \A s \in Seq(AtOutput(c, d)) : s \in Seq(Packets)
  BY <1>1, SeqMonotonic
<1>4. QED
  BY <1>1, <1>2, <1>3, OfTyped

LEMMA HopTyped ==
  ASSUME RingInv, NEW p \in Pairs, NEW k \in 1 .. N
  PROVE  Hop(p, k) \in Seq(Packets)
<1> DEFINE d == Way(p)
           b == Back(p, k)
           f == Back(p, k - 1)
<1>1. b \in Clusters /\ f \in Clusters /\ d \in Directions
  BY BackIs, DirectionsTwo DEF Way
<1>2. inq[<<f, d>>] \in Seq(AtInput(f, d)) /\ cut[<<b, d>>] \in Seq(AtOutput(b, d))
      /\ outq[<<b, d>>] \in Seq(AtOutput(b, d))
  BY <1>1 DEF RingInv, Small
<1>3. Of(p, inq[<<f, d>>]) \in Seq(Packets) /\ Of(p, cut[<<b, d>>]) \in Seq(Packets)
      /\ Of(p, outq[<<b, d>>]) \in Seq(Packets)
  BY <1>2, InPackets
<1>4. QED
  BY <1>3, CatTyped DEF Hop

\* Beyond the source there are no packets of p.
LEMMA NoneBeyond ==
  ASSUME NEW p \in Pairs, NEW k \in 1 .. N, ~(k <= Length(p))
  PROVE  /\ \A q \in Seq(AtInput(Back(p, k - 1), Way(p))) : Of(p, q) = <<>>
         /\ \A q \in Seq(AtOutput(Back(p, k), Way(p))) : Of(p, q) = <<>>
<1> DEFINE d == Way(p)
           b == Back(p, k)
           f == Back(p, k - 1)
<1>1. Far(b, p[2], d) = k /\ Ahead(f, p[2], d) = k - 1
  BY BackIs
<1>2. Length(p) \in 1 .. N /\ Length(p) = Far(p[1], p[2], d)
  BY SourceOnTheWay DEF Length
<1>3. ~(Far(b, p[2], d) <= Far(p[1], p[2], d)) /\ ~(Ahead(f, p[2], d) < Far(p[1], p[2], d))
  <2>1. \A x, y \in 1 .. N : ~(x <= y) => ~(x - 1 < y)
    BY NIsNat
  <2>2. QED
    BY <1>1, <1>2, <2>1
<1>4. \A x \in AtInput(f, d) : ~Mine(p, x)
  BY <1>3 DEF AtInput, Mine
<1>5. \A x \in AtOutput(b, d) : ~Mine(p, x)
  BY <1>3 DEF AtOutput, Mine
<1> HIDE DEF d, b, f
<1>6. \A q \in Seq(AtInput(f, d)) : Of(p, q) = <<>>
  BY <1>4, OfStrangers
<1>7. \A q \in Seq(AtOutput(b, d)) : Of(p, q) = <<>>
  BY <1>5, OfStrangers
<1>8. QED
  BY <1>6, <1>7 DEF d, b, f

\* What enters an output on the way is what leaves the next hop.
LEMMA EnteredIsLeft ==
  ASSUME RingInv, NEW p \in Pairs, NEW k \in 1 .. N, k <= Length(p), NEW offer, NEW take
  PROVE  Of(p, Entering(Back(p, k), Way(p), offer)) = LeftHop(p, k + 1, offer, take)
<1>1. Length(p) \in 1 .. N /\ (Back(p, k) = p[1] <=> k = Length(p)) /\ Back(p, k) \in Clusters
  BY SourceOnTheWay, BackIs DEF Length
<1>2. N \in Nat
  BY NIsNat
<1>3. CASE k = Length(p)
  <2>1. Of(p, Entering(Back(p, k), Way(p), offer)) = SentNow(p, offer)
    BY <1>1, <1>3, EnteredAtSource
  <2>2. ~(k + 1 <= Length(p))
    BY <1>1, <1>2, <1>3
  <2>3. QED
    BY <2>1, <2>2 DEF LeftHop
<1>4. CASE k # Length(p)
  <2>1. k + 1 <= Length(p) /\ k + 1 \in 1 .. N /\ (k + 1) - 1 = k /\ k # 0
    BY <1>1, <1>2, <1>4
  <2>2. Ahead(Back(p, k), p[2], Way(p)) = k
    <3>1. Ahead(Back(p, (k + 1) - 1), p[2], Way(p)) = (k + 1) - 1
      BY <2>1, BackIs
    <3>2. QED
      BY <2>1, <3>1
  <2>3. Back(p, k) # p[2]
    <3>1. p[2] \in Clusters
      BY DEF Pairs
    <3>2. Ahead(p[2], p[2], Way(p)) = 0
      <4>1. Ahead(p[2], p[2], Way(p)) =
              IF Way(p) = "right" THEN IF p[2] <= p[2] THEN p[2] - p[2] ELSE p[2] + N - p[2]
                                  ELSE IF p[2] <= p[2] THEN p[2] - p[2] ELSE p[2] + N - p[2]
        BY <3>1, AheadIs
      <4>2. p[2] \in 0 .. N - 1
        BY <3>1 DEF Clusters
      <4>3. QED
        BY <1>2, <4>1, <4>2
    <3>3. QED
      BY <2>1, <2>2, <3>2
  <2>4. Back(p, k) # p[1]
    BY <1>1, <1>4
  <2>5. Of(p, Entering(Back(p, k), Way(p), offer)) = Of(p, LeftInput(Back(p, k), Way(p), offer, take))
    <3> DEFINE c == Back(p, k)
               d == Way(p)
               q == IF Through(c, d, offer) THEN Of(p, <<Head(inq[<<c, d>>])>>) ELSE <<>>
    <3>1. Of(p, Entering(c, d, offer)) = q
      BY <1>1, <2>4, EnteredAway
    <3>2. Of(p, LeftInput(c, d, offer, take)) = q
      BY <2>3, PoppedIsThrough
    <3> HIDE DEF q
    <3>3. QED
      BY <3>1, <3>2
  <2>6. LeftHop(p, k + 1, offer, take) = Of(p, LeftInput(Back(p, k), Way(p), offer, take))
    BY <2>1 DEF LeftHop
  <2>7. QED
    BY <2>5, <2>6
<1>5. QED
  BY <1>3, <1>4

LEMMA LeftHopTyped ==
  ASSUME RingInv, NEW p \in Pairs, NEW k \in 1 .. N + 1, NEW offer, NEW take
  PROVE  LeftHop(p, k, offer, take) \in Seq(Packets)
<1>1. SentNow(p, offer) \in Seq(Packets)
  BY SentNowTyped, AtMostOneTyped
<1>2. ASSUME k <= Length(p)
      PROVE  Of(p, LeftInput(Back(p, k - 1), Way(p), offer, take)) \in Seq(Packets)
  <2>1. k \in 1 .. N
    <3>1. Length(p) \in 1 .. N
      BY SourceOnTheWay DEF Length
    <3>2. \A x \in 1 .. N + 1, y \in 1 .. N : x <= y => x \in 1 .. N
      BY NIsNat
    <3>3. QED
      BY <1>2, <3>1, <3>2
  <2> DEFINE f == Back(p, k - 1)
             d == Way(p)
  <2>2. f \in Clusters /\ d \in Directions
    BY <2>1, BackIs, DirectionsTwo DEF Way
  <2> HIDE DEF f, d
  <2>3. LeftInput(f, d, offer, take) \in Seq(AtInput(f, d))
    BY <2>2, LeftInputTyped, AtMostOneTyped
  <2>4. Of(p, LeftInput(f, d, offer, take)) \in Seq(Packets)
    BY <2>3, InPackets
  <2>5. QED
    BY <2>4 DEF f, d
<1>3. QED
  BY <1>1, <1>2 DEF LeftHop

\* A hop leaves what it held at its head and gains what left the next one.
LEMMA HopMoves ==
  ASSUME RingInv, RingInv', NEW offer, NEW take, Cycle(offer, take), NEW p \in Pairs,
         NEW k \in 1 .. N
  PROVE  Cat(LeftHop(p, k, offer, take), Hop(p, k)') = Cat(Hop(p, k), LeftHop(p, k + 1, offer, take))
<1>1. CASE ~(k <= Length(p))
  <2>1. Hop(p, k) = <<>> /\ Hop(p, k)' = <<>>
    <3> DEFINE d == Way(p)
               b == Back(p, k)
               f == Back(p, k - 1)
    <3>1. b \in Clusters /\ f \in Clusters /\ d \in Directions
      BY BackIs, DirectionsTwo DEF Way
    <3>2. /\ inq[<<f, d>>] \in Seq(AtInput(f, d)) /\ inq'[<<f, d>>] \in Seq(AtInput(f, d))
          /\ outq[<<b, d>>] \in Seq(AtOutput(b, d)) /\ outq'[<<b, d>>] \in Seq(AtOutput(b, d))
          /\ cut[<<b, d>>] \in Seq(AtOutput(b, d)) /\ cut'[<<b, d>>] \in Seq(AtOutput(b, d))
      BY <3>1 DEF RingInv, Small
    <3>3. /\ Of(p, inq[<<f, d>>]) = <<>> /\ Of(p, inq'[<<f, d>>]) = <<>>
          /\ Of(p, outq[<<b, d>>]) = <<>> /\ Of(p, outq'[<<b, d>>]) = <<>>
          /\ Of(p, cut[<<b, d>>]) = <<>> /\ Of(p, cut'[<<b, d>>]) = <<>>
      BY <1>1, <3>2, NoneBeyond
    <3>4. <<>> \o <<>> = <<>>
      OBVIOUS
    <3>5. QED
      BY <3>3, <3>4 DEF Hop, Cat
  <2>2. ~(k + 1 <= Length(p))
    <3>1. \A x, y \in 1 .. N : ~(x <= y) => ~(x + 1 <= y)
      BY NIsNat
    <3>2. QED
      BY <1>1, <3>1, SourceOnTheWay DEF Length
  <2>3. LeftHop(p, k, offer, take) = SentNow(p, offer) /\ LeftHop(p, k + 1, offer, take) = SentNow(p, offer)
    BY <1>1, <2>2 DEF LeftHop
  <2>4. SentNow(p, offer) \in Seq(Packets)
    BY SentNowTyped, AtMostOneTyped
  <2>5. QED
    BY <2>1, <2>3, <2>4, CatNothing
<1>2. CASE k <= Length(p)
  <2> DEFINE d == Way(p)
             b == Back(p, k)
             f == Back(p, k - 1)
             a == LeftHop(p, k, offer, take)
             e == LeftHop(p, k + 1, offer, take)
  <2>1. /\ b \in Clusters /\ f \in Clusters /\ d \in Directions /\ b = Before(f, d)
    BY BackIs, DirectionsTwo DEF Way
  <2>2. a = Of(p, LeftInput(f, d, offer, take)) /\ e = Of(p, Entering(b, d, offer))
    BY <1>2, EnteredIsLeft DEF LeftHop
  <2>3. Hop(p, k) = Cat(Cat(Of(p, inq[<<f, d>>]), Of(p, cut[<<b, d>>])), Of(p, outq[<<b, d>>]))
    BY DEF Hop
  <2>4. Hop(p, k)' = Cat(Cat(Of(p, inq'[<<f, d>>]), Of(p, cut'[<<b, d>>])), Of(p, outq'[<<b, d>>]))
    BY DEF Hop
  <2> HIDE DEF d, b, f, a, e
  <2>5. Moves(offer, take)
    BY CycleMoves
  <2>6. /\ Replaces(inq[<<f, d>>], inq'[<<f, d>>], LeftInput(f, d, offer, take), Arriving(f, d), AtInput(f, d))
        /\ Replaces(outq[<<b, d>>], outq'[<<b, d>>], LeftOutput(b, d), Entering(b, d, offer), AtOutput(b, d))
        /\ Replaces(cut[<<b, d>>], cut'[<<b, d>>], LeftCut(b, d), IntoCut(b, d), AtOutput(b, d))
    BY <2>1, <2>5 DEF Moves
  <2>7. /\ Small(inq[<<f, d>>], AtInput(f, d)) /\ Small(inq'[<<f, d>>], AtInput(f, d))
        /\ Small(outq[<<b, d>>], AtOutput(b, d)) /\ Small(outq'[<<b, d>>], AtOutput(b, d))
        /\ Small(cut[<<b, d>>], AtOutput(b, d)) /\ Small(cut'[<<b, d>>], AtOutput(b, d))
    BY <2>1 DEF RingInv
  <2>8. /\ AtMostOne(LeftInput(f, d, offer, take), AtInput(f, d)) /\ AtMostOne(Arriving(f, d), AtInput(f, d))
        /\ AtMostOne(LeftOutput(b, d), AtOutput(b, d)) /\ AtMostOne(Entering(b, d, offer), AtOutput(b, d))
        /\ AtMostOne(LeftCut(b, d), AtOutput(b, d)) /\ AtMostOne(IntoCut(b, d), AtOutput(b, d))
    BY <2>1, LeftInputTyped, ArrivingTyped, LeftTyped, EnteringTyped
  <2>9. PICK r1 \in Seq(Packets) :
          /\ Of(p, inq[<<f, d>>]) = Cat(a, r1)
          /\ Of(p, inq'[<<f, d>>]) = Cat(r1, Of(p, Arriving(f, d)))
    <3>1. OfMoves(p, inq[<<f, d>>], inq'[<<f, d>>], LeftInput(f, d, offer, take), Arriving(f, d), AtInput(f, d))
      BY <2>6, <2>7, <2>8, OfReplaces
    <3>2. PICK r \in Seq(AtInput(f, d)) :
             /\ Of(p, inq[<<f, d>>]) = Cat(Of(p, LeftInput(f, d, offer, take)), r)
             /\ Of(p, inq'[<<f, d>>]) = Cat(r, Of(p, Arriving(f, d)))
      BY <3>1 DEF OfMoves
    <3>3. r \in Seq(Packets)
      BY InPackets
    <3>4. Of(p, inq[<<f, d>>]) = Cat(a, r)
      BY <2>2, <3>2
    <3>5. QED
      BY <3>2, <3>3, <3>4
  <2>10. PICK r3 \in Seq(Packets) :
          /\ Of(p, outq[<<b, d>>]) = Cat(Of(p, LeftOutput(b, d)), r3)
          /\ Of(p, outq'[<<b, d>>]) = Cat(r3, e)
    <3>1. OfMoves(p, outq[<<b, d>>], outq'[<<b, d>>], LeftOutput(b, d), Entering(b, d, offer), AtOutput(b, d))
      BY <2>6, <2>7, <2>8, OfReplaces
    <3>2. PICK r \in Seq(AtOutput(b, d)) :
             /\ Of(p, outq[<<b, d>>]) = Cat(Of(p, LeftOutput(b, d)), r)
             /\ Of(p, outq'[<<b, d>>]) = Cat(r, Of(p, Entering(b, d, offer)))
      BY <3>1 DEF OfMoves
    <3>3. r \in Seq(Packets)
      BY InPackets
    <3>4. Of(p, outq'[<<b, d>>]) = Cat(r, e)
      BY <2>2, <3>2
    <3>5. QED
      BY <3>2, <3>3, <3>4
  <2>11. /\ a \in Seq(Packets) /\ e \in Seq(Packets)
         /\ Of(p, LeftOutput(b, d)) \in Seq(Packets) /\ Of(p, LeftCut(b, d)) \in Seq(Packets)
    <3>1. /\ LeftInput(f, d, offer, take) \in Seq(AtInput(f, d)) /\ Entering(b, d, offer) \in Seq(AtOutput(b, d))
          /\ LeftOutput(b, d) \in Seq(AtOutput(b, d)) /\ LeftCut(b, d) \in Seq(AtOutput(b, d))
      BY <2>8, AtMostOneTyped
    <3>2. QED
      BY <2>2, <3>1, InPackets
  <2>12. CASE <<b, d>> \in CutLinks
    <3> DEFINE c == Of(p, LeftOutput(b, d))
               g == Of(p, LeftCut(b, d))
    <3>1. Arriving(f, d) = LeftCut(b, d) /\ IntoCut(b, d) = LeftOutput(b, d)
      BY <2>1, <2>12, ArrivingIs DEF IntoCut
    <3>2. PICK r2 \in Seq(Packets) : /\ Of(p, cut[<<b, d>>]) = Cat(g, r2)
                                     /\ Of(p, cut'[<<b, d>>]) = Cat(r2, c)
      <4>1. OfMoves(p, cut[<<b, d>>], cut'[<<b, d>>], LeftCut(b, d), IntoCut(b, d), AtOutput(b, d))
        BY <2>6, <2>7, <2>8, OfReplaces
      <4>2. PICK r \in Seq(AtOutput(b, d)) :
               /\ Of(p, cut[<<b, d>>]) = Cat(Of(p, LeftCut(b, d)), r)
               /\ Of(p, cut'[<<b, d>>]) = Cat(r, Of(p, IntoCut(b, d)))
        BY <4>1 DEF OfMoves
      <4>3. r \in Seq(Packets)
        BY InPackets
      <4>4. Of(p, cut'[<<b, d>>]) = Cat(r, c)
        BY <3>1, <4>2
      <4>5. QED
        BY <4>2, <4>3, <4>4
    <3>3. Of(p, inq'[<<f, d>>]) = Cat(r1, g)
      BY <2>9, <3>1
    <3> HIDE DEF c, g
    <3>4. ThroughCut(a, r1, g, r2, c, r3, e)
      <4>1. c \in Seq(Packets) /\ g \in Seq(Packets)
        BY <2>11 DEF c, g
      <4>2. QED
        BY <2>11, <4>1, CatsThroughCut
    <3>5. Hop(p, k) = Cat(Cat(Cat(a, r1), Cat(g, r2)), Cat(c, r3))
      BY <2>3, <2>9, <2>10, <3>2 DEF c
    <3>6. Hop(p, k)' = Cat(Cat(Cat(r1, g), Cat(r2, c)), Cat(r3, e))
      BY <2>4, <2>10, <3>2, <3>3
    <3>7. Cat(a, Hop(p, k)') = Cat(Hop(p, k), e)
      BY <3>4, <3>5, <3>6 DEF ThroughCut
    <3>8. QED
      BY <3>7 DEF a, e
  <2>13. CASE <<b, d>> \notin CutLinks
    <3> DEFINE c == Of(p, LeftOutput(b, d))
    <3>1. Arriving(f, d) = LeftOutput(b, d)
      BY <2>1, <2>13, ArrivingIs
    <3>2. cut[<<b, d>>] = <<>> /\ cut'[<<b, d>>] = <<>>
      BY <2>1, <2>13 DEF RingInv
    <3>3. Of(p, cut[<<b, d>>]) = <<>> /\ Of(p, cut'[<<b, d>>]) = <<>>
      BY <3>2, OfNothing
    <3>4. Of(p, inq'[<<f, d>>]) = Cat(r1, c)
      BY <2>9, <3>1
    <3> HIDE DEF c
    <3>5. ThroughWire(a, r1, c, r3, e)
      <4>1. c \in Seq(Packets)
        BY <2>11 DEF c
      <4>2. QED
        BY <2>11, <4>1, CatsThroughWire
    <3>6. Hop(p, k) = Cat(Cat(Cat(a, r1), <<>>), Cat(c, r3))
      BY <2>3, <2>9, <2>10, <3>3 DEF c
    <3>7. Hop(p, k)' = Cat(Cat(Cat(r1, c), <<>>), Cat(r3, e))
      BY <2>4, <2>10, <3>3, <3>4
    <3>8. Cat(a, Hop(p, k)') = Cat(Hop(p, k), e)
      BY <3>5, <3>6, <3>7 DEF ThroughWire
    <3>9. QED
      BY <3>8 DEF a, e
  <2>14. QED
    BY <2>12, <2>13
<1>3. QED
  BY <1>1, <1>2

LEMMA FirstApart ==
  ASSUME NEW S, NEW x \in S, NEW u \in Seq(S), NEW v \in Seq(S), NEW w \in Seq(S), v # <<>>,
         Cat(<<x>>, u) = Cat(v, w)
  PROVE  u = Cat(Tail(v), w)
<1> DEFINE y == Head(v)
           t == Tail(v)
           z == Cat(t, w)
<1>1. y \in S /\ t \in Seq(S) /\ v = Cat(<<y>>, t)
  BY HeadApart
<1> HIDE DEF y, t
<1>a. <<y>> \in Seq(S) /\ <<x>> \in Seq(S)
  BY <1>1
<1>2. z \in Seq(S)
  BY <1>1, CatTyped
<1>3. Cat(Cat(<<y>>, t), w) = Cat(<<y>>, z)
  <2> DEFINE o == <<y>>
  <2>1. o \in Seq(S)
    BY <1>a
  <2> HIDE DEF o, z
  <2>2. Cat(Cat(o, t), w) = Cat(o, Cat(t, w))
    BY <1>1, <2>1, CatAssociative
  <2>3. QED
    BY <2>2 DEF o, z
<1> HIDE DEF z
<1>4. Cat(<<x>>, u) = Cat(<<y>>, z)
  BY <1>1, <1>3
<1>5. Len(<<x>>) = 1 /\ Len(<<y>>) = 1 /\ <<x>>[1] = x /\ <<y>>[1] = y
  OBVIOUS
<1>6. Len(u) \in Nat /\ Len(z) \in Nat
  BY <1>2, LenProperties
<1>7. /\ \A i \in 1 .. 1 + Len(u) : Cat(<<x>>, u)[i] = IF i <= 1 THEN <<x>>[i] ELSE u[i - 1]
      /\ Len(Cat(<<x>>, u)) = 1 + Len(u)
  BY <1>a, <1>5, ConcatProperties DEF Cat
<1>8. /\ \A i \in 1 .. 1 + Len(z) : Cat(<<y>>, z)[i] = IF i <= 1 THEN <<y>>[i] ELSE z[i - 1]
      /\ Len(Cat(<<y>>, z)) = 1 + Len(z)
  BY <1>a, <1>2, <1>5, ConcatProperties DEF Cat
<1>9. Len(u) = Len(z)
  BY <1>4, <1>6, <1>7, <1>8
<1>10. ASSUME NEW i \in 1 .. Len(u)
       PROVE  u[i] = z[i]
  <2>1. i + 1 \in 1 .. 1 + Len(u) /\ ~(i + 1 <= 1) /\ (i + 1) - 1 = i
    BY <1>6
  <2>2. Cat(<<x>>, u)[i + 1] = u[i]
    BY <1>7, <2>1
  <2>3. Cat(<<y>>, z)[i + 1] = z[i]
    BY <1>8, <1>9, <2>1
  <2>4. QED
    BY <1>4, <2>2, <2>3
<1>11. u = z
  BY <1>2, <1>9, <1>10, SeqEqual
<1>12. QED
  BY <1>11 DEF z, t
-----------------------------------------------------------------------------
(***************************************************************************)
(* The ring is a channel between each two clusters.                        *)
(***************************************************************************)
LEMMA HopTypedNext ==
  ASSUME RingInv', NEW p \in Pairs, NEW k \in 1 .. N
  PROVE  Hop(p, k)' \in Seq(Packets)
<1> DEFINE d == Way(p)
           b == Back(p, k)
           f == Back(p, k - 1)
<1>1. b \in Clusters /\ f \in Clusters /\ d \in Directions
  BY BackIs, DirectionsTwo DEF Way
<1>2. inq'[<<f, d>>] \in Seq(AtInput(f, d)) /\ cut'[<<b, d>>] \in Seq(AtOutput(b, d))
      /\ outq'[<<b, d>>] \in Seq(AtOutput(b, d))
  BY <1>1 DEF RingInv, Small
<1>3. Of(p, inq'[<<f, d>>]) \in Seq(Packets) /\ Of(p, cut'[<<b, d>>]) \in Seq(Packets)
      /\ Of(p, outq'[<<b, d>>]) \in Seq(Packets)
  BY <1>2, InPackets
<1>4. QED
  BY <1>3, CatTyped DEF Hop

\* The whole way in a cycle: what leaves the first hop, what is sent behind the last.
LEMMA WayMoves ==
  ASSUME RingInv, RingInv', NEW offer, NEW take, Cycle(offer, take), NEW p \in Pairs
  PROVE  /\ OnTheWay(p) \in Seq(Packets) /\ OnTheWay(p)' \in Seq(Packets)
         /\ Cat(LeftHop(p, 1, offer, take), OnTheWay(p)') = Cat(OnTheWay(p), SentNow(p, offer))
         /\ Hop(p, 1) # <<>> => OnTheWay(p) # <<>>
<1> DEFINE X == [k \in 1 .. N |-> Hop(p, k)]
           Y == [k \in 1 .. N |-> Hop(p, k)']
           a == [k \in 1 .. N + 1 |-> LeftHop(p, k, offer, take)]
<1>1. N \in Nat \ {0}
  BY NIsNat
<1>2. X \in [1 .. N -> Seq(Packets)]
  BY HopTyped
<1>3. Y \in [1 .. N -> Seq(Packets)]
  BY HopTypedNext
<1>4. a \in [1 .. N + 1 -> Seq(Packets)]
  BY LeftHopTyped
<1>5. ASSUME NEW k \in 1 .. N
      PROVE  Cat(a[k], Y[k]) = Cat(X[k], a[k + 1])
  <2>1. k \in 1 .. N + 1 /\ k + 1 \in 1 .. N + 1
    BY <1>1
  <2>2. a[k] = LeftHop(p, k, offer, take) /\ a[k + 1] = LeftHop(p, k + 1, offer, take)
    BY <2>1
  <2>3. X[k] = Hop(p, k) /\ Y[k] = Hop(p, k)'
    OBVIOUS
  <2> HIDE DEF X, Y, a
  <2>4. Cat(LeftHop(p, k, offer, take), Hop(p, k)') = Cat(Hop(p, k), LeftHop(p, k + 1, offer, take))
    BY HopMoves
  <2>5. QED
    BY <2>2, <2>3, <2>4
<1>6. a[1] = LeftHop(p, 1, offer, take) /\ a[N + 1] = SentNow(p, offer) /\ X[1] = Hop(p, 1)
  <2>1. 1 \in 1 .. N + 1 /\ N + 1 \in 1 .. N + 1 /\ 1 \in 1 .. N
    BY <1>1
  <2>2. ~(N + 1 <= Length(p))
    <3>1. Length(p) \in 1 .. N
      BY SourceOnTheWay DEF Length
    <3>2. \A x \in 1 .. N : ~(N + 1 <= x)
      BY <1>1
    <3>3. QED
      BY <3>1, <3>2
  <2>3. LeftHop(p, N + 1, offer, take) = SentNow(p, offer)
    BY <2>2 DEF LeftHop
  <2>4. QED
    BY <2>1, <2>3
<1>7. OnTheWay(p) = FlattenSeq(X) /\ OnTheWay(p)' = FlattenSeq(Y)
  BY OnTheWayIs
<1> HIDE DEF X, Y, a
<1>8. Chained(N, X, Y, a)
  BY <1>5 DEF Chained
<1>9. Telescopes(Packets, N, X, Y, a)
  BY <1>1, <1>2, <1>3, <1>4, <1>8, Telescope
<1>10. QED
  BY <1>6, <1>7, <1>9 DEF Telescopes

\* What the slide unit takes was in the channel before the cycle.
LEMMA TakenWasThere ==
  ASSUME RingInv, RingInv', NEW offer, NEW take, Cycle(offer, take), NEW p \in Pairs,
         TakenNow(p, take)
  PROVE  Hop(p, 1) # <<>>
<1> DEFINE d == Way(p)
           c == p[2]
           b == Back(p, 1)
           left == LeftInput(c, d, offer, take)
           q == inq[<<c, d>>]
<1>1. 1 \in 1 .. N /\ 1 - 1 = 0
  BY NIsNat
<1>2. c \in Clusters /\ d \in Directions /\ b \in Clusters /\ Back(p, 1 - 1) = c
  BY <1>1, BackIs, SourceOnTheWay, DirectionsTwo DEF Way, Pairs
<1>3. Of(p, left) = <<Head(q)>>
  BY TakenAtHome
<1>4. Hop(p, 1) = Cat(Cat(Of(p, q), Of(p, cut[<<b, d>>])), Of(p, outq[<<b, d>>]))
  BY <1>2 DEF Hop
<1>5. OfMoves(p, q, inq'[<<c, d>>], left, Arriving(c, d), AtInput(c, d))
  <2> HIDE DEF c, d, b
  <2>1. Replaces(inq[<<c, d>>], inq'[<<c, d>>], LeftInput(c, d, offer, take), Arriving(c, d), AtInput(c, d))
    BY <1>2, CycleMoves DEF Moves
  <2>2. Small(inq[<<c, d>>], AtInput(c, d)) /\ Small(inq'[<<c, d>>], AtInput(c, d))
    BY <1>2 DEF RingInv
  <2>3. AtMostOne(LeftInput(c, d, offer, take), AtInput(c, d)) /\ AtMostOne(Arriving(c, d), AtInput(c, d))
    BY <1>2, LeftInputTyped, ArrivingTyped
  <2>4. QED
    BY <2>1, <2>2, <2>3, OfReplaces
<1>6. /\ Of(p, q) \in Seq(Packets) /\ Of(p, cut[<<b, d>>]) \in Seq(Packets)
      /\ Of(p, outq[<<b, d>>]) \in Seq(Packets) /\ Of(p, left) \in Seq(Packets)
  <2> HIDE DEF c, d, b
  <2>1. /\ inq[<<c, d>>] \in Seq(AtInput(c, d)) /\ cut[<<b, d>>] \in Seq(AtOutput(b, d))
        /\ outq[<<b, d>>] \in Seq(AtOutput(b, d))
    BY <1>2 DEF RingInv, Small
  <2>2. LeftInput(c, d, offer, take) \in Seq(AtInput(c, d))
    BY <1>2, LeftInputTyped, AtMostOneTyped
  <2>3. QED
    BY <2>1, <2>2, InPackets
<1>7. PICK r \in Seq(AtInput(c, d)) : Of(p, q) = Cat(Of(p, left), r)
  BY <1>5 DEF OfMoves
<1>8. r \in Seq(Packets)
  BY InPackets
<1> HIDE DEF c, d, b, q, left
<1>9. Of(p, left) # <<>>
  <2>1. \A x : <<x>> # <<>>
    OBVIOUS
  <2>2. QED
    BY <1>3, <2>1
<1>10. Of(p, q) # <<>>
  BY <1>6, <1>7, <1>8, <1>9, CatIsEmpty
<1>11. Cat(Of(p, q), Of(p, cut[<<b, d>>])) # <<>> /\ Cat(Of(p, q), Of(p, cut[<<b, d>>])) \in Seq(Packets)
  BY <1>6, <1>10, CatIsEmpty, CatTyped
<1>12. QED
  BY <1>4, <1>6, <1>11, CatIsEmpty

\* A channel in a cycle.
LEMMA ChannelMoves ==
  ASSUME RingInv, RingInv', NEW offer, NEW take, Cycle(offer, take), NEW p \in Pairs
  PROVE  \/ ~TakenNow(p, take) /\ OnTheWay(p)' = OnTheWay(p) \o SentNow(p, offer)
         \/ /\ TakenNow(p, take) /\ OnTheWay(p) # <<>>
            /\ OnTheWay(p)' = Tail(OnTheWay(p)) \o SentNow(p, offer)
<1> DEFINE s == SentNow(p, offer)
           h == Head(inq[<<p[2], Way(p)>>])
           v == OnTheWay(p)
           w == OnTheWay(p)'
<1>1. s \in Seq(Packets)
  BY SentNowTyped, AtMostOneTyped
<1>2. v \in Seq(Packets) /\ w \in Seq(Packets) /\ Cat(LeftHop(p, 1, offer, take), w) = Cat(v, s)
  BY WayMoves
<1>3. LeftHop(p, 1, offer, take) = IF TakenNow(p, take) THEN <<h>> ELSE <<>>
  <2>1. 1 <= Length(p)
    <3>1. Length(p) \in 1 .. N
      BY SourceOnTheWay DEF Length
    <3>2. \A x \in 1 .. N : 1 <= x
      BY NIsNat
    <3>3. QED
      BY <3>1, <3>2
  <2>2. Back(p, 1 - 1) = p[2]
    <3>1. 1 - 1 = 0
      OBVIOUS
    <3>2. QED
      BY <3>1, SourceOnTheWay
  <2>3. LeftHop(p, 1, offer, take) = Of(p, LeftInput(p[2], Way(p), offer, take))
    BY <2>1, <2>2 DEF LeftHop
  <2>4. QED
    BY <2>3, TakenAtHome
<1>4. LeftHop(p, 1, offer, take) \in Seq(Packets)
  <2>1. 1 \in 1 .. N + 1
    BY NIsNat
  <2>2. QED
    BY <2>1, LeftHopTyped
<1>5. CASE ~TakenNow(p, take)
  <2> HIDE DEF v, w, s
  <2>1. Cat(<<>>, w) = Cat(v, s)
    BY <1>2, <1>3, <1>5
  <2>2. w = Cat(v, s)
    BY <1>2, <2>1, CatNothing
  <2>3. QED
    BY <1>5, <2>2 DEF Cat, v, w, s
<1>6. CASE TakenNow(p, take)
  <2>1. v # <<>>
    <3>1. Hop(p, 1) # <<>>
      BY <1>6, TakenWasThere
    <3>2. QED
      BY <3>1, WayMoves
  <2>2. h \in Packets
    BY <1>3, <1>4, <1>6
  <2> HIDE DEF v, w, s, h
  <2>3. Cat(<<h>>, w) = Cat(v, s)
    BY <1>2, <1>3, <1>6
  <2>4. w = Cat(Tail(v), s)
    BY <1>1, <1>2, <2>1, <2>2, <2>3, FirstApart
  <2>5. QED
    BY <1>6, <2>1, <2>4 DEF Cat, v, w, s
<1>7. QED
  BY <1>5, <1>6

\* An empty ring: sequences over nothing are empty.
LEMMA ChannelsInitially ==
  ASSUME Init, NEW p \in Pairs
  PROVE  OnTheWay(p) = <<>>
<1> DEFINE X == [k \in 1 .. N |-> Hop(p, k)]
           a == [k \in 1 .. N + 1 |-> <<>>]
<1>1. \A s \in Seq({}) : s = <<>>
  <2>1. SUFFICES ASSUME NEW s \in Seq({}), s # <<>>
                 PROVE  FALSE
    OBVIOUS
  <2>2. Head(s) \in {}
    BY <2>1, HeadApart
  <2>3. QED
    BY <2>2
<1>2. <<>> \in Seq({})
  OBVIOUS
<1>3. ASSUME NEW k \in 1 .. N
      PROVE  Hop(p, k) = <<>>
  <2> DEFINE d == Way(p)
             b == Back(p, k)
             f == Back(p, k - 1)
  <2>1. <<f, d>> \in Links /\ <<b, d>> \in Links
    BY BackIs, DirectionsTwo, LinkIs DEF Way
  <2>2. inq[<<f, d>>] = <<>> /\ cut[<<b, d>>] = <<>> /\ outq[<<b, d>>] = <<>>
    BY <2>1 DEF Init
  <2>3. <<>> \o <<>> = <<>>
    OBVIOUS
  <2>4. QED
    BY <2>2, <2>3, OfNothing DEF Hop, Cat
<1>4. X \in [1 .. N -> Seq({})] /\ a \in [1 .. N + 1 -> Seq({})] /\ N \in Nat \ {0}
  BY <1>2, <1>3, NIsNat
<1>5. Chained(N, X, X, a)
  <2>1. \A k \in 1 .. N : X[k] = <<>> /\ a[k] = <<>> /\ a[k + 1] = <<>>
    BY <1>3, NIsNat
  <2> HIDE DEF X, a
  <2>2. QED
    BY <2>1 DEF Chained
<1>6. OnTheWay(p) = FlattenSeq(X)
  BY OnTheWayIs
<1> HIDE DEF X, a
<1>7. Telescopes({}, N, X, X, a)
  BY <1>4, <1>5, Telescope
<1>8. QED
  BY <1>1, <1>6, <1>7 DEF Telescopes

\* What the promise says is sent, in terms of the slide unit's arbiter.
LEMMA SentIs ==
  ASSUME RingInv, NEW offer, NEW take, Cycle(offer, take), NEW p \in Pairs
  PROVE  Promise!Sent(p) = SentNow(p, offer)
<1> DEFINE c == p[1]
<1>1. c \in Clusters
  BY DEF Pairs
<1>2. /\ todo'[c] = IF Accepted(c, offer) THEN Tail(todo[c]) ELSE todo[c]
      /\ Accepted(c, offer) => todo[c] # <<>>
  BY <1>1, CycleSends
<1>3. todo[c] \in Seq(Boarding(c))
  BY <1>1 DEF RingInv
<1>4. ASSUME Accepted(c, offer)
      PROVE  todo'[c] # todo[c] /\ (Mine(p, Head(todo[c])) <=> Head(todo[c]).dst = p[2])
  <2>1. /\ Head(todo[c]) \in Boarding(c) /\ Len(todo[c]) \in Nat
        /\ Len(Tail(todo[c])) = Len(todo[c]) - 1
    BY <1>2, <1>3, <1>4, HeadApart
  <2>2. Tail(todo[c]) # todo[c]
    <3>1. Len(todo[c]) # Len(todo[c]) - 1
      BY <2>1
    <3>2. QED
      BY <2>1, <3>1
  <2>3. Head(todo[c]).src = c
    BY <2>1 DEF Boarding
  <2>4. QED
    BY <1>2, <1>4, <2>2, <2>3 DEF Mine
<1>5. CASE Accepted(c, offer)
  BY <1>4, <1>5 DEF Promise!Sent, SentNow
<1>6. CASE ~Accepted(c, offer)
  BY <1>2, <1>6 DEF Promise!Sent, SentNow
<1>7. QED
  BY <1>5, <1>6

LEMMA CyclePromised ==
  ASSUME RingInv, RingInv', NEW offer, NEW take, Cycle(offer, take)
  PROVE  Promise!Next
<1>1. channels = [p \in Pairs |-> OnTheWay(p)] /\ channels' = [p \in Pairs |-> OnTheWay(p)']
  BY DEF channels
<1>2. Promise!Pairs = Pairs
  BY DEF Promise!Pairs, Pairs
<1>3. /\ DOMAIN todo' = Clusters
      /\ \A c \in Clusters : todo'[c] = todo[c] \/ (todo[c] # <<>> /\ todo'[c] = Tail(todo[c]))
  <2>1. DOMAIN todo' = Clusters
    BY CycleSends
  <2>2. \A c \in Clusters : /\ todo'[c] = IF Accepted(c, offer) THEN Tail(todo[c]) ELSE todo[c]
                            /\ Accepted(c, offer) => todo[c] # <<>>
    BY CycleSends
  <2>3. QED
    BY <2>1, <2>2
<1>4. DOMAIN channels' = Pairs /\ DOMAIN arrived' = Pairs
  BY <1>1 DEF Cycle
<1>5. ASSUME NEW p \in Pairs
      PROVE  arrived'[p] = IF TakenNow(p, take) THEN arrived[p] + 1 ELSE arrived[p]
  <2>1. arrived'[p] = arrived[p] + (IF TakenNow(p, take) THEN 1 ELSE 0)
    BY <1>5 DEF Cycle, TakenNow
  <2>2. arrived[p] \in Nat
    BY <1>5 DEF RingInv
  <2>3. QED
    BY <2>1, <2>2
<1>6. ASSUME NEW p \in Pairs
      PROVE  \/ /\ arrived'[p] = arrived[p]
                /\ channels'[p] = channels[p] \o Promise!Sent(p)
             \/ /\ channels[p] # <<>> /\ arrived'[p] = arrived[p] + 1
                /\ channels'[p] = Tail(channels[p]) \o Promise!Sent(p)
  <2>1. channels[p] = OnTheWay(p) /\ channels'[p] = OnTheWay(p)'
    BY <1>1
  <2>2. Promise!Sent(p) = SentNow(p, offer)
    BY SentIs
  <2>3. \/ ~TakenNow(p, take) /\ OnTheWay(p)' = OnTheWay(p) \o SentNow(p, offer)
        \/ /\ TakenNow(p, take) /\ OnTheWay(p) # <<>>
           /\ OnTheWay(p)' = Tail(OnTheWay(p)) \o SentNow(p, offer)
    BY ChannelMoves
  <2>4. QED
    BY <1>5, <2>1, <2>2, <2>3
<1>7. ASSUME NEW p \in Pairs, NEW q \in Pairs, Promise!Taken(p), Promise!Taken(q), p[2] = q[2]
      PROVE  p = q
  <2>1. TakenNow(p, take) /\ TakenNow(q, take)
    BY <1>5, <1>7 DEF Promise!Taken
  <2>2. p[1] = q[1]
    BY <1>7, <2>1 DEF TakenNow
  <2>3. p = <<p[1], p[2]>> /\ q = <<q[1], q[2]>>
    BY DEF Pairs
  <2>4. QED
    BY <1>7, <2>2, <2>3
<1>8. QED
  BY <1>2, <1>3, <1>4, <1>6, <1>7 DEF Promise!Next

\* The routers with their two ready signals joined at each input (ring_router.sv:
\* 176-182) neither lose, double nor reorder the packets from one cluster to
\* another: whatever the arbiters decide, the ring is a channel of each pair.
THEOREM RingImplementsChannels == Spec => ImplementsChannels
<1>1. Init => Promise!Init
  <2>1. SUFFICES ASSUME Init
                 PROVE  Promise!Init
    OBVIOUS
  <2>2. channels = [p \in Pairs |-> <<>>]
    BY <2>1, ChannelsInitially DEF channels
  <2>3. QED
    BY <2>1, <2>2 DEF Init, Promise!Init, Promise!Pairs, Pairs
<1>2. RingInv /\ RingInv' /\ [Next]_vars => [Promise!Next]_(Promise!vars)
  <2>1. SUFFICES ASSUME RingInv, RingInv', [Next]_vars
                 PROVE  [Promise!Next]_(Promise!vars)
    OBVIOUS
  <2>2. CASE UNCHANGED vars
    <3>1. channels' = channels
      <4>1. inq' = inq /\ outq' = outq /\ cut' = cut
        BY <2>2 DEF vars
      <4>2. \A p \in Pairs : OnTheWay(p)' = OnTheWay(p)
        BY <4>1 DEF OnTheWay
      <4>3. QED
        BY <4>2 DEF channels
    <3>2. todo' = todo /\ arrived' = arrived
      BY <2>2 DEF vars
    <3>3. QED
      BY <3>1, <3>2 DEF Promise!vars
  <2>3. CASE \E offer \in Offerings, take \in Takings : Cycle(offer, take)
    BY <2>1, <2>3, CyclePromised
  <2>4. QED
    BY <2>1, <2>2, <2>3 DEF Next
<1>3. QED
  BY <1>1, <1>2, RingInitially, RingStays, PTL DEF Spec, ImplementsChannels, Promise!Spec

-----------------------------------------------------------------------------
(***************************************************************************)
(* Slides: which cluster the packets of a cluster go to, and which row.    *)
(***************************************************************************)
IsSlide(s) ==
  /\ s.op \in {"VSLIDEUP", "VSLIDEDOWN"} /\ s.vl \in Nat \ {0} /\ s.stride \in 1 .. NrLanes

Down(s) == s.op = "VSLIDEDOWN"

\* The cluster whose lanes are the next ones in the direction of the slide.
Neighbour(s, c) ==
  IF Down(s) THEN IF c = 0 THEN N - 1 ELSE c - 1 ELSE IF c = N - 1 THEN 0 ELSE c + 1

\* The lane in which the i-th packet of a word arrives.
LaneOf(s, i) == IF Down(s) THEN NrLanes - s.stride + i ELSE i

Dst(s, c) ==
  IF ~LeavesRow(s, Neighbour(s, c)) THEN Neighbour(s, c)
  ELSE IF Down(s) THEN LastCluster(s) ELSE 0

LEMMA LanesAre == NrLanes \in Nat \ {0} /\ N \in Nat \ {0}
BY SlideAssumption, NIsNat

LEMMA NeighbourIs ==
  ASSUME NEW s, NEW c \in Clusters
  PROVE  Neighbour(s, c) \in Clusters
BY NIsNat DEF Neighbour, Clusters

\* Lane x of cluster b has a number below that of the first lane of cluster b + 1.
LEMMA LaneNumber ==
  ASSUME NEW b \in Clusters, NEW x \in 0 .. NrLanes - 1
  PROVE  /\ TotalLanes \in Nat \ {0} /\ NrLanes <= TotalLanes
         /\ NrLanes * b + x \in 0 .. TotalLanes - 1
         /\ (NrLanes * b + x) \div NrLanes = b /\ (NrLanes * b + x) % NrLanes = x
<1>1. NrLanes \in Nat \ {0} /\ N \in Nat \ {0} /\ b \in Nat /\ b + 1 <= N
  BY LanesAre DEF Clusters
<1>2. \A n, l, k \in Nat : k + 1 <= n => l * k + l <= n * l
  <2>1. SUFFICES ASSUME NEW n \in Nat, NEW l \in Nat, NEW k \in Nat, k + 1 <= n
                 PROVE  l * k + l <= n * l
    OBVIOUS
  <2>2. PICK d \in Nat : n = k + 1 + d
    <3>1. n - (k + 1) \in Nat /\ n = k + 1 + (n - (k + 1))
      BY <2>1
    <3>2. QED
      BY <3>1
  <2>3. n * l = l * k + l + d * l /\ d * l \in Nat /\ l * k \in Nat
    BY <2>2
  <2>4. QED
    BY <2>3
<1>3. NrLanes * b + NrLanes <= TotalLanes /\ TotalLanes \in Nat /\ NrLanes * b \in Nat
  BY <1>1, <1>2 DEF TotalLanes
<1>4. NrLanes * b + x \in 0 .. TotalLanes - 1 /\ TotalLanes \in Nat \ {0} /\ NrLanes <= TotalLanes
  BY <1>1, <1>3
<1>5. (NrLanes * b + x) \div NrLanes = b /\ (NrLanes * b + x) % NrLanes = x
  BY <1>1, DivModUnique
<1>6. QED
  BY <1>4, <1>5

LEMMA SrcLaneIs ==
  ASSUME NEW s, IsSlide(s), NEW i \in 0 .. s.stride - 1
  PROVE  /\ SrcLane(s, i) \in 0 .. NrLanes - 1 /\ LaneOf(s, i) \in 0 .. NrLanes - 1
         /\ Down(s) => SrcLane(s, i) = i /\ LaneOf(s, i) = NrLanes - s.stride + i
         /\ ~Down(s) => SrcLane(s, i) = NrLanes - s.stride + i /\ LaneOf(s, i) = i
BY LanesAre DEF IsSlide, SrcLane, LaneOf, Down, PerWord

\* A packet crosses to the neighbour, once round the ring at its end.
LEMMA TargetIs ==
  ASSUME NEW s, IsSlide(s), NEW c \in Clusters, NEW i \in 0 .. s.stride - 1
  PROVE  Target(s, c, SrcLane(s, i)) = NrLanes * Neighbour(s, c) + LaneOf(s, i)
<1> DEFINE L == NrLanes
           T == TotalLanes
           st == s.stride
           t == L * Neighbour(s, c) + LaneOf(s, i)
<1>1. L \in Nat \ {0} /\ N \in Nat \ {0} /\ c \in Nat /\ c <= N - 1 /\ st \in 1 .. L /\ i \in Nat /\ i < st
  BY LanesAre DEF Clusters, IsSlide
<1>2. T \in Nat \ {0} /\ t \in 0 .. T - 1 /\ t % T = t /\ (t + T) % T = t
  <2>1. T \in Nat \ {0} /\ t \in 0 .. T - 1
    BY SrcLaneIs, NeighbourIs, LaneNumber
  <2> HIDE DEF t, T
  <2>2. (T * 0 + t) % T = t /\ (T * 1 + t) % T = t
    BY <2>1, DivModUnique
  <2>3. T * 0 + t = t /\ T * 1 + t = t + T
    BY <2>1
  <2>4. QED
    BY <2>1, <2>2, <2>3
<1>3. CASE Down(s)
  <2>1. Target(s, c, SrcLane(s, i)) = (L * c + i + T - st) % T
    BY <1>3, SrcLaneIs DEF Target, Down
  <2>2. CASE c = 0
    <3>1. L * c + i + T - st = t
      <4>1. t = L * (N - 1) + (L - st + i)
        BY <1>3, <2>2 DEF Neighbour, LaneOf
      <4>2. L * (N - 1) = N * L - L /\ L * c = 0
        BY <1>1, <2>2
      <4>3. T = N * L /\ N * L \in Nat
        BY <1>1 DEF TotalLanes
      <4> HIDE DEF T
      <4>4. QED
        BY <1>1, <4>1, <4>2, <4>3
    <3>2. QED
      BY <1>2, <2>1, <3>1
  <2>3. CASE c # 0
    <3>1. L * c + i + T - st = t + T
      <4>1. t = L * (c - 1) + (L - st + i)
        BY <1>3, <2>3 DEF Neighbour, LaneOf
      <4>2. L * (c - 1) = L * c - L /\ L * c \in Nat
        BY <1>1
      <4> HIDE DEF t, T
      <4>3. QED
        BY <1>1, <1>2, <4>1, <4>2
    <3>2. QED
      BY <1>2, <2>1, <3>1
  <2>4. QED
    BY <2>2, <2>3
<1>4. CASE ~Down(s)
  <2>1. Target(s, c, SrcLane(s, i)) = (L * c + (L - st + i) + st) % T
    <3>1. Target(s, c, SrcLane(s, i)) = (L * c + SrcLane(s, i) + st) % T
      BY <1>4 DEF Target, Down
    <3>2. SrcLane(s, i) = L - st + i
      BY <1>4, SrcLaneIs
    <3>3. QED
      BY <3>1, <3>2
  <2>2. CASE c = N - 1
    <3>1. L * c + (L - st + i) + st = t + T
      <4>1. t = L * 0 + i
        BY <1>4, <2>2 DEF Neighbour, LaneOf
      <4>2. L * c = N * L - L /\ L * 0 = 0
        BY <1>1, <2>2
      <4>3. T = N * L /\ N * L \in Nat
        BY <1>1 DEF TotalLanes
      <4> HIDE DEF T, t
      <4>4. t = i
        BY <4>1, <4>2, <1>1
      <4>5. L * c + (L - st + i) + st = (N * L - L) + (L - st + i) + st
        BY <4>2
      <4>6. (N * L - L) + (L - st + i) + st = i + N * L
        BY <1>1, <4>3
      <4>7. QED
        BY <4>3, <4>4, <4>5, <4>6
    <3>2. QED
      BY <1>2, <2>1, <3>1
  <2>3. CASE c # N - 1
    <3>1. L * c + (L - st + i) + st = t
      <4>1. t = L * (c + 1) + i
        BY <1>4, <2>3 DEF Neighbour, LaneOf
      <4>2. L * (c + 1) = L * c + L /\ L * c \in Nat
        BY <1>1
      <4> HIDE DEF t
      <4>3. QED
        BY <1>1, <4>1, <4>2
    <3>2. QED
      BY <1>2, <2>1, <3>1
  <2>4. QED
    BY <2>2, <2>3
<1>5. QED
  BY <1>3, <1>4
LEMMA CrossesTo ==
  ASSUME NEW s, IsSlide(s), NEW c \in Clusters, NEW i \in 0 .. s.stride - 1
  PROVE  /\ Target(s, c, SrcLane(s, i)) \div NrLanes = Neighbour(s, c)
         /\ DstLane(s, c, SrcLane(s, i)) = LaneOf(s, i)
         /\ DstCluster(s, c, SrcLane(s, i)) = Dst(s, c)
<1> DEFINE b == Neighbour(s, c)
           x == LaneOf(s, i)
           t == Target(s, c, SrcLane(s, i))
<1>1. b \in Clusters /\ x \in 0 .. NrLanes - 1 /\ t = NrLanes * b + x
  BY NeighbourIs, SrcLaneIs, TargetIs
<1>2. t \div NrLanes = b /\ t % NrLanes = x
  <2> HIDE DEF b, x, t
  <2>1. QED
    BY <1>1, LaneNumber
<1>3. QED
  BY <1>2 DEF DstLane, DstCluster, Dst, Down

\* A cluster that has an element has one in the first row.
LEMMA WordsAre ==
  ASSUME NEW s, IsSlide(s), NEW c \in Clusters
  PROVE  /\ Words(s, c) \in Nat
         /\ Words(s, c) > 0 => NrLanes * c < s.vl
<1> DEFINE R == {r \in 0 .. s.vl : r * TotalLanes + c * NrLanes < s.vl}
<1>1. s.vl \in Nat /\ c \in Nat /\ NrLanes \in Nat /\ TotalLanes \in Nat
  BY LaneNumber, LanesAre DEF IsSlide, Clusters, TotalLanes
<1>2. IsFiniteSet(R)
  <2>1. IsFiniteSet(0 .. s.vl)
    BY <1>1, FS_Interval
  <2>2. R \subseteq 0 .. s.vl
    OBVIOUS
  <2>3. QED
    BY <2>1, <2>2, FS_Subset
<1>3. Cardinality(R) \in Nat /\ (Cardinality(R) = 0 <=> R = {})
  <2> HIDE DEF R
  <2>1. QED
    BY <1>2, FS_CardinalityType, FS_EmptySet
<1>4. ASSUME NEW r \in R
      PROVE  NrLanes * c < s.vl
  <2>1. r \in Nat /\ r * TotalLanes + c * NrLanes < s.vl
    BY <1>1
  <2>2. r * TotalLanes \in Nat /\ c * NrLanes = NrLanes * c /\ NrLanes * c \in Nat
    BY <1>1, <2>1
  <2>3. QED
    BY <1>1, <2>1, <2>2
<1>5. Words(s, c) = Cardinality(R)
  BY DEF Words
<1> HIDE DEF R
<1>6. Words(s, c) > 0 => R # {}
  BY <1>3, <1>5
<1>7. QED
  BY <1>3, <1>4, <1>5, <1>6

\* The last cluster with an element of the last row; of a slide of one row, the last with any.
LEMMA LastClusterIs ==
  ASSUME NEW s, IsSlide(s)
  PROVE  /\ LastCluster(s) \in Clusters
         /\ OneRow(s) => \A c \in Clusters : Words(s, c) > 0 => c <= LastCluster(s)
<1> DEFINE L == NrLanes
           T == TotalLanes
           rem == s.vl % T
<1>1. /\ L \in Nat \ {0} /\ N \in Nat \ {0} /\ s.vl \in Nat \ {0} /\ T \in Nat \ {0} /\ T = L * N
      /\ \A c \in Clusters : c \in Nat /\ c <= N - 1
  BY LanesAre DEF IsSlide, Clusters, TotalLanes
<1>2. rem \in 0 .. T - 1 /\ (s.vl < T => rem = s.vl) /\ (s.vl = T => rem = 0)
  <2> HIDE DEF T
  <2>1. s.vl % T \in 0 .. T - 1
    BY <1>1, DivModParts
  <2>2. s.vl < T => (T * 0 + s.vl) % T = s.vl
    BY <1>1, DivModUnique
  <2>3. T * 0 + s.vl = s.vl /\ T * 1 + 0 = T
    BY <1>1
  <2>4. (T * 1 + 0) % T = 0
    BY <1>1, DivModUnique
  <2>5. QED
    BY <2>1, <2>2, <2>3, <2>4
<1>3. LastCluster(s) = IF rem = 0 THEN N - 1 ELSE (rem - 1) \div L
  BY DEF LastCluster, MaxCluster
<1>4. rem # 0 => /\ (rem - 1) \div L \in Nat /\ (rem - 1) \div L <= N - 1
                 /\ \A c \in Clusters : L * c < rem => c <= (rem - 1) \div L
  <2>1. SUFFICES ASSUME rem # 0
                 PROVE  /\ (rem - 1) \div L \in Nat /\ (rem - 1) \div L <= N - 1
                        /\ \A c \in Clusters : L * c < rem => c <= (rem - 1) \div L
    OBVIOUS
  <2> DEFINE a == rem - 1
             q == a \div L
             u == a % L
  <2> HIDE DEF rem, T
  <2>2. a \in Nat /\ a < L * N /\ rem = a + 1
    BY <1>1, <1>2, <2>1
  <2> HIDE DEF a
  <2>3. q \in Nat /\ u \in 0 .. L - 1 /\ a = L * q + u
    BY <1>1, <2>2, DivModParts
  <2> HIDE DEF q, u
  <2>4. \A k \in Nat : k >= q + 1 => L * k >= L * q + L
    <3>1. SUFFICES ASSUME NEW k \in Nat, k >= q + 1
                   PROVE  L * k >= L * q + L
      OBVIOUS
    <3>2. k - (q + 1) \in Nat /\ k = q + 1 + (k - (q + 1))
      BY <2>3, <3>1
    <3>3. PICK e \in Nat : k = q + 1 + e
      BY <3>2
    <3>4. L * k = L * q + L + L * e /\ L * e \in Nat /\ L * q \in Nat
      BY <1>1, <2>3, <3>3
    <3>5. QED
      BY <1>1, <3>4
  <2>5. q <= N - 1
    <3>1. N >= q + 1 => L * N >= L * q + L
      BY <1>1, <2>4
    <3>2. CASE N >= q + 1
      BY <1>1, <2>3, <3>2
    <3>3. CASE ~(N >= q + 1)
      <4>1. q - N \in Nat /\ q = N + (q - N)
        BY <1>1, <2>3, <3>3
      <4>2. PICK e \in Nat : q = N + e
        BY <4>1
      <4>3. L * q = L * N + L * e /\ L * e \in Nat /\ L * N \in Nat
        BY <1>1, <4>2
      <4>4. QED
        BY <2>2, <2>3, <4>3
    <3>4. QED
      BY <3>2, <3>3
  <2>6. ASSUME NEW c \in Clusters, L * c < rem
        PROVE  c <= q
    <3>1. c >= q + 1 => L * c >= L * q + L
      BY <1>1, <2>4
    <3>2. L * c <= L * q + u /\ L * c \in Nat /\ L * q \in Nat
      BY <1>1, <2>2, <2>3, <2>6
    <3>3. QED
      BY <1>1, <2>3, <3>1, <3>2
  <2>7. QED
    BY <2>3, <2>5, <2>6 DEF q, a
<1> HIDE DEF rem, T
<1>5. LastCluster(s) \in Clusters
  <2>1. N - 1 \in Clusters /\ \A x \in Nat : x <= N - 1 => x \in Clusters
    BY <1>1 DEF Clusters
  <2>2. QED
    BY <1>3, <1>4, <2>1
<1>6. ASSUME OneRow(s), NEW c \in Clusters, Words(s, c) > 0
      PROVE  c <= LastCluster(s)
  <2>1. L * c < s.vl
    BY <1>6, WordsAre
  <2>2. s.vl <= T
    BY <1>6 DEF OneRow, T
  <2>3. CASE s.vl = T
    BY <1>1, <1>2, <1>3, <2>3
  <2>4. CASE s.vl # T
    <3>1. rem = s.vl
      BY <1>1, <1>2, <2>2, <2>4
    <3>2. QED
      BY <1>1, <1>3, <1>4, <2>1, <3>1
  <2>5. QED
    BY <2>3, <2>4
<1>7. QED
  BY <1>5, <1>6

\* The clusters that have an element pass their packets round: none gets those of two.
LEMMA DstIs ==
  ASSUME NEW s, IsSlide(s), NEW c \in Clusters
  PROVE  /\ Dst(s, c) \in Clusters
         /\ \A b \in Clusters : Words(s, b) > 0 /\ Words(s, c) > 0 /\ Dst(s, b) = Dst(s, c) => b = c
<1>1. /\ N \in Nat \ {0} /\ \A x \in Clusters : x \in Nat /\ x <= N - 1
      /\ 0 \in Clusters
  BY NIsNat DEF Clusters
<1>2. LastCluster(s) \in Clusters /\ Neighbour(s, c) \in Clusters
  BY LastClusterIs, NeighbourIs
<1>3. Dst(s, c) \in Clusters
  BY <1>1, <1>2 DEF Dst
<1>4. ASSUME NEW b \in Clusters, Words(s, b) > 0, Words(s, c) > 0, Dst(s, b) = Dst(s, c)
      PROVE  b = c
  <2> DEFINE l == LastCluster(s)
  <2>1. /\ N \in Nat \ {0} /\ b \in Nat /\ b <= N - 1 /\ c \in Nat /\ c <= N - 1
        /\ l \in Nat /\ l <= N - 1
    BY <1>1, <1>2
  <2>2. OneRow(s) => b <= l /\ c <= l
    BY <1>4, LastClusterIs
  <2>3. \A x \in {b, c} : Dst(s, x) =
          IF Down(s) THEN IF x = 0 THEN IF N - 1 > l /\ OneRow(s) THEN l ELSE N - 1
                          ELSE IF x - 1 > l /\ OneRow(s) THEN l ELSE x - 1
          ELSE IF x = N - 1 THEN 0 ELSE IF x + 1 > l /\ OneRow(s) THEN 0 ELSE x + 1
    <3>1. SUFFICES ASSUME NEW x \in {b, c}
                   PROVE  Dst(s, x) =
          IF Down(s) THEN IF x = 0 THEN IF N - 1 > l /\ OneRow(s) THEN l ELSE N - 1
                          ELSE IF x - 1 > l /\ OneRow(s) THEN l ELSE x - 1
          ELSE IF x = N - 1 THEN 0 ELSE IF x + 1 > l /\ OneRow(s) THEN 0 ELSE x + 1
      OBVIOUS
    <3>2. ~(0 > l)
      BY <2>1
    <3>3. QED
      BY <3>2 DEF Dst, LeavesRow, Neighbour
  <2> HIDE DEF l
  <2>4. CASE Down(s)
    BY <2>1, <2>2, <2>3, <2>4, <1>4
  <2>5. CASE ~Down(s)
    BY <2>1, <2>2, <2>3, <2>5, <1>4
  <2>6. QED
    BY <2>4, <2>5
<1>5. QED
  BY <1>3, <1>4

\* The row in which the i-th packet of the word r of cluster c belongs.
RowOf(s, c, r) ==
  IF LeavesRow(s, Neighbour(s, c)) THEN -1
  ELSE IF Down(s) THEN IF c = 0 THEN r - 1 ELSE r ELSE IF c = N - 1 THEN r + 1 ELSE r

LEMMA RowIs ==
  ASSUME NEW s, IsSlide(s), NEW c \in Clusters, NEW i \in 0 .. s.stride - 1, NEW r \in Nat
  PROVE  Row(s, c, SrcLane(s, i), r) = RowOf(s, c, r)
<1> DEFINE L == NrLanes
           T == TotalLanes
           st == s.stride
           x == SrcLane(s, i)
           e == r * T + c * L + x
<1>1. /\ L \in Nat \ {0} /\ c \in Nat /\ c <= N - 1 /\ N \in Nat \ {0} /\ st \in Nat \ {0} /\ st <= L
      /\ i \in Nat /\ i < st
  BY LanesAre DEF Clusters, IsSlide
<1>2. T \in Nat \ {0} /\ L * c + 0 \in 0 .. T - 1 /\ x \in 0 .. L - 1 /\ L <= T /\ L * c \in Nat
      /\ L * c + (L - 1) \in 0 .. T - 1
  <2>1. 0 \in 0 .. L - 1 /\ L - 1 \in 0 .. L - 1
    BY <1>1
  <2>2. T \in Nat \ {0} /\ L * c + 0 \in 0 .. T - 1 /\ L <= T /\ L * c + (L - 1) \in 0 .. T - 1
    BY <2>1, LaneNumber
  <2>3. x \in 0 .. L - 1
    BY SrcLaneIs
  <2>4. QED
    BY <1>1, <2>2, <2>3
<1>3. Row(s, c, x, r) = IF LeavesRow(s, Neighbour(s, c)) THEN -1
                        ELSE IF s.op = "VSLIDEUP" THEN (e + st) \div T
                        ELSE IF e < st THEN -1 ELSE (e - st) \div T
  BY CrossesTo DEF Row
<1>4. \A q \in Nat, k \in 0 .. T - 1 : (q * T + k) \div T = q
  <2> HIDE DEF T
  <2>1. SUFFICES ASSUME NEW q \in Nat, NEW k \in 0 .. T - 1
                 PROVE  (q * T + k) \div T = q
    OBVIOUS
  <2>2. (T * q + k) \div T = q
    BY <1>2, DivModUnique
  <2>3. T * q = q * T
    BY <1>2
  <2>4. QED
    BY <2>2, <2>3
<1>5. r * T \in Nat /\ (r + 1) * T = r * T + T /\ c * L = L * c
  BY <1>1, <1>2
<1>6. CASE LeavesRow(s, Neighbour(s, c))
  BY <1>3, <1>6 DEF RowOf
<1>7. CASE ~LeavesRow(s, Neighbour(s, c)) /\ Down(s)
  <2>1. x = i
    BY <1>7, SrcLaneIs
  <2>2. Row(s, c, x, r) = IF e < st THEN -1 ELSE (e - st) \div T
    BY <1>3, <1>7 DEF Down
  <2>3. CASE c = 0
    <3>1. e = r * T + i
      <4>1. c * L = 0
        BY <1>1, <2>3
      <4> HIDE DEF x, T
      <4>2. QED
        BY <2>1, <4>1, <1>1, <1>2, <1>5
    <3>2. CASE r = 0
      <4>1. r * T = 0
        BY <3>2, <1>2
      <4>2. e < st /\ r - 1 = -1
        BY <3>1, <3>2, <4>1, <1>1
      <4>3. QED
        BY <1>7, <2>2, <2>3, <4>2 DEF RowOf
    <3>3. CASE r # 0
      <4>1. r - 1 \in Nat /\ r = (r - 1) + 1
        BY <3>3
      <4>2. PICK q \in Nat : r = q + 1 /\ r - 1 = q
        BY <4>1
      <4>3. r * T = q * T + T /\ q * T \in Nat
        BY <4>2, <1>2
      <4> HIDE DEF T, x, e
      <4>4. e - st = q * T + (T + i - st) /\ T + i - st \in 0 .. T - 1 /\ ~(e < st)
        BY <3>1, <4>3, <1>1, <1>2
      <4>5. (e - st) \div T = q
        BY <4>4, <1>4
      <4>6. QED
        BY <1>7, <2>2, <2>3, <4>2, <4>4, <4>5 DEF RowOf, x
    <3>4. QED
      BY <3>2, <3>3
  <2>4. CASE c # 0
    <3>1. L * c >= L
      <4>1. c - 1 \in Nat /\ c = (c - 1) + 1
        BY <1>1, <2>4
      <4>2. PICK q \in Nat : c = q + 1
        BY <4>1
      <4>3. L * c = L * q + L /\ L * q \in Nat
        BY <4>2, <1>1
      <4>4. QED
        BY <4>3, <1>1
    <3>2. e = r * T + (L * c + i)
      <4> HIDE DEF x, T
      <4>1. QED
        BY <2>1, <1>1, <1>2, <1>5
    <3> HIDE DEF T, x, e
    <3>3. e - st = r * T + (L * c + i - st) /\ L * c + i - st \in 0 .. T - 1 /\ ~(e < st)
      BY <3>1, <3>2, <1>1, <1>2, <1>5
    <3>4. (e - st) \div T = r
      BY <3>3, <1>4
    <3>5. QED
      BY <1>7, <2>2, <2>4, <3>3, <3>4 DEF RowOf, x
  <2>5. QED
    BY <2>3, <2>4
<1>8. CASE ~LeavesRow(s, Neighbour(s, c)) /\ ~Down(s)
  <2>1. x = L - st + i
    BY <1>8, SrcLaneIs
  <2>2. Row(s, c, x, r) = (e + st) \div T
    BY <1>3, <1>8 DEF Down, IsSlide
  <2>3. e + st = r * T + (L * c + L + i)
    <3> HIDE DEF x, T
    <3>1. QED
      BY <2>1, <1>1, <1>2, <1>5
  <2>4. CASE c = N - 1
    <3>1. L * c + L = T
      <4>1. N = c + 1
        BY <1>1, <2>4
      <4>2. T = (c + 1) * L /\ (c + 1) * L = L * c + L
        BY <1>1, <4>1 DEF TotalLanes
      <4>3. QED
        BY <4>2
    <3> HIDE DEF T, x, e
    <3>2. e + st = (r + 1) * T + i /\ i \in 0 .. T - 1 /\ r + 1 \in Nat
      BY <2>3, <3>1, <1>1, <1>2, <1>5
    <3>3. (e + st) \div T = r + 1
      BY <3>2, <1>4
    <3>4. QED
      BY <1>8, <2>2, <2>4, <3>3 DEF RowOf, x
  <2>5. CASE c # N - 1
    <3>1. L * c + L + i \in 0 .. T - 1
      <4>1. c + 1 \in Clusters /\ i \in 0 .. L - 1
        BY <1>1, <2>5 DEF Clusters
      <4>2. L * (c + 1) + i \in 0 .. T - 1
        BY <4>1, LaneNumber
      <4>3. L * (c + 1) + i = L * c + L + i
        BY <1>1
      <4>4. QED
        BY <4>2, <4>3
    <3> HIDE DEF T, x, e
    <3>2. (e + st) \div T = r
      BY <2>3, <3>1, <1>4
    <3>3. QED
      BY <1>8, <2>2, <2>5, <3>2 DEF RowOf, x
  <2>6. QED
    BY <2>4, <2>5
<1>9. QED
  BY <1>6, <1>7, <1>8

\* The packets of a cluster: the j-th one.
PacketIs(s, c, j, pkt) ==
  LET i == (j - 1) % s.stride
      r == (j - 1) \div s.stride
  IN /\ pkt.src = c /\ pkt.dst = Dst(s, c) /\ pkt.slide = 1
     /\ pkt.lane = LaneOf(s, i) /\ pkt.row = RowOf(s, c, r)

LEMMA PacketsAre ==
  ASSUME NEW s, IsSlide(s), NEW c \in Clusters
  PROVE  /\ Words(s, c) * s.stride \in Nat
         /\ DOMAIN PacketsOf(1, s, c) = 1 .. Words(s, c) * s.stride
         /\ \E S : PacketsOf(1, s, c) \in Seq(S)
         /\ Len(PacketsOf(1, s, c)) = Words(s, c) * s.stride
         /\ \A j \in 1 .. Words(s, c) * s.stride : PacketIs(s, c, j, PacketsOf(1, s, c)[j])
<1> DEFINE n == Words(s, c) * s.stride
           P == PacketsOf(1, s, c)
<1>1. n \in Nat /\ s.stride \in Nat \ {0}
  <2>1. Words(s, c) \in Nat /\ s.stride \in Nat \ {0}
    BY WordsAre, LanesAre DEF IsSlide
  <2>2. QED
    BY <2>1
<1>2. P = [j \in 1 .. n |-> P[j]]
  BY DEF PacketsOf, PerWord
<1>3. DOMAIN P = 1 .. n
  BY <1>2
<1>4. P \in Seq({P[j] : j \in 1 .. n}) /\ Len(P) = n
  <2> HIDE DEF P, n
  <2>1. P \in [1 .. n -> {P[j] : j \in 1 .. n}]
    BY <1>2
  <2>2. QED
    BY <1>1, <1>3, <2>1
<1>5. ASSUME NEW j \in 1 .. n
      PROVE  PacketIs(s, c, j, P[j])
  <2> DEFINE i == (j - 1) % s.stride
             r == (j - 1) \div s.stride
  <2>1. i \in 0 .. s.stride - 1 /\ r \in Nat
    <3>1. j - 1 \in Nat
      BY <1>1
    <3> HIDE DEF n
    <3>2. \A x \in Nat : x % s.stride \in 0 .. s.stride - 1 /\ x \div s.stride \in Nat
      BY <1>1, DivModParts
    <3>3. QED
      BY <3>1, <3>2
  <2>2. P[j] = [src |-> c, dst |-> DstCluster(s, c, SrcLane(s, i)), lane |-> DstLane(s, c, SrcLane(s, i)),
                slide |-> 1, row |-> Row(s, c, SrcLane(s, i), r)]
    BY DEF PacketsOf, PerWord
  <2> HIDE DEF i, r, P, n
  <2>3. /\ DstCluster(s, c, SrcLane(s, i)) = Dst(s, c) /\ DstLane(s, c, SrcLane(s, i)) = LaneOf(s, i)
        /\ Row(s, c, SrcLane(s, i), r) = RowOf(s, c, r)
    BY <2>1, CrossesTo, RowIs
  <2>4. /\ P[j].src = c /\ P[j].dst = Dst(s, c) /\ P[j].slide = 1
        /\ P[j].lane = LaneOf(s, i) /\ P[j].row = RowOf(s, c, r)
    BY <2>2, <2>3
  <2>5. QED
    BY <2>4 DEF PacketIs, i, r
<1>6. QED
  BY <1>1, <1>3, <1>4, <1>5
-----------------------------------------------------------------------------
(***************************************************************************)
(* A channel of the ring in a cycle of the slide units.                    *)
(***************************************************************************)
\* The elements of q from the one after the a-th to the b-th.
Part(q, a, b) == SubSeq(q, a + 1, b)

LEMMA PartIs ==
  ASSUME NEW S, NEW q \in Seq(S), NEW a \in Nat, NEW b \in Nat, a <= b, b <= Len(q)
  PROVE  /\ Part(q, a, b) # <<>> => a < b
         /\ a < b => Head(Part(q, a, b)) = q[a + 1] /\ Tail(Part(q, a, b)) = Part(q, a + 1, b)
         /\ b < Len(q) => Part(q, a, b) \o <<q[b + 1]>> = Part(q, a, b + 1)
         /\ Part(q, a, b) \o <<>> = Part(q, a, b)
<1>1. Len(q) \in Nat
  OBVIOUS
<1>2. Part(q, a, b) # <<>> => a < b
  <2>1. ~(a < b) => b < a + 1 /\ a + 1 \in Int /\ b \in Int
    OBVIOUS
  <2>2. QED
    BY <2>1, SubSeqEmpty DEF Part
<1>3. ASSUME a < b
      PROVE  Head(Part(q, a, b)) = q[a + 1] /\ Tail(Part(q, a, b)) = Part(q, a + 1, b)
  <2>1. a + 1 \in 1 .. Len(q) /\ b \in a + 1 .. Len(q)
    BY <1>1, <1>3
  <2>2. QED
    BY <2>1, HeadTailOfSubSeq DEF Part
<1>4. ASSUME b < Len(q)
      PROVE  Part(q, a, b) \o <<q[b + 1]>> = Part(q, a, b + 1)
  <2>1. a + 1 \in 1 .. Len(q) /\ b + 1 \in a + 1 .. Len(q) /\ (b + 1) - 1 = b
    BY <1>1, <1>4
  <2>2. SubSeq(q, a + 1, b + 1) = SubSeq(q, a + 1, (b + 1) - 1) \o <<q[b + 1]>>
    BY <2>1, SubSeqRecursiveSecond
  <2>3. QED
    BY <2>1, <2>2 DEF Part
<1>5. Part(q, a, b) \o <<>> = Part(q, a, b)
  <2>1. \A i \in a + 1 .. b : q[i] \in S
    BY <1>1
  <2>2. a + 1 \in Int /\ b \in Int
    OBVIOUS
  <2>3. Part(q, a, b) \in Seq(S)
    BY <2>1, <2>2, SubSeqProperties DEF Part
  <2>4. QED
    BY <2>3, ConcatEmptySeq
<1>6. QED
  BY <1>2, <1>3, <1>4, <1>5

\* A slide unit takes the oldest packet of a channel.
LEMMA TakenIsOldest ==
  ASSUME RingInv, RingInv', NEW offer, NEW take, Cycle(offer, take), NEW p \in Pairs,
         TakenNow(p, take)
  PROVE  OnTheWay(p) # <<>> /\ Head(OnTheWay(p)) = Packet(p[2])
<1> DEFINE c == p[2]
           d == Way(p)
           h == HomeSelected(c)
           x == Head(inq[<<c, d>>])
           v == OnTheWay(p)
           w == OnTheWay(p)'
           s == SentNow(p, offer)
<1>1. c \in Clusters /\ d \in Directions
  BY DirectionsTwo DEF Pairs, Way
<1>2. h = d /\ x \in Packets
  <2>1. h \in Directions /\ AtHome(c, h) /\ Head(inq[<<c, h>>]).src = p[1]
    BY HomeIsThere DEF TakenNow
  <2> HIDE DEF h
  <2>2. Head(inq[<<c, h>>]) \in AtInput(c, h)
    BY <1>1, <2>1, HeadApart DEF AtHome, RingInv, Small
  <2>3. h = d
    BY <2>1, <2>2 DEF AtInput, Riding, AtHome, Way
  <2>4. QED
    BY <2>2, <2>3 DEF AtInput, Riding
<1>3. Packet(c) = x
  BY <1>2 DEF Packet
<1>4. v # <<>>
  BY TakenWasThere, WayMoves
<1>5. v \in Seq(Packets) /\ w \in Seq(Packets) /\ s \in Seq(Packets)
  BY WayMoves, SentNowTyped, AtMostOneTyped
<1>6. Cat(<<x>>, w) = Cat(v, s)
  <2>1. LeftHop(p, 1, offer, take) = Of(p, LeftInput(c, d, offer, take))
    <3>1. 1 <= Length(p)
      <4>1. Length(p) \in 1 .. N
        BY SourceOnTheWay DEF Length
      <4>2. \A k \in 1 .. N : 1 <= k
        BY NIsNat
      <4>3. QED
        BY <4>1, <4>2
    <3>2. 1 - 1 = 0 /\ Back(p, 0) = c
      BY SourceOnTheWay
    <3>3. QED
      BY <3>1, <3>2 DEF LeftHop
  <2>2. Of(p, LeftInput(c, d, offer, take)) = <<x>>
    BY TakenAtHome
  <2>3. QED
    BY <2>1, <2>2, WayMoves
<1> HIDE DEF c, d, h, x, v, w, s
<1>7. <<x>> \in Seq(Packets) /\ Len(<<x>>) = 1 /\ <<x>>[1] = x
  BY <1>2
<1>8. Cat(<<x>>, w)[1] = x
  <2>1. 1 \in 1 .. Len(<<x>>) + Len(w) /\ 1 <= Len(<<x>>)
    BY <1>5, <1>7
  <2>2. QED
    BY <1>5, <1>7, <2>1, ConcatProperties DEF Cat
<1>9. Cat(v, s)[1] = Head(v)
  <2>1. Len(v) \in Nat \ {0} /\ Len(s) \in Nat
    BY <1>4, <1>5, HeadApart
  <2>2. 1 \in 1 .. Len(v) + Len(s) /\ 1 <= Len(v)
    BY <2>1
  <2>3. Cat(v, s)[1] = v[1]
    BY <1>5, <2>2, ConcatProperties DEF Cat
  <2>4. Head(v) = v[1]
    OBVIOUS
  <2>5. QED
    BY <2>3, <2>4
<1>10. QED
  BY <1>3, <1>4, <1>6, <1>8, <1>9 DEF c, v

LEMMA WayInCycle ==
  ASSUME RingInv, NEW offer, NEW take, Cycle(offer, take), NEW p \in Pairs
  PROVE  /\ arrived[p] \in Nat
         /\ ~TakenNow(p, take) => /\ arrived'[p] = arrived[p]
                                  /\ OnTheWay(p)' = OnTheWay(p) \o SentNow(p, offer)
         /\ TakenNow(p, take) => /\ arrived'[p] = arrived[p] + 1
                                 /\ OnTheWay(p) # <<>> /\ Head(OnTheWay(p)) = Packet(p[2])
                                 /\ OnTheWay(p)' = Tail(OnTheWay(p)) \o SentNow(p, offer)
<1>1. RingInv'
  BY RingCycle
<1>2. arrived[p] \in Nat
  BY DEF RingInv
<1>3. arrived'[p] = arrived[p] + (IF TakenNow(p, take) THEN 1 ELSE 0)
  BY DEF Cycle, TakenNow
<1>4. TakenNow(p, take) => OnTheWay(p) # <<>> /\ Head(OnTheWay(p)) = Packet(p[2])
  BY <1>1, TakenIsOldest
<1>5. \/ ~TakenNow(p, take) /\ OnTheWay(p)' = OnTheWay(p) \o SentNow(p, offer)
      \/ /\ TakenNow(p, take) /\ OnTheWay(p) # <<>>
         /\ OnTheWay(p)' = Tail(OnTheWay(p)) \o SentNow(p, offer)
  BY <1>1, ChannelMoves
<1>6. ~TakenNow(p, take) => arrived'[p] = arrived[p]
  BY <1>2, <1>3
<1>7. TakenNow(p, take) => arrived'[p] = arrived[p] + 1
  BY <1>3
<1>8. QED
  BY <1>2, <1>4, <1>5, <1>6, <1>7
-----------------------------------------------------------------------------
(***************************************************************************)
(* One slide in the ring: what each cluster has sent, what is on its way   *)
(* and what has been used.                                                 *)
(***************************************************************************)
OneSlideEach == \A p \in Programs : \E s : p = <<s>>

theSlide == program[1]
PacketsFrom(c) == PacketsOf(1, theSlide, c)
HasElement(c) == Words(theSlide, c) > 0
Total(c) == Words(theSlide, c) * theSlide.stride
SentOf(c) == IF issuing[c] = 1 THEN out[c] ELSE Total(c)

\* The packets of p[1] go to p[2].
Route(p) == HasElement(p[1]) /\ p[2] = Dst(theSlide, p[1])

UnitInv(c) ==
  /\ issuing[c] \in {1, 2} /\ ring[c] \in {1, 2} /\ taken[c] \in {0, 1}
  /\ out[c] \in Nat /\ word[c] \in Nat /\ inWord[c] \in 0 .. theSlide.stride - 1
  /\ issuing[c] = 1 => ring[c] = 1 /\ out[c] < Total(c)
  /\ ~HasElement(c) => issuing[c] = 2 /\ ring[c] = 2
  /\ run[c] => issuing[c] = 1 /\ taken[c] = 1

WaysInv ==
  /\ \A c \in Clusters : todo[c] = Part(PacketsFrom(c), SentOf(c), Total(c))
  /\ \A p \in Pairs :
       /\ Route(p) => /\ arrived[p] <= SentOf(p[1])
                      /\ OnTheWay(p) = Part(PacketsFrom(p[1]), arrived[p], SentOf(p[1]))
       /\ ~Route(p) => OnTheWay(p) = <<>>

\* a packets have been used: the last cluster of a slide down completes no word
\* with the first of each lane.
CountedBy(s, c, lanes, w, n, a) ==
  IF Down(s) /\ c = MaxCluster
  THEN /\ lanes = {LaneOf(s, i) : i \in {x \in 0 .. s.stride - 1 : x < a}}
       /\ w * s.stride + n = (IF a < s.stride THEN 0 ELSE a - s.stride)
  ELSE a = w * s.stride + n
Counted(c, a) == CountedBy(theSlide, c, prev[c], word[c], inWord[c], a)

CountsInv == \A p \in Pairs : Route(p) /\ ring[p[2]] = 1 => Counted(p[2], arrived[p])

\* The inductive invariant.
SlideInv ==
  /\ RingInv /\ program \in Programs
  /\ \A c \in Clusters : UnitInv(c)
  /\ WaysInv /\ CountsInv
  /\ stray = {}

LEMMA TheSlideIs ==
  ASSUME OneSlideEach, program \in Programs
  PROVE  /\ program = <<theSlide>> /\ Len(program) = 1 /\ IsSlide(theSlide)
         /\ theSlide.stride \in Nat \ {0}
<1>1. PICK s : program = <<s>>
  BY DEF OneSlideEach
<1>2. program = <<theSlide>> /\ Len(program) = 1
  BY <1>1 DEF theSlide
<1>3. theSlide \in Range(program)
  <2>1. 1 \in DOMAIN program /\ program[1] = theSlide
    BY <1>2 DEF theSlide
  <2>2. QED
    BY <2>1 DEF Range
<1>4. IsSlide(theSlide)
  BY <1>3, SlideAssumption DEF IsSlide
<1>5. QED
  BY <1>2, <1>4, LanesAre DEF IsSlide

LEMMA NextSlideIs ==
  ASSUME OneSlideEach, program \in Programs, NEW c \in Clusters
  PROVE  /\ NextSlide(0, c) = IF HasElement(c) THEN 1 ELSE 2
         /\ NextSlide(1, c) = 2 /\ NextSlide(2, c) = 2
<1>1. program[1] = theSlide /\ Len(program) = 1
  BY TheSlideIs DEF theSlide
<1>2. {j \in 0 + 1 .. Len(program) : Words(program[j], c) > 0} = IF HasElement(c) THEN {1} ELSE {}
  <2>1. 0 + 1 .. Len(program) = {1}
    BY <1>1
  <2>2. QED
    BY <1>1, <2>1 DEF HasElement
<1>3. /\ {j \in 1 + 1 .. Len(program) : Words(program[j], c) > 0} = {}
      /\ {j \in 2 + 1 .. Len(program) : Words(program[j], c) > 0} = {}
  <2>1. 1 + 1 .. Len(program) = {} /\ 2 + 1 .. Len(program) = {}
    BY <1>1
  <2>2. QED
    BY <2>1
<1>4. Len(program) + 1 = 2
  BY <1>1
<1>5. NextSlide(1, c) = 2 /\ NextSlide(2, c) = 2
  BY <1>3, <1>4 DEF NextSlide
<1>6. NextSlide(0, c) = IF HasElement(c) THEN 1 ELSE 2
  <2>1. CASE HasElement(c)
    <3>1. (CHOOSE j \in {1} : \A i \in {1} : j <= i) = 1
      <4>1. \E j \in {1} : \A i \in {1} : j <= i
        OBVIOUS
      <4>2. QED
        BY <4>1
    <3>2. {1} # {}
      OBVIOUS
    <3>3. QED
      BY <1>2, <2>1, <3>1, <3>2 DEF NextSlide
  <2>2. CASE ~HasElement(c)
    BY <1>2, <1>4, <2>2 DEF NextSlide
  <2>3. QED
    BY <2>1, <2>2
<1>7. QED
  BY <1>5, <1>6

\* Its packets, in any state.
LEMMA PacketsFromAre ==
  ASSUME OneSlideEach, program \in Programs, NEW c \in Clusters
  PROVE  /\ Words(theSlide, c) \in Nat /\ Total(c) \in Nat /\ (HasElement(c) => Total(c) > 0)
         /\ \E S : PacketsFrom(c) \in Seq(S)
         /\ Len(PacketsFrom(c)) = Total(c)
         /\ \A j \in 1 .. Total(c) : PacketIs(theSlide, c, j, PacketsFrom(c)[j])
<1>1. IsSlide(theSlide) /\ theSlide.stride \in Nat \ {0}
  BY TheSlideIs
<1>2. Words(theSlide, c) \in Nat
  BY <1>1, WordsAre
<1>3. Total(c) \in Nat
  BY <1>1, PacketsAre DEF Total
<1>4. HasElement(c) => Total(c) > 0
  BY <1>1, <1>2 DEF Total, HasElement
<1>5. QED
  BY <1>1, <1>2, <1>3, <1>4, PacketsAre DEF Total, PacketsFrom

LEMMA ProgramPacketsAre ==
  ASSUME OneSlideEach, program \in Programs, NEW c \in Clusters
  PROVE  ProgramPackets(program)[c] = PacketsFrom(c)
<1> DEFINE h == [k \in 1 .. 1 |-> PacketsFrom(c)]
<1>1. PICK S : PacketsFrom(c) \in Seq(S)
  BY PacketsFromAre
<1>2. h \in [1 .. 1 -> Seq(S)]
  BY <1>1
<1>3. [k \in 1 .. Len(program) |-> PacketsOf(k, program[k], c)] = h
  <2>1. Len(program) = 1 /\ program[1] = theSlide
    BY TheSlideIs DEF theSlide
  <2>2. \A k \in 1 .. 1 : PacketsOf(k, program[k], c) = PacketsFrom(c)
    BY <2>1 DEF PacketsFrom
  <2>3. [k \in 1 .. 1 |-> PacketsOf(k, program[k], c)] = [k \in 1 .. 1 |-> PacketsFrom(c)]
    BY <2>2
  <2>4. QED
    BY <2>1, <2>3
<1>4. h[1] = PacketsFrom(c)
  OBVIOUS
<1>5. \E f \in [1 .. 1 -> Seq(S)] : Pieces(f, h, 1)
  <2> DEFINE n == 1
  <2>1. n \in Nat \ {0} /\ h \in [1 .. n -> Seq(S)]
    BY <1>2
  <2> HIDE DEF h, n
  <2>2. \E f \in [1 .. n -> Seq(S)] : Pieces(f, h, n)
    BY <2>1, FlattenSeqPieces
  <2>3. QED
    BY <2>2 DEF n
<1> HIDE DEF h
<1>6. FlattenSeq(h) = PacketsFrom(c)
  BY <1>4, <1>5 DEF Pieces
<1>7. QED
  BY <1>3, <1>6 DEF ProgramPackets

LEMMA SlideInitially ==
  ASSUME OneSlideEach, SlideInit
  PROVE  SlideInv
<1>1. RingInv /\ program \in Programs
  BY RingInitially DEF SlideInit
<1>2. /\ IsSlide(theSlide) /\ theSlide.stride \in Nat \ {0}
      /\ 0 \in 0 .. theSlide.stride - 1
  <2>1. IsSlide(theSlide) /\ theSlide.stride \in Nat \ {0}
    BY <1>1, TheSlideIs
  <2>2. QED
    BY <2>1
<1>3. ASSUME NEW c \in Clusters
      PROVE  /\ run[c] = FALSE /\ taken[c] = 0 /\ out[c] = 0 /\ word[c] = 0 /\ inWord[c] = 0
             /\ prev[c] = {} /\ issuing[c] = (IF HasElement(c) THEN 1 ELSE 2)
             /\ ring[c] = issuing[c] /\ SentOf(c) = 0
  <2>1. NextSlide(0, c) = IF HasElement(c) THEN 1 ELSE 2
    BY <1>1, NextSlideIs
  <2>2. ~HasElement(c) => Total(c) = 0
    <3>1. Words(theSlide, c) \in Nat
      BY <1>1, PacketsFromAre
    <3>2. ~HasElement(c) => Words(theSlide, c) = 0
      BY <3>1 DEF HasElement
    <3>3. 0 * theSlide.stride = 0
      BY <1>2
    <3>4. QED
      BY <3>2, <3>3 DEF Total
  <2>3. /\ run[c] = FALSE /\ taken[c] = 0 /\ out[c] = 0 /\ word[c] = 0 /\ inWord[c] = 0
        /\ prev[c] = {} /\ issuing[c] = NextSlide(0, c) /\ ring[c] = NextSlide(0, c)
    BY DEF SlideInit
  <2>4. QED
    BY <2>1, <2>2, <2>3 DEF SentOf
<1>4. ASSUME NEW c \in Clusters
      PROVE  UnitInv(c)
  <2>1. HasElement(c) => Total(c) > 0
    BY <1>1, PacketsFromAre
  <2>2. /\ taken[c] = 0 /\ out[c] = 0 /\ word[c] = 0 /\ inWord[c] = 0 /\ SentOf(c) = 0
        /\ issuing[c] = (IF HasElement(c) THEN 1 ELSE 2) /\ ring[c] = issuing[c] /\ ~run[c]
    BY <1>3
  <2>3. /\ issuing[c] \in {1, 2} /\ ring[c] \in {1, 2} /\ taken[c] \in {0, 1}
        /\ out[c] \in Nat /\ word[c] \in Nat /\ inWord[c] \in 0 .. theSlide.stride - 1
    BY <1>2, <2>2
  <2>4. issuing[c] = 1 => ring[c] = 1 /\ out[c] < Total(c)
    BY <2>1, <2>2
  <2>5. ~HasElement(c) => issuing[c] = 2 /\ ring[c] = 2
    BY <2>2
  <2>6. QED
    BY <2>2, <2>3, <2>4, <2>5 DEF UnitInv
<1>6. WaysInv
  <2>1. ASSUME NEW c \in Clusters
        PROVE  todo[c] = Part(PacketsFrom(c), SentOf(c), Total(c))
    <3>1. todo[c] = PacketsFrom(c)
      BY <1>1, ProgramPacketsAre DEF SlideInit
    <3>2. SubSeq(PacketsFrom(c), 1, Len(PacketsFrom(c))) = PacketsFrom(c)
      BY <1>1, PacketsFromAre, SubSeqFull
    <3>3. 0 + 1 = 1
      OBVIOUS
    <3>4. QED
      BY <1>1, <1>3, <3>1, <3>2, <3>3, PacketsFromAre DEF Part
  <2>2. ASSUME NEW p \in Pairs
        PROVE  /\ OnTheWay(p) = <<>> /\ arrived[p] = 0 /\ p[1] \in Clusters
               /\ Part(PacketsFrom(p[1]), 0, 0) = <<>>
    <3>1. OnTheWay(p) = <<>> /\ arrived[p] = 0 /\ p[1] \in Clusters
      BY ChannelsInitially DEF SlideInit, Init, Pairs
    <3>2. SubSeq(PacketsFrom(p[1]), 0 + 1, 0) = <<>>
      <4>1. 0 + 1 \in Int /\ 0 \in Int /\ 0 < 0 + 1
        OBVIOUS
      <4>2. QED
        BY <4>1, SubSeqEmpty
    <3>3. QED
      BY <3>1, <3>2 DEF Part
  <2>3. 0 <= 0
    OBVIOUS
  <2>4. QED
    BY <1>3, <2>1, <2>2, <2>3 DEF WaysInv
<1>7. CountsInv
  <2>1. ASSUME NEW p \in Pairs
        PROVE  Counted(p[2], arrived[p])
    <3> DEFINE c == p[2]
               st == theSlide.stride
    <3>1. arrived[p] = 0 /\ c \in Clusters
      BY DEF SlideInit, Init, Pairs
    <3>2. prev[c] = {} /\ word[c] = 0 /\ inWord[c] = 0
      BY <1>3, <3>1
    <3>3. 0 * st + 0 = 0 /\ 0 < st
      BY <1>2
    <3>4. {LaneOf(theSlide, i) : i \in {x \in 0 .. st - 1 : x < 0}} = {}
      <4>1. \A x \in 0 .. st - 1 : ~(x < 0)
        BY <1>2
      <4>2. QED
        BY <4>1
    <3>5. QED
      BY <3>1, <3>2, <3>3, <3>4 DEF Counted, CountedBy
  <2>2. QED
    BY <2>1 DEF CountsInv
<1>8. QED
  BY <1>1, <1>4, <1>6, <1>7 DEF SlideInv, SlideInit
-----------------------------------------------------------------------------
(***************************************************************************)
(* A cycle of the slide units, unit by unit.                               *)
(***************************************************************************)
InCycle(S, receivers) ==
  OneSlideEach /\ SlideInv /\ receivers \in Receivers /\ SlideCycle(S, receivers)

LEMMA SlideStays ==
  ASSUME program' = program
  PROVE  /\ theSlide' = theSlide
         /\ \A c : Total(c)' = Total(c) /\ PacketsFrom(c)' = PacketsFrom(c)
         /\ \A c : HasElement(c)' <=> HasElement(c)
         /\ \A p : Route(p)' <=> Route(p)
BY DEF theSlide, Total, PacketsFrom, HasElement, Route

\* Who sends is at the slide, and so is its receiving side.
LEMMA SendingIs ==
  ASSUME NEW S, NEW receivers, InCycle(S, receivers), NEW c \in Clusters
  PROVE  /\ Accepted(c, Showing(S)) => issuing[c] = 1 /\ ring[c] = 1 /\ taken[c] = 1
         /\ SentBy(c, Showing(S)) = (IF Accepted(c, Showing(S)) THEN out[c] + 1 ELSE out[c])
         /\ issuing[c] = 1 => (AllSent(c, Showing(S)) <=> SentBy(c, Showing(S)) = Total(c))
         /\ out[c] \in Nat /\ issuing[c] \in {1, 2}
<1> DEFINE offer == Showing(S)
<1>1. UnitInv(c)
  BY DEF InCycle, SlideInv
<1>2. Accepted(c, offer) => c \in offer
  BY DEF Accepted, JoiningReady, Joining
<1>3. c \in offer => run[c]
  BY DEF Showing, MaySend
<1> HIDE DEF offer
<1>4. Accepted(c, offer) => issuing[c] = 1 /\ ring[c] = 1 /\ taken[c] = 1
  BY <1>1, <1>2, <1>3 DEF UnitInv
<1>5. out[c] \in Nat /\ issuing[c] \in {1, 2}
  BY <1>1 DEF UnitInv
<1>6. SentBy(c, offer) = (IF Accepted(c, offer) THEN out[c] + 1 ELSE out[c])
  BY <1>5 DEF SentBy
<1>7. issuing[c] = 1 => (AllSent(c, offer) <=> SentBy(c, offer) = Total(c))
  BY DEF AllSent, PerWord, Total, theSlide
<1>8. QED
  BY <1>4, <1>5, <1>6, <1>7 DEF offer

\* The registers of a unit after the cycle.
LEMMA UnitNext ==
  ASSUME NEW S, NEW receivers, InCycle(S, receivers), NEW c \in Clusters
  PROVE  LET offer == Showing(S)
             done == Accepted(c, offer) /\ AllSent(c, offer) IN
         /\ run'[c] = IF run[c] THEN ~done ELSE InSync(c)
         /\ taken'[c] = IF c \in receivers THEN NextSlide(taken[c], c) ELSE taken[c]
         /\ issuing'[c] = IF done THEN 2 ELSE issuing[c]
         /\ out'[c] = IF done THEN 0 ELSE SentBy(c, offer)
         /\ ring'[c] = IF EndsSlide(c, offer) THEN 2 ELSE ring[c]
         /\ word'[c] = IF EndsSlide(c, offer) THEN 0
                       ELSE IF EndsWord(c, offer) THEN word[c] + 1 ELSE word[c]
         /\ inWord'[c] = IF EndsWord(c, offer) THEN 0
                         ELSE IF Uses(c, offer) /\ ~Remembered(c) THEN inWord[c] + 1 ELSE inWord[c]
         /\ prev'[c] = IF EndsSlide(c, offer) THEN {}
                       ELSE IF Uses(c, offer) THEN prev[c] \cup {Packet(c).lane} ELSE prev[c]
<1>1. UnitInv(c)
  BY DEF InCycle, SlideInv
<1>2. issuing[c] \in {1, 2} /\ ring[c] \in {1, 2}
  BY <1>1 DEF UnitInv
<1>3. NextSlide(issuing[c], c) = 2 /\ NextSlide(ring[c], c) = 2
  <2>1. NextSlide(1, c) = 2 /\ NextSlide(2, c) = 2
    BY NextSlideIs DEF InCycle, SlideInv
  <2>2. QED
    BY <1>2, <2>1
<1>4. SlideCycle(S, receivers)
  BY DEF InCycle
<1>5. QED
  BY <1>3, <1>4 DEF SlideCycle

\* What it takes to use a packet, and to be done with the slide.
LEMMA ReceivingIs ==
  ASSUME NEW S, NEW receivers, InCycle(S, receivers), NEW c \in Clusters
  PROVE  LET offer == Showing(S) IN
         /\ Expecting(c, offer) => ring[c] = 1
         /\ EndsWord(c, offer) => ring[c] = 1
         /\ EndsWord(c, offer) /\ ~Uses(c, offer) => EndsSlide(c, offer)
         /\ EndsSlide(c, offer) => EndsWord(c, offer) /\ issuing'[c] = 2
<1> DEFINE offer == Showing(S)
<1>1. UnitInv(c)
  BY DEF InCycle, SlideInv
<1>2. /\ issuing[c] \in {1, 2} /\ ring[c] \in {1, 2} /\ taken[c] \in {0, 1} /\ out[c] \in Nat
      /\ word[c] \in Nat /\ (issuing[c] = 1 => ring[c] = 1 /\ out[c] < Total(c))
  BY <1>1 DEF UnitInv
<1>3. Expecting(c, offer) => ring[c] = 1
  BY <1>2 DEF Expecting, NoSlide
<1>4. EndsWord(c, offer) => Expecting(c, offer)
  BY DEF EndsWord, EndsAlone, Uses
<1>5. EndsWord(c, offer) /\ ~Uses(c, offer) => EndsSlide(c, offer)
  BY DEF EndsWord, EndsAlone, EndsSlide
<1>6. ASSUME EndsSlide(c, offer)
      PROVE  issuing'[c] = 2
  <2>1. Expecting(c, offer) /\ ring[c] = 1
    BY <1>3, <1>4, <1>6 DEF EndsSlide
  <2>2. word[c] = Words(theSlide, c) - 1
    BY <1>6, <2>1 DEF EndsSlide, theSlide
  <2>3. /\ issuing'[c] = IF Accepted(c, offer) /\ AllSent(c, offer) THEN 2 ELSE issuing[c]
    BY UnitNext
  <2>4. CASE issuing[c] # 1
    BY <1>2, <2>3, <2>4
  <2>5. CASE issuing[c] = 1
    <3> DEFINE st == theSlide.stride
               W == Words(theSlide, c)
               k == SentBy(c, offer)
               acc == Accepted(c, offer)
    <3>1. st \in Nat \ {0} /\ W \in Nat /\ Total(c) = W * st
      BY TheSlideIs, PacketsFromAre DEF Total, InCycle, SlideInv
    <3>2. k \div st > word[c]
      BY <2>1, <2>5 DEF Expecting, PerWord, theSlide
    <3>3. k = (IF acc THEN out[c] + 1 ELSE out[c]) /\ (AllSent(c, offer) <=> k = Total(c))
      BY <2>5, SendingIs
    <3>4. k \in Nat
      BY <3>3, <1>2
    <3> HIDE DEF st, W, k, acc
    <3>5. k >= W * st
      <4> DEFINE q == k \div st
                 u == k % st
      <4>1. q \in Nat /\ u \in 0 .. st - 1 /\ k = st * q + u
        BY <3>1, <3>4, DivModParts
      <4>2. q >= W
        <5>1. q > W - 1
          BY <2>2, <3>2 DEF W
        <5> HIDE DEF q
        <5>2. QED
          BY <3>1, <4>1, <5>1
      <4> HIDE DEF q, u
      <4>3. PICK e \in Nat : q = W + e
        <5>1. q - W \in Nat /\ q = W + (q - W)
          BY <3>1, <4>1, <4>2
        <5>2. QED
          BY <5>1
      <4>4. st * q = W * st + st * e /\ st * e \in Nat /\ W * st \in Nat
        BY <3>1, <4>3
      <4>5. QED
        BY <3>1, <4>1, <4>4
    <3>6. out[c] < W * st /\ W * st \in Nat
      BY <1>2, <2>5, <3>1
    <3>7. acc /\ k = W * st
      <4>1. CASE acc
        BY <3>3, <3>5, <3>6, <1>2, <4>1
      <4>2. CASE ~acc
        BY <3>3, <3>5, <3>6, <1>2, <4>2
      <4>3. QED
        BY <4>1, <4>2
    <3>8. QED
      BY <2>3, <3>1, <3>3, <3>7 DEF acc
  <2>6. QED
    BY <2>4, <2>5
<1>7. EndsSlide(c, offer) => EndsWord(c, offer)
  BY DEF EndsSlide
<1>8. QED
  BY <1>3, <1>4, <1>5, <1>6, <1>7

\* The dispatcher of a cluster hands the slide over once.
LEMMA TakingIs ==
  ASSUME NEW S, NEW receivers, InCycle(S, receivers), NEW c \in Clusters
  PROVE  /\ c \in receivers => taken[c] = 0 /\ HasElement(c) /\ taken'[c] = 1
         /\ c \notin receivers => taken'[c] = taken[c]
         /\ taken'[c] \in {0, 1} /\ (taken[c] = 1 => taken'[c] = 1)
<1>1. /\ OneSlideEach /\ program \in Programs /\ receivers \in Receivers /\ UnitInv(c)
  BY DEF InCycle, SlideInv
<1>2. taken[c] \in {0, 1}
  BY <1>1 DEF UnitInv
<1>3. taken'[c] = IF c \in receivers THEN NextSlide(taken[c], c) ELSE taken[c]
  BY UnitNext
<1>4. /\ NextSlide(0, c) = (IF HasElement(c) THEN 1 ELSE 2) /\ NextSlide(1, c) = 2
      /\ Len(program) = 1
  BY <1>1, NextSlideIs, TheSlideIs
<1>5. c \in receivers => MayReceive(c)
  BY <1>1 DEF Receivers
<1>6. c \in receivers => NextSlide(taken[c], c) <= 1
  BY <1>4, <1>5 DEF MayReceive
<1>7. CASE taken[c] = 0
  <2>1. CASE HasElement(c)
    BY <1>3, <1>4, <1>7, <2>1
  <2>2. CASE ~HasElement(c)
    BY <1>3, <1>4, <1>6, <1>7, <2>2
  <2>3. QED
    BY <2>1, <2>2
<1>8. CASE taken[c] = 1
  BY <1>3, <1>4, <1>6, <1>8
<1>9. QED
  BY <1>2, <1>7, <1>8

LEMMA SentNextIs ==
  ASSUME NEW S, NEW receivers, InCycle(S, receivers), NEW c \in Clusters
  PROVE  /\ SentOf(c) \in Nat /\ Total(c) \in Nat /\ SentOf(c) <= Total(c)
         /\ SentOf(c)' = (IF Accepted(c, Showing(S)) THEN SentOf(c) + 1 ELSE SentOf(c))
         /\ Accepted(c, Showing(S)) => SentOf(c) < Total(c)
<1> DEFINE offer == Showing(S)
           acc == Accepted(c, offer)
           all == AllSent(c, offer)
<1>1. UnitInv(c) /\ program' = program /\ OneSlideEach /\ program \in Programs
  BY DEF InCycle, SlideInv, SlideCycle
<1>2. Total(c)' = Total(c) /\ Total(c) \in Nat
  BY <1>1, SlideStays, PacketsFromAre
<1>3. /\ issuing[c] \in {1, 2} /\ out[c] \in Nat /\ (issuing[c] = 1 => out[c] < Total(c))
  BY <1>1 DEF UnitInv
<1>4. /\ issuing'[c] = IF acc /\ all THEN 2 ELSE issuing[c]
      /\ out'[c] = IF acc /\ all THEN 0 ELSE SentBy(c, offer)
  BY UnitNext
<1>5. /\ acc => issuing[c] = 1
      /\ SentBy(c, offer) = (IF acc THEN out[c] + 1 ELSE out[c])
      /\ issuing[c] = 1 => (all <=> SentBy(c, offer) = Total(c))
  BY SendingIs
<1>6. SentOf(c)' = IF issuing'[c] = 1 THEN out'[c] ELSE Total(c)
  BY <1>2 DEF SentOf
<1> DEFINE n == SentBy(c, offer)
<1> HIDE DEF acc, all, n
<1>7. CASE acc
  <2>1. issuing[c] = 1 /\ n = out[c] + 1 /\ SentOf(c) = out[c] /\ (all <=> n = Total(c))
    BY <1>5, <1>7 DEF SentOf, n
  <2>2. SentOf(c)' = n
    <3>1. CASE all
      BY <1>4, <1>6, <1>7, <2>1, <3>1
    <3>2. CASE ~all
      BY <1>4, <1>6, <1>7, <2>1, <3>2 DEF n
    <3>3. QED
      BY <3>1, <3>2
  <2>3. SentOf(c) \in Nat /\ SentOf(c) < Total(c) /\ SentOf(c)' = SentOf(c) + 1
    BY <1>3, <2>1, <2>2
  <2>4. QED
    BY <1>2, <1>7, <2>3 DEF acc
<1>8. CASE ~acc
  <2>1. issuing'[c] = issuing[c] /\ out'[c] = out[c]
    BY <1>4, <1>5, <1>8
  <2>2. SentOf(c)' = SentOf(c)
    BY <1>6, <2>1 DEF SentOf
  <2>3. SentOf(c) \in Nat /\ SentOf(c) <= Total(c)
    BY <1>2, <1>3 DEF SentOf
  <2>4. QED
    BY <1>2, <1>8, <2>2, <2>3 DEF acc
<1>9. QED
  BY <1>7, <1>8

LEMMA UnitStays ==
  ASSUME NEW S, NEW receivers, InCycle(S, receivers), NEW c \in Clusters
  PROVE  UnitInv(c)'
<1> DEFINE offer == Showing(S)
           acc == Accepted(c, offer)
           all == AllSent(c, offer)
           st == theSlide.stride
<1>1. UnitInv(c) /\ program' = program /\ OneSlideEach /\ program \in Programs
  BY DEF InCycle, SlideInv, SlideCycle
<1>2. theSlide' = theSlide /\ Total(c)' = Total(c) /\ (HasElement(c)' <=> HasElement(c))
  BY <1>1, SlideStays
<1>3. st \in Nat \ {0} /\ Total(c) \in Nat
  BY <1>1, TheSlideIs, PacketsFromAre
<1>4. /\ issuing[c] \in {1, 2} /\ ring[c] \in {1, 2} /\ taken[c] \in {0, 1}
      /\ out[c] \in Nat /\ word[c] \in Nat /\ inWord[c] \in 0 .. st - 1
  BY <1>1 DEF UnitInv
<1>5. /\ issuing[c] = 1 => ring[c] = 1 /\ out[c] < Total(c)
      /\ ~HasElement(c) => issuing[c] = 2 /\ ring[c] = 2
      /\ run[c] => issuing[c] = 1 /\ taken[c] = 1
  BY <1>1 DEF UnitInv
<1>6. /\ acc => issuing[c] = 1 /\ ring[c] = 1 /\ taken[c] = 1
      /\ SentBy(c, offer) = (IF acc THEN out[c] + 1 ELSE out[c])
      /\ issuing[c] = 1 => (all <=> SentBy(c, offer) = Total(c))
  BY SendingIs
<1>7. /\ run'[c] = IF run[c] THEN ~(acc /\ all) ELSE InSync(c)
      /\ issuing'[c] = IF acc /\ all THEN 2 ELSE issuing[c]
      /\ out'[c] = IF acc /\ all THEN 0 ELSE SentBy(c, offer)
      /\ ring'[c] = IF EndsSlide(c, offer) THEN 2 ELSE ring[c]
      /\ word'[c] = IF EndsSlide(c, offer) THEN 0
                    ELSE IF EndsWord(c, offer) THEN word[c] + 1 ELSE word[c]
      /\ inWord'[c] = IF EndsWord(c, offer) THEN 0
                      ELSE IF Uses(c, offer) /\ ~Remembered(c) THEN inWord[c] + 1 ELSE inWord[c]
  BY UnitNext
<1>8. taken'[c] \in {0, 1} /\ (taken[c] = 1 => taken'[c] = 1)
  BY TakingIs
<1>9. EndsSlide(c, offer) => issuing'[c] = 2
  BY ReceivingIs
<1> DEFINE n == SentBy(c, offer)
           ends == EndsSlide(c, offer)
           endsWord == EndsWord(c, offer)
           uses == Uses(c, offer) /\ ~Remembered(c)
<1>11. uses => endsWord \/ inWord[c] # st - 1
  <2>1. Uses(c, offer) => ring[c] = 1
    BY ReceivingIs DEF Uses
  <2>2. QED
    BY <2>1 DEF EndsWord, PerWord, theSlide
<1> HIDE DEF st, acc, all, n, ends, endsWord, uses
<1>12. issuing'[c] \in {1, 2} /\ ring'[c] \in {1, 2}
  BY <1>4, <1>7
<1>13. out'[c] \in Nat /\ word'[c] \in Nat
  <2>1. n \in Nat
    BY <1>4, <1>6 DEF n
  <2>2. word[c] + 1 \in Nat /\ 0 \in Nat
    BY <1>4
  <2>3. QED
    BY <1>4, <1>7, <2>1, <2>2 DEF n
<1>14. inWord'[c] \in 0 .. st - 1
  <2>1. inWord'[c] = IF endsWord THEN 0 ELSE IF uses THEN inWord[c] + 1 ELSE inWord[c]
    BY <1>7 DEF endsWord, uses
  <2>2. uses /\ ~endsWord => inWord[c] + 1 \in 0 .. st - 1
    <3>1. inWord[c] # st - 1 => inWord[c] + 1 \in 0 .. st - 1
      BY <1>3, <1>4
    <3>2. QED
      BY <1>11, <3>1
  <2>3. 0 \in 0 .. st - 1
    BY <1>3
  <2>4. CASE endsWord
    BY <2>1, <2>3, <2>4
  <2>5. CASE ~endsWord /\ uses
    BY <2>1, <2>2, <2>5
  <2>6. CASE ~endsWord /\ ~uses
    BY <1>4, <2>1, <2>6
  <2>7. QED
    BY <2>4, <2>5, <2>6
<1>15. issuing'[c] = 1 => ring'[c] = 1 /\ out'[c] < Total(c)
  <2>1. SUFFICES ASSUME issuing'[c] = 1
                 PROVE  ring'[c] = 1 /\ out'[c] < Total(c)
    OBVIOUS
  <2>2. ~(acc /\ all) /\ issuing[c] = 1
    BY <1>4, <1>7, <2>1
  <2>3. ~ends
    BY <1>9, <2>1 DEF ends
  <2>4. ring'[c] = 1
    BY <1>5, <1>7, <2>2, <2>3 DEF ends
  <2>5. out'[c] = n /\ n = (IF acc THEN out[c] + 1 ELSE out[c]) /\ out[c] < Total(c)
        /\ (acc => n # Total(c))
    BY <1>5, <1>6, <1>7, <2>2 DEF n
  <2>6. n < Total(c)
    <3>1. CASE acc
      BY <1>3, <1>4, <2>5, <3>1
    <3>2. CASE ~acc
      BY <2>5, <3>2
    <3>3. QED
      BY <3>1, <3>2
  <2>7. QED
    BY <2>4, <2>5, <2>6
<1>16. ~HasElement(c) => issuing'[c] = 2 /\ ring'[c] = 2
  BY <1>5, <1>7
<1>17. run'[c] => issuing'[c] = 1 /\ taken'[c] = 1
  <2>1. CASE run[c]
    BY <1>5, <1>7, <1>8, <2>1
  <2>2. CASE ~run[c]
    <3>1. InSync(c) => issuing[c] = 1 /\ taken[c] = 1 /\ ~run[c]
      BY <1>4, <2>2 DEF InSync
    <3>2. acc => run[c]
      <4>1. Accepted(c, offer) => c \in offer
        BY DEF Accepted, JoiningReady, Joining
      <4>2. c \in offer => run[c]
        BY DEF Showing, MaySend
      <4>3. QED
        BY <4>1, <4>2 DEF acc
    <3>3. QED
      BY <1>7, <1>8, <2>2, <3>1, <3>2
  <2>3. QED
    BY <2>1, <2>2
<1>18. QED
  BY <1>2, <1>8, <1>12, <1>13, <1>14, <1>15, <1>16, <1>17 DEF UnitInv, st

\* What a cluster sends goes all the same way.
LEMMA SentNowIs ==
  ASSUME NEW S, NEW receivers, InCycle(S, receivers), NEW p \in Pairs
  PROVE  LET b == p[1]
             acc == Accepted(b, Showing(S)) IN
         /\ SentNow(p, Showing(S)) =
              IF acc /\ Route(p) THEN <<PacketsFrom(b)[SentOf(b) + 1]>> ELSE <<>>
         /\ todo'[b] = Part(PacketsFrom(b), SentOf(b)', Total(b))
<1> DEFINE b == p[1]
           offer == Showing(S)
           acc == Accepted(b, offer)
           P == PacketsFrom(b)
           n == SentOf(b)
           t == Total(b)
<1>1. b \in Clusters /\ RingInv /\ OneSlideEach /\ program \in Programs
  BY DEF Pairs, InCycle, SlideInv
<1>2. todo[b] = Part(P, n, t)
  BY <1>1 DEF InCycle, SlideInv, WaysInv
<1>3. /\ todo'[b] = IF acc THEN Tail(todo[b]) ELSE todo[b]
      /\ acc => todo[b] # <<>>
  BY <1>1, CycleSends DEF InCycle, SlideCycle
<1>4. /\ n \in Nat /\ t \in Nat /\ n <= t /\ (acc => n < t)
      /\ SentOf(b)' = (IF acc THEN n + 1 ELSE n)
  BY <1>1, SentNextIs
<1>5. /\ Len(P) = t /\ \E Z : P \in Seq(Z)
      /\ \A j \in 1 .. t : PacketIs(theSlide, b, j, P[j])
  BY <1>1, PacketsFromAre
<1>6. acc => HasElement(b)
  <2>1. acc => issuing[b] = 1
    BY <1>1, SendingIs
  <2>2. ~HasElement(b) => issuing[b] = 2
    BY <1>1 DEF InCycle, SlideInv, UnitInv
  <2>3. QED
    BY <2>1, <2>2
<1> HIDE DEF b, offer, acc, P, n, t
<1>7. CASE acc
  <2>1. Head(todo[b]) = P[n + 1] /\ Tail(todo[b]) = Part(P, n + 1, t)
    <3>1. t <= Len(P) /\ n < t
      BY <1>4, <1>5, <1>7
    <3>2. PICK Z : P \in Seq(Z)
      BY <1>5
    <3>3. QED
      BY <1>2, <1>4, <3>1, <3>2, PartIs
  <2>2. PacketIs(theSlide, b, n + 1, P[n + 1])
    <3>1. n + 1 \in 1 .. t
      BY <1>4, <1>7
    <3>2. QED
      BY <1>5, <3>1
  <2>3. Mine(p, Head(todo[b])) <=> Route(p)
    <3>1. P[n + 1].src = b /\ P[n + 1].dst = Dst(theSlide, b)
      BY <2>2 DEF PacketIs
    <3>2. QED
      BY <1>6, <1>7, <2>1, <3>1 DEF Mine, Route, b
  <2>4. SentNow(p, offer) = IF Route(p) THEN <<P[n + 1]>> ELSE <<>>
    BY <1>7, <2>1, <2>3 DEF SentNow, acc, b
  <2>5. todo'[b] = Part(P, SentOf(b)', t)
    BY <1>3, <1>4, <1>7, <2>1
  <2>6. QED
    BY <1>7, <2>4, <2>5 DEF b, offer, acc, P, n, t
<1>8. CASE ~acc
  <2>1. SentNow(p, offer) = <<>>
    BY <1>8 DEF SentNow, acc, b
  <2>2. todo'[b] = Part(P, SentOf(b)', t)
    BY <1>2, <1>3, <1>4, <1>8
  <2>3. QED
    BY <1>8, <2>1, <2>2 DEF b, offer, acc, P, n, t
<1>9. QED
  BY <1>7, <1>8

LEMMA WayStays ==
  ASSUME NEW S, NEW receivers, InCycle(S, receivers), NEW p \in Pairs
  PROVE  /\ Route(p) => /\ arrived'[p] <= SentOf(p[1])'
                        /\ OnTheWay(p)' = Part(PacketsFrom(p[1]), arrived'[p], SentOf(p[1])')
                        /\ TakenNow(p, Taking(Showing(S))) =>
                             /\ arrived[p] < SentOf(p[1])
                             /\ Packet(p[2]) = PacketsFrom(p[1])[arrived[p] + 1]
         /\ ~Route(p) => OnTheWay(p)' = <<>> /\ ~TakenNow(p, Taking(Showing(S)))
<1> DEFINE b == p[1]
           offer == Showing(S)
           acc == Accepted(b, offer)
           P == PacketsFrom(b)
           n == SentOf(b)
           n2 == SentOf(b)'
           t == Total(b)
           a == arrived[p]
           a2 == arrived'[p]
           v == OnTheWay(p)
           v2 == OnTheWay(p)'
           took == TakenNow(p, Taking(offer))
           new == SentNow(p, offer)
<1>1. b \in Clusters /\ RingInv /\ OneSlideEach /\ program \in Programs
  BY DEF Pairs, InCycle, SlideInv
<1>2. /\ Route(p) => a <= n /\ v = Part(P, a, n)
      /\ ~Route(p) => v = <<>>
  BY <1>1 DEF InCycle, SlideInv, WaysInv
<1>3. /\ n \in Nat /\ t \in Nat /\ n <= t /\ (acc => n < t)
      /\ n2 = (IF acc THEN n + 1 ELSE n)
  BY <1>1, SentNextIs
<1>4. Len(P) = t /\ \E Z : P \in Seq(Z)
  BY <1>1, PacketsFromAre
<1>5. new = IF acc /\ Route(p) THEN <<P[n + 1]>> ELSE <<>>
  BY SentNowIs
<1>6. /\ a \in Nat
      /\ ~took => a2 = a /\ v2 = v \o new
      /\ took => a2 = a + 1 /\ v # <<>> /\ Head(v) = Packet(p[2]) /\ v2 = Tail(v) \o new
  <2>1. Cycle(offer, Taking(offer))
    BY DEF InCycle, SlideCycle
  <2>2. QED
    BY <1>1, <2>1, WayInCycle
<1> HIDE DEF b, offer, acc, P, n, n2, t, a, a2, v, v2, took, new
<1>7. PICK Z : P \in Seq(Z)
  BY <1>4
<1>8. CASE ~Route(p)
  <2>1. <<>> \o <<>> = <<>>
    OBVIOUS
  <2>2. ~took /\ v2 = <<>>
    BY <1>2, <1>5, <1>6, <1>8, <2>1
  <2>3. QED
    BY <1>8, <2>2 DEF took, v2, offer
<1>9. CASE Route(p)
  <2>1. \A x \in Nat : x <= n => Part(P, x, n) \o new = Part(P, x, n2)
    <3>1. SUFFICES ASSUME NEW x \in Nat, x <= n
                   PROVE  Part(P, x, n) \o new = Part(P, x, n2)
      OBVIOUS
    <3>2. n <= Len(P) /\ (acc => n < Len(P))
      BY <1>3, <1>4
    <3>3. /\ n < Len(P) => Part(P, x, n) \o <<P[n + 1]>> = Part(P, x, n + 1)
          /\ Part(P, x, n) \o <<>> = Part(P, x, n)
      BY <1>3, <1>7, <3>1, <3>2, PartIs
    <3>4. QED
      BY <1>3, <1>5, <1>9, <3>2, <3>3
  <2>2. CASE ~took
    <3>1. a2 <= n2
      BY <1>2, <1>3, <1>6, <1>9, <2>2
    <3>2. v2 = Part(P, a2, n2)
      BY <1>2, <1>6, <1>9, <2>1, <2>2
    <3>3. QED
      BY <1>9, <2>2, <3>1, <3>2 DEF took, v2, offer, a2, n2, P, b
  <2>3. CASE took
    <3>1. n <= Len(P)
      BY <1>3, <1>4
    <3>2. /\ v # <<>> => a < n
          /\ a < n => Head(v) = P[a + 1] /\ Tail(v) = Part(P, a + 1, n)
      <4>1. a \in Nat /\ a <= n /\ n \in Nat /\ v = Part(P, a, n)
        BY <1>2, <1>3, <1>6, <1>9
      <4>2. /\ Part(P, a, n) # <<>> => a < n
            /\ a < n => /\ Head(Part(P, a, n)) = P[a + 1]
                        /\ Tail(Part(P, a, n)) = Part(P, a + 1, n)
        BY <1>7, <3>1, <4>1, PartIs
      <4>3. QED
        BY <4>1, <4>2
    <3>3. a < n /\ Packet(p[2]) = P[a + 1] /\ v2 = Part(P, a + 1, n) \o new
      BY <1>6, <2>3, <3>2
    <3>4. a + 1 <= n /\ a + 1 \in Nat
      BY <1>3, <1>6, <3>3
    <3>5. v2 = Part(P, a2, n2)
      BY <1>6, <2>1, <2>3, <3>3, <3>4
    <3>6. a2 <= n2
      BY <1>3, <1>6, <2>3, <3>4
    <3>7. QED
      BY <1>9, <3>3, <3>5, <3>6 DEF took, v2, offer, a, a2, n, n2, P, b
  <2>4. QED
    BY <2>2, <2>3
<1>10. QED
  BY <1>8, <1>9

LEMMA WaysStay ==
  ASSUME NEW S, NEW receivers, InCycle(S, receivers)
  PROVE  WaysInv'
<1>1. program' = program
  BY DEF InCycle, SlideCycle
<1>2. /\ \A c : Total(c)' = Total(c) /\ PacketsFrom(c)' = PacketsFrom(c)
      /\ \A p : Route(p)' <=> Route(p)
  BY <1>1, SlideStays
<1>3. ASSUME NEW c \in Clusters
      PROVE  todo'[c] = Part(PacketsFrom(c), SentOf(c)', Total(c))
  <2>1. <<c, c>> \in Pairs /\ <<c, c>>[1] = c
    BY DEF Pairs
  <2>2. QED
    BY <2>1, SentNowIs
<1>4. \A p \in Pairs :
        /\ Route(p) => /\ arrived'[p] <= SentOf(p[1])'
                       /\ OnTheWay(p)' = Part(PacketsFrom(p[1]), arrived'[p], SentOf(p[1])')
        /\ ~Route(p) => OnTheWay(p)' = <<>>
  BY WayStays
<1>5. QED
  BY <1>2, <1>3, <1>4 DEF WaysInv

LEMMA CountStep ==
  ASSUME NEW st \in Nat \ {0}, NEW w \in Nat, NEW n \in 0 .. st - 1
  PROVE  /\ w * st + n \in Nat /\ (w * st + n) \div st = w /\ (w * st + n) % st = n
         /\ w * st + (n + 1) = (w * st + n) + 1
         /\ n = st - 1 => (w + 1) * st + 0 = (w * st + n) + 1
<1>1. (st * w + n) \div st = w /\ (st * w + n) % st = n
  BY DivModUnique
<1>2. st * w = w * st /\ w * st \in Nat /\ (w + 1) * st = w * st + st
  OBVIOUS
<1>3. QED
  BY <1>1, <1>2

\* The next packet of a cluster: what it counts for, in the last cluster of a
\* slide down and elsewhere.
Counts(s, c, lanes, w, n, a, x) ==
  LET first == Down(s) /\ c = MaxCluster /\ x \notin lanes
      lanes2 == lanes \cup {x} IN
  /\ first => CountedBy(s, c, lanes2, w, n, a + 1) /\ a \div s.stride = 0
  /\ ~first /\ n = s.stride - 1 => CountedBy(s, c, lanes2, w + 1, 0, a + 1)
  /\ ~first /\ n # s.stride - 1 => CountedBy(s, c, lanes2, w, n + 1, a + 1)
  /\ ~first => a \div s.stride = IF Down(s) /\ c = MaxCluster THEN w + 1 ELSE w

LEMMA CountsOn ==
  ASSUME NEW s, IsSlide(s), NEW c \in Clusters, NEW lanes, NEW w \in Nat,
         NEW n \in 0 .. s.stride - 1, NEW a \in Nat, CountedBy(s, c, lanes, w, n, a)
  PROVE  Counts(s, c, lanes, w, n, a, LaneOf(s, a % s.stride))
<1> DEFINE st == s.stride
           x == LaneOf(s, a % st)
           b == w * st + n
<1>1. st \in Nat \ {0} /\ NrLanes \in Nat \ {0}
  BY LanesAre DEF IsSlide
<1>2. /\ b \in Nat /\ b \div st = w /\ b % st = n /\ w * st + (n + 1) = b + 1
      /\ n = st - 1 => (w + 1) * st + 0 = b + 1
  <2> HIDE DEF st
  <2>1. QED
    BY <1>1, CountStep DEF st
<1>3. CASE ~(Down(s) /\ c = MaxCluster)
  <2>1. a = b
    BY <1>3 DEF CountedBy
  <2>2. a \div st = w
    BY <1>2, <2>1
  <2>3. \A l, v, m : CountedBy(s, c, l, v, m, a + 1) <=> a + 1 = v * st + m
    BY <1>3 DEF CountedBy
  <2> HIDE DEF b, x, st
  <2>4. /\ n = st - 1 => CountedBy(s, c, lanes \cup {x}, w + 1, 0, a + 1)
        /\ CountedBy(s, c, lanes \cup {x}, w, n + 1, a + 1)
    BY <1>2, <2>1, <2>3
  <2>5. QED
    BY <1>3, <2>2, <2>4 DEF Counts, st, x
<1>4. CASE Down(s) /\ c = MaxCluster
  <2> DEFINE before(k) == {LaneOf(s, i) : i \in {y \in 0 .. st - 1 : y < k}}
  <2>1. lanes = before(a) /\ b = IF a < st THEN 0 ELSE a - st
    BY <1>4 DEF CountedBy
  <2>2. \A l, v, m : CountedBy(s, c, l, v, m, a + 1) <=>
          l = before(a + 1) /\ v * st + m = IF a + 1 < st THEN 0 ELSE (a + 1) - st
    BY <1>4 DEF CountedBy
  <2>3. \A i \in 0 .. st - 1 : LaneOf(s, i) = NrLanes - st + i
    BY <1>4 DEF LaneOf
  <2>4. \A i, j \in 0 .. st - 1 : LaneOf(s, i) = LaneOf(s, j) => i = j
    BY <1>1, <2>3
  <2>5. CASE a < st
    <3>1. a \in 0 .. st - 1 /\ a % st = a /\ a \div st = 0
      <4>1. a \in 0 .. st - 1
        BY <1>1, <2>5
      <4>2. (st * 0 + a) % st = a /\ (st * 0 + a) \div st = 0
        BY <1>1, <4>1, DivModUnique
      <4>3. st * 0 + a = a
        BY <1>1
      <4>4. QED
        BY <4>1, <4>2, <4>3
    <3>2. x = LaneOf(s, a)
      BY <3>1
    <3>3. x \notin before(a)
      <4>1. \A i \in 0 .. st - 1 : i < a => LaneOf(s, i) # LaneOf(s, a)
        <5>1. \A i \in 0 .. st - 1 : i < a => i # a
          BY <1>1
        <5>2. QED
          BY <2>4, <3>1, <5>1
      <4>2. QED
        BY <3>2, <4>1
    <3>4. before(a) \cup {x} = before(a + 1)
      <4>1. {y \in 0 .. st - 1 : y < a + 1} = {y \in 0 .. st - 1 : y < a} \cup {a}
        <5>1. \A y \in 0 .. st - 1 : y < a + 1 <=> y < a \/ y = a
          BY <1>1
        <5>2. QED
          BY <3>1, <5>1
      <4>2. QED
        BY <3>2, <4>1
    <3>5. b = 0 /\ (IF a + 1 < st THEN 0 ELSE (a + 1) - st) = 0
      BY <1>1, <2>1, <2>5
    <3> HIDE DEF before, x
    <3>6. CountedBy(s, c, lanes \cup {x}, w, n, a + 1)
      BY <2>1, <2>2, <3>4, <3>5
    <3>7. x \notin lanes
      BY <2>1, <3>3
    <3>8. QED
      BY <1>4, <3>1, <3>6, <3>7 DEF Counts, x
  <2>6. CASE ~(a < st)
    <3>1. /\ b = a - st /\ a = b + st /\ \A y \in 0 .. st - 1 : y < a /\ y < a + 1
          /\ ~(a + 1 < st) /\ (a + 1) - st = b + 1
      <4>1. b = a - st
        BY <2>1, <2>6
      <4> HIDE DEF b, st
      <4>2. QED
        BY <1>1, <2>6, <4>1
    <3>2. a % st = n /\ a \div st = w + 1
      <4> HIDE DEF b, st
      <4>1. (b + st) \div st = (b \div st) + 1 /\ (b + st) % st = b % st
        BY <1>1, <1>2, DivModPlusDivisor
      <4>2. QED
        BY <1>2, <3>1, <4>1
    <3>3. before(a) = before(a + 1)
      BY <3>1
    <3>4. x \in before(a)
      <4>1. {y \in 0 .. st - 1 : y < a} = 0 .. st - 1
        BY <3>1
      <4>2. x = LaneOf(s, n) /\ n \in 0 .. st - 1
        BY <3>2
      <4>3. QED
        BY <4>1, <4>2
    <3> HIDE DEF before, x, b
    <3>5. lanes \cup {x} = before(a + 1) /\ x \in lanes
      BY <2>1, <3>3, <3>4
    <3>6. (IF a + 1 < st THEN 0 ELSE (a + 1) - st) = b + 1
      BY <3>1
    <3>7. /\ n = st - 1 => CountedBy(s, c, lanes \cup {x}, w + 1, 0, a + 1)
          /\ CountedBy(s, c, lanes \cup {x}, w, n + 1, a + 1)
      BY <1>2, <2>2, <3>5, <3>6
    <3>8. QED
      BY <1>4, <3>2, <3>5, <3>7 DEF Counts, x
  <2>7. QED
    BY <2>5, <2>6
<1>5. QED
  BY <1>3, <1>4

\* Where the packets from b belong, seen from the cluster that gets them.
LEMMA RouteRow ==
  ASSUME NEW s, IsSlide(s), NEW b \in Clusters, NEW r \in Nat
  PROVE  LET c == Dst(s, b) IN
         \/ OneRow(s) /\ RowOf(s, b, r) = -1
         \/ RowOf(s, b, r) = IF Down(s) THEN IF c = MaxCluster THEN r - 1 ELSE r
                             ELSE IF c = 0 THEN r + 1 ELSE r
<1>1. N \in Nat \ {0} /\ b \in Nat /\ b <= N - 1
  BY NIsNat DEF Clusters
<1>2. CASE LeavesRow(s, Neighbour(s, b))
  BY <1>2 DEF RowOf, LeavesRow
<1>3. CASE ~LeavesRow(s, Neighbour(s, b))
  <2> DEFINE c == Dst(s, b)
  <2>1. c = IF Down(s) THEN IF b = 0 THEN N - 1 ELSE b - 1 ELSE IF b = N - 1 THEN 0 ELSE b + 1
    BY <1>3 DEF Dst, Neighbour
  <2>2. RowOf(s, b, r) = IF Down(s) THEN IF b = 0 THEN r - 1 ELSE r
                         ELSE IF b = N - 1 THEN r + 1 ELSE r
    BY <1>3 DEF RowOf
  <2> HIDE DEF c
  <2>3. IF Down(s) THEN c = N - 1 <=> b = 0 ELSE c = 0 <=> b = N - 1
    <3>1. CASE Down(s)
      BY <1>1, <2>1, <3>1
    <3>2. CASE ~Down(s)
      BY <1>1, <2>1, <3>2
    <3>3. QED
      BY <3>1, <3>2
  <2>4. QED
    BY <2>2, <2>3 DEF MaxCluster, c
<1>4. QED
  BY <1>2, <1>3

\* A cluster gets the packets of one cluster only.
LEMMA OneSource ==
  ASSUME OneSlideEach, program \in Programs, NEW p \in Pairs, NEW q \in Pairs,
         Route(p), Route(q), p[2] = q[2]
  PROVE  p = q
<1>1. IsSlide(theSlide) /\ p[1] \in Clusters /\ q[1] \in Clusters
  BY TheSlideIs DEF Pairs
<1>2. p[1] = q[1]
  BY <1>1, DstIs DEF Route, HasElement
<1>3. p = <<p[1], p[2]>> /\ q = <<q[1], q[2]>>
  BY DEF Pairs
<1>4. QED
  BY <1>2, <1>3

\* What a unit takes, to use or to drop it, is the next packet of the one
\* cluster that sends to it.
LEMMA TakenIs ==
  ASSUME NEW S, NEW receivers, InCycle(S, receivers), NEW p \in Pairs,
         TakenNow(p, Taking(Showing(S)))
  PROVE  /\ Route(p) /\ SentOf(p[1]) > 0
         /\ PacketIs(theSlide, p[1], arrived[p] + 1, Packet(p[2]))
<1>1. Route(p) /\ arrived[p] < SentOf(p[1]) /\ Packet(p[2]) = PacketsFrom(p[1])[arrived[p] + 1]
  BY WayStays
<1>2. p[1] \in Clusters /\ OneSlideEach /\ program \in Programs /\ arrived[p] \in Nat
  BY DEF Pairs, InCycle, SlideInv, RingInv
<1>3. SentOf(p[1]) \in Nat /\ Total(p[1]) \in Nat /\ SentOf(p[1]) <= Total(p[1])
  BY <1>2, SentNextIs
<1>4. arrived[p] + 1 \in 1 .. Total(p[1]) /\ SentOf(p[1]) > 0
  BY <1>1, <1>2, <1>3
<1>5. \A j \in 1 .. Total(p[1]) : PacketIs(theSlide, p[1], j, PacketsFrom(p[1])[j])
  BY <1>2, PacketsFromAre
<1>6. QED
  BY <1>1, <1>4, <1>5

\* A packet that is there and may be taken comes from a cluster.
LEMMA ComesFrom ==
  ASSUME NEW S, NEW receivers, InCycle(S, receivers), NEW c \in Clusters,
         PacketThere(c), c \in Taking(Showing(S))
  PROVE  \E p \in Pairs : p[2] = c /\ TakenNow(p, Taking(Showing(S)))
<1> DEFINE take == Taking(Showing(S))
           h == HomeSelected(c)
           p == <<Packet(c).src, c>>
<1>1. SlduReady(c, take)
  BY DEF SlduReady, PacketThere
<1>2. h \in Directions /\ AtHome(c, h)
  BY <1>1, HomeIsThere
<1>3. Packet(c).src \in Clusters
  <2>1. RingInv
    BY DEF InCycle, SlideInv
  <2> HIDE DEF h
  <2>2. inq[<<c, h>>] \in Seq(AtInput(c, h)) /\ inq[<<c, h>>] # <<>>
    BY <1>2, <2>1 DEF RingInv, Small, AtHome
  <2>3. Head(inq[<<c, h>>]) \in AtInput(c, h)
    BY <2>2, HeadApart
  <2>4. QED
    BY <2>3 DEF AtInput, Riding, Packet, h
<1>4. p \in Pairs /\ p[1] = Packet(c).src /\ p[2] = c
  BY <1>3 DEF Pairs
<1>5. TakenNow(p, take)
  BY <1>1, <1>4 DEF TakenNow, Packet
<1>6. QED
  BY <1>4, <1>5

LEMMA UsedIs ==
  ASSUME NEW S, NEW receivers, InCycle(S, receivers), NEW c \in Clusters, Uses(c, Showing(S))
  PROVE  /\ ring[c] = 1
         /\ \E p \in Pairs : /\ p[2] = c /\ Route(p) /\ TakenNow(p, Taking(Showing(S)))
                             /\ PacketIs(theSlide, p[1], arrived[p] + 1, Packet(c))
<1>1. Expecting(c, Showing(S)) /\ PacketThere(c)
  BY DEF Uses
<1>2. ring[c] = 1
  BY <1>1, ReceivingIs
<1>3. c \in Taking(Showing(S))
  BY <1>1 DEF Taking
<1>4. PICK p \in Pairs : p[2] = c /\ TakenNow(p, Taking(Showing(S)))
  BY <1>1, <1>3, ComesFrom
<1>5. QED
  BY <1>2, <1>4, TakenIs

\* Unless a packet has come before its slide, none is dropped until the slide ends.
LEMMA NothingDropped ==
  ASSUME NEW S, NEW receivers, InCycle(S, receivers), early' = {},
         NEW p \in Pairs, ring[p[2]] = 1, TakenNow(p, Taking(Showing(S)))
  PROVE  Uses(p[2], Showing(S))
<1> DEFINE c == p[2]
<1>1. c \in Clusters /\ taken[c] \in {0, 1}
  BY DEF Pairs, InCycle, SlideInv, UnitInv
<1>2. PacketThere(c) /\ c \in Taking(Showing(S))
  BY DEF TakenNow, SlduReady, PacketThere
<1>3. Packet(c).slide = 1
  BY TakenIs DEF PacketIs
<1>4. ~(NoSlide(c) /\ PacketThere(c) /\ Packet(c).slide > taken[c])
  BY <1>1 DEF InCycle, SlideCycle
<1>5. ~NoSlide(c)
  BY <1>1, <1>2, <1>3, <1>4 DEF NoSlide
<1>6. QED
  BY <1>2, <1>5 DEF Taking, Uses

\* What a packet is used for, and what it completes.
LEMMA UseIs ==
  ASSUME NEW S, NEW receivers, InCycle(S, receivers), NEW p \in Pairs, Route(p),
         Uses(p[2], Showing(S))
  PROVE  LET c == p[2] IN
         /\ TakenNow(p, Taking(Showing(S))) /\ ring[c] = 1
         /\ PacketIs(theSlide, p[1], arrived[p] + 1, Packet(c))
         /\ Remembered(c) <=>
              Down(theSlide) /\ c = MaxCluster /\ Packet(c).lane \notin prev[c]
         /\ EndsWord(c, Showing(S)) <=> ~Remembered(c) /\ inWord[c] = theSlide.stride - 1
         /\ Counts(theSlide, c, prev[c], word[c], inWord[c], arrived[p], Packet(c).lane)
<1> DEFINE c == p[2]
           a == arrived[p]
<1>1. /\ c \in Clusters /\ OneSlideEach /\ program \in Programs
      /\ UnitInv(c) /\ CountsInv /\ a \in Nat /\ IsSlide(theSlide)
  BY TheSlideIs DEF Pairs, InCycle, SlideInv, RingInv
<1>2. /\ ring[c] = 1
      /\ \E q \in Pairs : /\ q[2] = c /\ Route(q) /\ TakenNow(q, Taking(Showing(S)))
                          /\ PacketIs(theSlide, q[1], arrived[q] + 1, Packet(c))
  BY <1>1, UsedIs
<1>3. TakenNow(p, Taking(Showing(S))) /\ PacketIs(theSlide, p[1], a + 1, Packet(c))
  <2>1. PICK q \in Pairs : /\ q[2] = c /\ Route(q) /\ TakenNow(q, Taking(Showing(S)))
                           /\ PacketIs(theSlide, q[1], arrived[q] + 1, Packet(c))
    BY <1>2
  <2>2. q = p
    BY <1>1, <2>1, OneSource
  <2>3. QED
    BY <2>1, <2>2
<1>4. Remembered(c) <=> Down(theSlide) /\ c = MaxCluster /\ Packet(c).lane \notin prev[c]
  BY <1>2 DEF Remembered, Down, theSlide
<1>5. EndsWord(c, Showing(S)) <=> ~Remembered(c) /\ inWord[c] = theSlide.stride - 1
  <2>1. ~EndsAlone(c, Showing(S))
    BY DEF EndsAlone, Uses
  <2>2. QED
    BY <1>2, <2>1 DEF EndsWord, PerWord, theSlide
<1>6. Packet(c).lane = LaneOf(theSlide, a % theSlide.stride)
  <2>1. (a + 1) - 1 = a
    BY <1>1
  <2>2. QED
    BY <1>3, <2>1 DEF PacketIs
<1>7. CountedBy(theSlide, c, prev[c], word[c], inWord[c], a)
  BY <1>1, <1>2 DEF CountsInv, Counted
<1>8. word[c] \in Nat /\ inWord[c] \in 0 .. theSlide.stride - 1
  BY <1>1 DEF UnitInv
<1>9. Counts(theSlide, c, prev[c], word[c], inWord[c], a, LaneOf(theSlide, a % theSlide.stride))
  <2> HIDE DEF c, a
  <2>1. QED
    BY <1>1, <1>7, <1>8, CountsOn
<1>10. QED
  BY <1>2, <1>3, <1>4, <1>5, <1>6, <1>9

LEMMA CountsStay ==
  ASSUME NEW S, NEW receivers, InCycle(S, receivers), early' = {}
  PROVE  CountsInv'
<1>1. program' = program /\ CountsInv /\ RingInv /\ OneSlideEach /\ program \in Programs
  BY DEF InCycle, SlideInv, SlideCycle
<1>2. theSlide' = theSlide /\ \A p : Route(p)' <=> Route(p)
  BY <1>1, SlideStays
<1>3. ASSUME NEW p \in Pairs, Route(p), ring'[p[2]] = 1
      PROVE  CountedBy(theSlide, p[2], prev'[p[2]], word'[p[2]], inWord'[p[2]], arrived'[p])
  <2> DEFINE c == p[2]
             offer == Showing(S)
             a == arrived[p]
             st == theSlide.stride
             took == TakenNow(p, Taking(offer))
  <2>1. c \in Clusters /\ a \in Nat
    BY <1>1 DEF Pairs, RingInv
  <2>2. /\ ring'[c] = IF EndsSlide(c, offer) THEN 2 ELSE ring[c]
        /\ word'[c] = IF EndsSlide(c, offer) THEN 0
                      ELSE IF EndsWord(c, offer) THEN word[c] + 1 ELSE word[c]
        /\ inWord'[c] = IF EndsWord(c, offer) THEN 0
                        ELSE IF Uses(c, offer) /\ ~Remembered(c) THEN inWord[c] + 1 ELSE inWord[c]
        /\ prev'[c] = IF EndsSlide(c, offer) THEN {}
                      ELSE IF Uses(c, offer) THEN prev[c] \cup {Packet(c).lane} ELSE prev[c]
    BY <2>1, UnitNext
  <2>3. ~EndsSlide(c, offer) /\ ring[c] = 1
    BY <1>3, <2>2
  <2>4. EndsWord(c, offer) => Uses(c, offer)
    BY <2>1, <2>3, ReceivingIs
  <2>5. arrived'[p] = IF took THEN a + 1 ELSE a
    <3>1. Cycle(offer, Taking(offer))
      BY DEF InCycle, SlideCycle
    <3>2. QED
      BY <1>1, <3>1, WayInCycle
  <2>6. CASE Uses(c, offer)
    <3>1. /\ took
          /\ Remembered(c) <=> Down(theSlide) /\ c = MaxCluster /\ Packet(c).lane \notin prev[c]
          /\ EndsWord(c, offer) <=> ~Remembered(c) /\ inWord[c] = st - 1
          /\ Counts(theSlide, c, prev[c], word[c], inWord[c], a, Packet(c).lane)
      BY <1>3, <2>6, UseIs
    <3>2. arrived'[p] = a + 1 /\ prev'[c] = prev[c] \cup {Packet(c).lane}
      BY <2>2, <2>3, <2>5, <2>6, <3>1
    <3>3. CASE Remembered(c)
      <4>1. word'[c] = word[c] /\ inWord'[c] = inWord[c]
        BY <2>2, <2>3, <3>1, <3>3
      <4>2. CountedBy(theSlide, c, prev[c] \cup {Packet(c).lane}, word[c], inWord[c], a + 1)
        BY <3>1, <3>3 DEF Counts
      <4>3. QED
        BY <3>2, <4>1, <4>2
    <3>4. CASE ~Remembered(c) /\ inWord[c] = st - 1
      <4>1. word'[c] = word[c] + 1 /\ inWord'[c] = 0
        BY <2>2, <2>3, <3>1, <3>4
      <4>2. CountedBy(theSlide, c, prev[c] \cup {Packet(c).lane}, word[c] + 1, 0, a + 1)
        BY <3>1, <3>4 DEF Counts
      <4>3. QED
        BY <3>2, <4>1, <4>2
    <3>5. CASE ~Remembered(c) /\ inWord[c] # st - 1
      <4>1. word'[c] = word[c] /\ inWord'[c] = inWord[c] + 1
        BY <2>2, <2>3, <2>6, <3>1, <3>5
      <4>2. CountedBy(theSlide, c, prev[c] \cup {Packet(c).lane}, word[c], inWord[c] + 1, a + 1)
        BY <3>1, <3>5 DEF Counts
      <4>3. QED
        BY <3>2, <4>1, <4>2
    <3>6. QED
      BY <3>3, <3>4, <3>5
  <2>7. CASE ~Uses(c, offer)
    <3>1. ~took
      BY <1>3, <2>3, <2>7, NothingDropped
    <3>2. arrived'[p] = a /\ prev'[c] = prev[c] /\ word'[c] = word[c] /\ inWord'[c] = inWord[c]
      BY <2>2, <2>3, <2>4, <2>5, <2>7, <3>1
    <3>3. CountedBy(theSlide, c, prev[c], word[c], inWord[c], a)
      BY <1>1, <1>3, <2>3 DEF CountsInv, Counted
    <3>4. QED
      BY <3>2, <3>3
  <2>8. QED
    BY <2>6, <2>7
<1>4. QED
  BY <1>2, <1>3 DEF CountsInv, Counted

LEMMA UsedBelongs ==
  ASSUME NEW S, NEW receivers, InCycle(S, receivers), NEW c \in Clusters, Uses(c, Showing(S))
  PROVE  Belongs(c)
<1>1. PICK p \in Pairs : p[2] = c /\ Route(p)
  BY UsedIs
<1> DEFINE s == theSlide
           a == arrived[p]
           r == a \div s.stride
           b == p[1]
<1>2. /\ ring[c] = 1 /\ PacketIs(s, b, a + 1, Packet(c))
      /\ Remembered(c) <=> Down(s) /\ c = MaxCluster /\ Packet(c).lane \notin prev[c]
      /\ Counts(s, c, prev[c], word[c], inWord[c], a, Packet(c).lane)
  BY <1>1, UseIs
<1>3. /\ b \in Clusters /\ a \in Nat /\ IsSlide(s) /\ s.stride \in Nat \ {0} /\ UnitInv(c)
      /\ c = Dst(s, b)
  BY <1>1, TheSlideIs DEF Pairs, InCycle, SlideInv, RingInv, Route
<1>4. word[c] \in Nat
  BY <1>3 DEF UnitInv
<1>5. r \in Nat /\ (a + 1) - 1 = a
  BY <1>3, DivModParts
<1>6. Packet(c).slide = 1 /\ Packet(c).row = RowOf(s, b, r)
  BY <1>2, <1>5 DEF PacketIs
<1>7. program[ring[c]] = s
  BY <1>2 DEF theSlide
<1>8. /\ Remembered(c) => r = 0
      /\ ~Remembered(c) => r = IF Down(s) /\ c = MaxCluster THEN word[c] + 1 ELSE word[c]
  BY <1>2 DEF Counts
<1>9. UsedFor(c) = IF Remembered(c) THEN -1
                   ELSE IF ~Down(s) /\ c = 0 THEN word[c] + 1 ELSE word[c]
  BY <1>3, <1>7 DEF UsedFor, Down, IsSlide
<1> HIDE DEF s, a, r, b
<1>10. \/ OneRow(s) /\ RowOf(s, b, r) = -1
       \/ RowOf(s, b, r) = IF Down(s) THEN IF c = MaxCluster THEN r - 1 ELSE r
                           ELSE IF c = 0 THEN r + 1 ELSE r
  BY <1>3, <1>5, RouteRow
<1>11. CASE OneRow(s) /\ RowOf(s, b, r) = -1
  BY <1>2, <1>6, <1>7, <1>11 DEF Belongs
<1>12. CASE RowOf(s, b, r) = IF Down(s) THEN IF c = MaxCluster THEN r - 1 ELSE r
                             ELSE IF c = 0 THEN r + 1 ELSE r
  <2>1. Packet(c).row = UsedFor(c)
    <3>1. CASE Remembered(c)
      <4>1. Down(s) /\ c = MaxCluster /\ r = 0
        BY <1>2, <1>8, <3>1
      <4>2. 0 - 1 = -1
        OBVIOUS
      <4>3. QED
        BY <1>6, <1>9, <1>12, <3>1, <4>1, <4>2
    <3>2. CASE ~Remembered(c) /\ Down(s)
      <4>1. (word[c] + 1) - 1 = word[c]
        BY <1>4
      <4>2. QED
        BY <1>6, <1>8, <1>9, <1>12, <3>2, <4>1
    <3>3. CASE ~Remembered(c) /\ ~Down(s)
      BY <1>6, <1>8, <1>9, <1>12, <3>3
    <3>4. QED
      BY <3>1, <3>2, <3>3
  <2>2. QED
    BY <1>2, <1>6, <2>1 DEF Belongs
<1>13. QED
  BY <1>10, <1>11, <1>12

LEMMA SlideInvStays ==
  OneSlideEach /\ SlideInv /\ [SlideNext]_allVars /\ early' = {} => SlideInv'
<1> SUFFICES ASSUME OneSlideEach, SlideInv, [SlideNext]_allVars, early' = {}
             PROVE  SlideInv'
  OBVIOUS
<1>1. CASE UNCHANGED allVars
  <2>1. /\ inq' = inq /\ outq' = outq /\ cut' = cut /\ turn' = turn /\ turnUp' = turnUp
        /\ todo' = todo /\ arrived' = arrived /\ program' = program /\ taken' = taken
        /\ run' = run /\ issuing' = issuing /\ out' = out /\ ring' = ring /\ word' = word
        /\ inWord' = inWord /\ prev' = prev /\ stray' = stray
    BY <1>1 DEF allVars, vars, slideVars
  <2>2. RingInv'
    BY <2>1 DEF SlideInv, RingInv
  <2>3. /\ \A c : Total(c)' = Total(c) /\ PacketsFrom(c)' = PacketsFrom(c)
        /\ \A c : HasElement(c)' <=> HasElement(c)
        /\ \A p : Route(p)' <=> Route(p)
        /\ theSlide' = theSlide
    BY <2>1, SlideStays
  <2>4. \A c : SentOf(c)' = SentOf(c)
    BY <2>1, <2>3 DEF SentOf
  <2>5. \A p : OnTheWay(p)' = OnTheWay(p)
    BY <2>1 DEF OnTheWay
  <2>6. \A c \in Clusters : UnitInv(c)'
    BY <2>1, <2>3, <2>4 DEF SlideInv, UnitInv
  <2>8. WaysInv'
    BY <2>1, <2>3, <2>4, <2>5 DEF SlideInv, WaysInv
  <2>9. CountsInv'
    BY <2>1, <2>3 DEF SlideInv, CountsInv, Counted
  <2>10. QED
    BY <2>1, <2>2, <2>6, <2>8, <2>9 DEF SlideInv
<1>2. ASSUME NEW S \in Offerings, NEW receivers \in Receivers, SlideCycle(S, receivers)
      PROVE  SlideInv'
  <2>1. InCycle(S, receivers)
    BY <1>2 DEF InCycle
  <2>2. RingInv'
    <3>1. RingInv /\ Cycle(Showing(S), Taking(Showing(S)))
      BY <1>2 DEF SlideInv, SlideCycle
    <3>2. QED
      BY <3>1, RingCycle
  <2>3. program' \in Programs
    BY <1>2 DEF SlideInv, SlideCycle
  <2>4. stray' = {}
    <3>1. stray' = stray \cup {c \in Clusters : Uses(c, Showing(S)) /\ ~Belongs(c)}
      BY <1>2 DEF SlideCycle
    <3>2. \A c \in Clusters : Uses(c, Showing(S)) => Belongs(c)
      BY <2>1, UsedBelongs
    <3>3. stray = {}
      BY DEF SlideInv
    <3>4. QED
      BY <3>1, <3>2, <3>3
  <2>5. QED
    BY <2>1, <2>2, <2>3, <2>4, UnitStays, WaysStay, CountsStay DEF SlideInv
<1>3. QED
  BY <1>1, <1>2 DEF SlideNext

\* What has been dropped before its slide is never forgotten.
LEMMA EarlyGrows ==
  [SlideNext]_allVars /\ early' = {} => early = {}
<1> SUFFICES ASSUME [SlideNext]_allVars, early' = {}
             PROVE  early = {}
  OBVIOUS
<1>1. CASE UNCHANGED allVars
  BY <1>1 DEF allVars, slideVars
<1>2. CASE SlideNext
  <2>1. early \subseteq early'
    BY <1>2 DEF SlideNext, SlideCycle
  <2>2. QED
    BY <2>1
<1>3. QED
  BY <1>1, <1>2

\* Packets do not say whose they are (sldu.sv takes what comes for its oldest
\* slide), and every cluster is at a row of its own: of one slide, in whatever
\* order the clusters receive it, each packet is used for the row its element
\* belongs to, on any number of clusters and lanes, at any stride up to the lanes
\* of a cluster, for any length; unless a packet has come to a cluster before the
\* slide, and was dropped (sldu.sv:1507).
THEOREM OneSlidePacketsBelong ==
  ASSUME \A p \in Programs : \E s : p = <<s>>
  PROVE  SlideSpec => []PacketsUsedWhereTheyBelong
<1> DEFINE UnlessLost == early = {} => SlideInv
<1>1. OneSlideEach
  BY DEF OneSlideEach
<1>2. SlideInit => UnlessLost
  BY <1>1, SlideInitially
<1>3. UnlessLost /\ [SlideNext]_allVars => UnlessLost'
  BY <1>1, SlideInvStays, EarlyGrows
<1>4. UnlessLost => PacketsUsedWhereTheyBelong
  BY DEF SlideInv, PacketsUsedWhereTheyBelong, NothingLost
<1>5. QED
  BY <1>2, <1>3, <1>4, PTL DEF SlideSpec

\* A cluster has sent a packet only if the cluster that its packets go to has
\* received the slide.
ReceiverFirst == \A p \in Pairs : Route(p) /\ SentOf(p[1]) > 0 => taken[p[2]] = 1

LEMMA NothingComesEarly ==
  ASSUME OneSlideEach, SlideInv, ReceiverFirst, [SlideNext]_allVars, early = {}
  PROVE  early' = {}
<1>1. CASE UNCHANGED allVars
  BY <1>1 DEF allVars, slideVars
<1>2. ASSUME NEW S \in Offerings, NEW receivers \in Receivers, SlideCycle(S, receivers),
             NEW c \in Clusters, NoSlide(c), PacketThere(c), Packet(c).slide > taken[c]
      PROVE  FALSE
  <2>1. InCycle(S, receivers)
    BY <1>2 DEF InCycle
  <2>2. c \in Taking(Showing(S))
    BY <1>2 DEF Taking
  <2>3. PICK p \in Pairs : p[2] = c /\ TakenNow(p, Taking(Showing(S)))
    BY <1>2, <2>1, <2>2, ComesFrom
  <2>4. Route(p) /\ SentOf(p[1]) > 0 /\ Packet(c).slide = 1
    BY <2>1, <2>3, TakenIs DEF PacketIs
  <2>5. taken[c] = 1
    BY <2>3, <2>4 DEF ReceiverFirst
  <2>6. QED
    BY <1>2, <2>4, <2>5
<1>3. CASE SlideNext
  <2>1. PICK S \in Offerings, receivers \in Receivers : SlideCycle(S, receivers)
    BY <1>3 DEF SlideNext
  <2>2. early' = early \cup {c \in Clusters :
          NoSlide(c) /\ PacketThere(c) /\ Packet(c).slide > taken[c]}
    BY <2>1 DEF SlideCycle
  <2>3. QED
    BY <1>2, <2>1, <2>2
<1>4. QED
  BY <1>1, <1>3

\* It is enough that each cluster has received the slide before the one whose
\* packets go to it sends the first of them: then nothing gets lost in the ring,
\* as the comment at the start of a slide has it (sldu.sv:714). The code compares
\* the pointers of one unit, and never waits for the receiver.
THEOREM ReceiverFirstLosesNothing ==
  ASSUME \A p \in Programs : \E s : p = <<s>>
  PROVE  SlideSpec /\ []ReceiverFirst => []NothingLost
<1> DEFINE Kept == SlideInv /\ early = {}
<1>1. OneSlideEach
  BY DEF OneSlideEach
<1>2. SlideInit => Kept
  BY <1>1, SlideInitially DEF SlideInit
<1>3. Kept /\ ReceiverFirst /\ [SlideNext]_allVars => Kept'
  BY <1>1, SlideInvStays, NothingComesEarly
<1>4. Kept => NothingLost
  BY DEF NothingLost
<1>5. QED
  BY <1>2, <1>3, <1>4, PTL DEF SlideSpec
=============================================================================
