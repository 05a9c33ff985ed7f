----------------------------- MODULE Vstu_proofs -----------------------------
(***************************************************************************)
(* The store unit, for every depth of its ring, every width and every set  *)
(* of stores: its types; that words, beats and bursts never drift apart    *)
(* (StoreInv); and, for unit-stride stores, that it implements StoreQueue  *)
(* (OrderInv and StoreInv).                                                *)
(***************************************************************************)
EXTENDS Vstu, DivModLemmas, SequenceTheorems, FiniteSetTheorems

-----------------------------------------------------------------------------
(***************************************************************************)
(* A sequence in consecutive parts.  Part k of m, from 0, is seq[f[k] + 1] *)
(* up to seq[f[k + 1]], and all of it belongs to owner[k].                 *)
(***************************************************************************)
Parted(seq, f, owner, m) ==
  /\ f \in [0 .. m -> Nat] /\ f[0] = 0 /\ f[m] = Len(seq)
  /\ \A j, k \in 0 .. m : j <= k => f[j] <= f[k]
  /\ \A k \in 0 .. m - 1 : \A p \in 1 .. Len(seq) :
       f[k] < p /\ p <= f[k + 1] => seq[p] = owner[k]

LEMMA CopiesSeq ==
  ASSUME NEW S, NEW x \in S, NEW c \in Nat
  PROVE  /\ Copies(x, c) \in Seq(S) /\ Len(Copies(x, c)) = c
         /\ \A p \in 1 .. c : Copies(x, c)[p] = x
BY DEF Copies

LEMMA PartedAppend ==
  ASSUME NEW S, NEW seq \in Seq(S), NEW x \in S, NEW c \in Nat, NEW m \in Nat,
         NEW f, NEW owner, NEW owner2, Parted(seq, f, owner, m),
         \A k \in 0 .. m - 1 : owner2[k] = owner[k], owner2[m] = x
  PROVE  \E g : /\ Parted(seq \o Copies(x, c), g, owner2, m + 1)
                /\ \A k \in 0 .. m : g[k] = f[k]
                /\ g[m + 1] = f[m] + c
<1> DEFINE g == [k \in 0 .. m + 1 |-> IF k <= m THEN f[k] ELSE f[m] + c]
           new == seq \o Copies(x, c)
<1>1. /\ f \in [0 .. m -> Nat] /\ f[0] = 0 /\ f[m] = Len(seq) /\ Len(seq) \in Nat
      /\ \A j, k \in 0 .. m : j <= k => f[j] <= f[k]
      /\ \A k \in 0 .. m - 1 : \A p \in 1 .. Len(seq) :
           f[k] < p /\ p <= f[k + 1] => seq[p] = owner[k]
  BY DEF Parted
<1>2. /\ new \in Seq(S) /\ Len(new) = Len(seq) + c
      /\ \A p \in 1 .. Len(seq) + c : new[p] = IF p <= Len(seq) THEN seq[p] ELSE x
  <2>1. /\ Copies(x, c) \in Seq(S) /\ Len(Copies(x, c)) = c
        /\ \A p \in 1 .. c : Copies(x, c)[p] = x
    BY CopiesSeq
  <2>2. /\ new \in Seq(S) /\ Len(new) = Len(seq) + c
        /\ \A p \in 1 .. Len(seq) + c :
             new[p] = IF p <= Len(seq) THEN seq[p] ELSE Copies(x, c)[p - Len(seq)]
    BY <2>1, ConcatProperties
  <2>3. \A p \in 1 .. Len(seq) + c : ~(p <= Len(seq)) => p - Len(seq) \in 1 .. c
    BY <1>1
  <2>4. QED
    BY <2>1, <2>2, <2>3
<1>3. g \in [0 .. m + 1 -> Nat] /\ (\A k \in 0 .. m : g[k] = f[k]) /\ g[m + 1] = f[m] + c
  BY <1>1
<1> HIDE DEF g, new
<1>4. \A j, k \in 0 .. m + 1 : j <= k => g[j] <= g[k]
  <2>1. ASSUME NEW j \in 0 .. m + 1, NEW k \in 0 .. m + 1, j <= k PROVE g[j] <= g[k]
    <3>1. CASE k <= m
      <4>1. j \in 0 .. m /\ k \in 0 .. m
        BY <2>1, <3>1
      <4>2. QED
        BY <1>1, <1>3, <2>1, <4>1
    <3>2. CASE j = m + 1
      <4>1. k = j
        BY <2>1, <3>2
      <4>2. QED
        BY <1>3, <4>1
    <3>3. CASE j <= m /\ ~(k <= m)
      <4>1. k = m + 1 /\ j \in 0 .. m /\ m \in 0 .. m
        BY <3>3
      <4>2. f[j] <= f[m] /\ f[j] \in Nat /\ f[m] \in Nat
        BY <1>1, <4>1
      <4>3. QED
        BY <1>3, <4>1, <4>2
    <3>4. QED
      BY <2>1, <3>1, <3>2, <3>3
  <2>2. QED
    BY <2>1
<1>5. ASSUME NEW k \in 0 .. m, NEW p \in 1 .. Len(new), g[k] < p, p <= g[k + 1]
      PROVE  new[p] = owner2[k]
  <2>1. CASE k = m
    BY <1>1, <1>2, <1>3, <1>5, <2>1
  <2>2. CASE k # m
    <3>1. k \in 0 .. m - 1 /\ k \in 0 .. m /\ k + 1 \in 0 .. m /\ m \in 0 .. m
      BY <2>2
    <3>2. f[k] < p /\ p <= f[k + 1] /\ f[k + 1] <= f[m] /\ f[k + 1] \in Nat /\ f[m] \in Nat
      BY <1>1, <1>3, <1>5, <3>1
    <3>3. p \in 1 .. Len(seq)
      BY <1>1, <1>5, <3>2
    <3>4. seq[p] = owner[k] /\ owner2[k] = owner[k]
      BY <1>1, <3>1, <3>2, <3>3
    <3>5. new[p] = seq[p]
      BY <1>1, <1>2, <1>5, <3>3
    <3>6. QED
      BY <3>4, <3>5
  <2>3. QED
    BY <2>1, <2>2
<1>6. g[0] = 0 /\ g[m + 1] = Len(new)
  BY <1>1, <1>2, <1>3
<1>7. Parted(new, g, owner2, m + 1)
  <2>1. m + 1 - 1 = m
    OBVIOUS
  <2>2. QED
    BY <1>3, <1>4, <1>5, <1>6, <2>1 DEF Parted
<1>8. QED
  BY <1>3, <1>7 DEF new

\* The first part, if there is one and it is not empty.
LEMMA PartedHead ==
  ASSUME NEW S, NEW seq \in Seq(S), NEW m \in Nat \ {0}, NEW f, NEW owner,
         Parted(seq, f, owner, m), f[1] > 0
  PROVE  /\ seq # <<>> /\ Head(seq) = owner[0]
         /\ Tail(seq) \in Seq(S) /\ Len(Tail(seq)) = Len(seq) - 1
         /\ \A p \in 1 .. Len(seq) - 1 : Tail(seq)[p] = seq[p + 1]
         /\ \A k \in 1 .. m : f[k] >= f[1]
<1>1. /\ f \in [0 .. m -> Nat] /\ f[0] = 0 /\ f[m] = Len(seq) /\ Len(seq) \in Nat
      /\ \A j, k \in 0 .. m : j <= k => f[j] <= f[k]
      /\ \A k \in 0 .. m - 1 : \A p \in 1 .. Len(seq) :
           f[k] < p /\ p <= f[k + 1] => seq[p] = owner[k]
  BY DEF Parted
<1>2. 0 \in 0 .. m - 1 /\ 1 \in 0 .. m /\ m \in 0 .. m /\ \A k \in 1 .. m : k \in 0 .. m /\ 1 <= k
  OBVIOUS
<1>3. \A k \in 1 .. m : f[1] <= f[k] /\ f[k] \in Nat /\ f[1] \in Nat
  BY <1>1, <1>2
<1>4. Len(seq) > 0 /\ 1 <= f[1]
  BY <1>1, <1>2, <1>3
<1>5. seq # <<>>
  BY <1>4
<1>6. seq[1] = owner[0]
  <2>1. 1 \in 1 .. Len(seq) /\ f[0] < 1 /\ 1 <= f[0 + 1]
    BY <1>1, <1>4
  <2>2. QED
    BY <1>1, <1>2, <2>1
<1>7. /\ Tail(seq) \in Seq(S) /\ Len(Tail(seq)) = Len(seq) - 1
      /\ \A p \in 1 .. Len(seq) - 1 : Tail(seq)[p] = seq[p + 1]
  BY <1>5, HeadTailProperties
<1>8. QED
  BY <1>3, <1>5, <1>6, <1>7

\* An element of the first part goes.
LEMMA PartedTail ==
  ASSUME NEW S, NEW seq \in Seq(S), NEW m \in Nat \ {0}, NEW f, NEW owner,
         Parted(seq, f, owner, m), f[1] > 0
  PROVE  \E g : /\ Parted(Tail(seq), g, owner, m)
                /\ \A k \in 1 .. m : g[k] = f[k] - 1
<1> DEFINE g == [k \in 0 .. m |-> IF k = 0 THEN 0 ELSE f[k] - 1]
<1>1. /\ f \in [0 .. m -> Nat] /\ f[0] = 0 /\ f[m] = Len(seq) /\ Len(seq) \in Nat
      /\ \A j, k \in 0 .. m : j <= k => f[j] <= f[k]
      /\ \A k \in 0 .. m - 1 : \A p \in 1 .. Len(seq) :
           f[k] < p /\ p <= f[k + 1] => seq[p] = owner[k]
  BY DEF Parted
<1>2. /\ Len(Tail(seq)) = Len(seq) - 1
      /\ \A p \in 1 .. Len(seq) - 1 : Tail(seq)[p] = seq[p + 1]
      /\ \A k \in 1 .. m : f[k] >= f[1]
  BY PartedHead
<1>3. \A k \in 1 .. m : f[k] \in Nat /\ f[k] >= 1 /\ f[k] - 1 \in Nat
  BY <1>1, <1>2
<1>4. g \in [0 .. m -> Nat] /\ g[0] = 0 /\ (\A k \in 1 .. m : g[k] = f[k] - 1)
  BY <1>3
<1> HIDE DEF g
<1>5. \A j, k \in 0 .. m : j <= k => g[j] <= g[k]
  <2>1. ASSUME NEW j \in 0 .. m, NEW k \in 0 .. m, j <= k PROVE g[j] <= g[k]
    <3>1. CASE j = 0
      BY <1>4, <3>1
    <3>2. CASE j # 0
      <4>1. j \in 1 .. m /\ k \in 1 .. m
        BY <2>1, <3>2
      <4>2. f[j] <= f[k]
        BY <1>1, <2>1
      <4>3. QED
        BY <1>3, <1>4, <4>1, <4>2
    <3>3. QED
      BY <3>1, <3>2
  <2>2. QED
    BY <2>1
<1>6. ASSUME NEW k \in 0 .. m - 1, NEW p \in 1 .. Len(seq) - 1, g[k] < p, p <= g[k + 1]
      PROVE  Tail(seq)[p] = owner[k]
  <2>1. k + 1 \in 1 .. m /\ k \in 0 .. m /\ p + 1 \in 1 .. Len(seq)
    BY <1>1
  <2>2. p + 1 <= f[k + 1]
    BY <1>3, <1>4, <1>6, <2>1
  <2>3. f[k] < p + 1
    <3>1. CASE k = 0
      BY <1>1, <3>1
    <3>2. CASE k # 0
      <4>1. k \in 1 .. m
        BY <3>2
      <4>2. QED
        BY <1>3, <1>4, <1>6, <4>1
    <3>3. QED
      BY <3>1, <3>2
  <2>4. seq[p + 1] = owner[k]
    BY <1>1, <2>1, <2>2, <2>3
  <2>5. QED
    BY <1>2, <2>4
<1>7. g[m] = Len(Tail(seq))
  BY <1>1, <1>2, <1>4
<1>8. Parted(Tail(seq), g, owner, m)
  BY <1>2, <1>4, <1>5, <1>6, <1>7 DEF Parted
<1>9. QED
  BY <1>4, <1>8

\* The last element of the first part goes, and the part with it.
LEMMA PartedDrop ==
  ASSUME NEW S, NEW seq \in Seq(S), NEW m \in Nat \ {0}, NEW f, NEW owner, NEW owner2,
         Parted(seq, f, owner, m), f[1] = 1,
         \A k \in 0 .. m - 2 : owner2[k] = owner[k + 1]
  PROVE  \E g : /\ Parted(Tail(seq), g, owner2, m - 1)
                /\ \A k \in 0 .. m - 1 : g[k] = f[k + 1] - 1
<1> DEFINE g == [k \in 0 .. m - 1 |-> f[k + 1] - 1]
<1>1. /\ f \in [0 .. m -> Nat] /\ f[0] = 0 /\ f[m] = Len(seq) /\ Len(seq) \in Nat
      /\ \A j, k \in 0 .. m : j <= k => f[j] <= f[k]
      /\ \A k \in 0 .. m - 1 : \A p \in 1 .. Len(seq) :
           f[k] < p /\ p <= f[k + 1] => seq[p] = owner[k]
  BY DEF Parted
<1>2. /\ Len(Tail(seq)) = Len(seq) - 1
      /\ \A p \in 1 .. Len(seq) - 1 : Tail(seq)[p] = seq[p + 1]
      /\ \A k \in 1 .. m : f[k] >= f[1]
  BY PartedHead
<1>3. \A k \in 1 .. m : f[k] \in Nat /\ f[k] >= 1 /\ f[k] - 1 \in Nat
  BY <1>1, <1>2
<1>4. g \in [0 .. m - 1 -> Nat] /\ g[0] = 0 /\ (\A k \in 0 .. m - 1 : g[k] = f[k + 1] - 1)
  BY <1>3
<1> HIDE DEF g
<1>5. \A j, k \in 0 .. m - 1 : j <= k => g[j] <= g[k]
  <2>1. ASSUME NEW j \in 0 .. m - 1, NEW k \in 0 .. m - 1, j <= k PROVE g[j] <= g[k]
    <3>1. /\ j + 1 \in 1 .. m /\ k + 1 \in 1 .. m /\ j + 1 \in 0 .. m /\ k + 1 \in 0 .. m
          /\ j + 1 <= k + 1
      BY <2>1
    <3>2. f[j + 1] <= f[k + 1]
      BY <1>1, <3>1
    <3>3. QED
      BY <1>3, <1>4, <3>1, <3>2
  <2>2. QED
    BY <2>1
<1>6. ASSUME NEW k \in 0 .. m - 2, NEW p \in 1 .. Len(seq) - 1, g[k] < p, p <= g[k + 1]
      PROVE  Tail(seq)[p] = owner2[k]
  <2>1. /\ k + 1 \in 1 .. m /\ k + 2 \in 1 .. m /\ k + 1 \in 0 .. m - 1 /\ k \in 0 .. m - 1
        /\ (k + 1) + 1 = k + 2 /\ p + 1 \in 1 .. Len(seq)
    BY <1>1
  <2>2. f[k + 1] < p + 1 /\ p + 1 <= f[k + 2]
    BY <1>3, <1>4, <1>6, <2>1
  <2>3. seq[p + 1] = owner[k + 1]
    BY <1>1, <2>1, <2>2
  <2>4. QED
    BY <1>2, <2>3
<1>7. g[m - 1] = Len(Tail(seq))
  BY <1>1, <1>2, <1>4
<1>8. Parted(Tail(seq), g, owner2, m - 1)
  <2>1. m - 1 - 1 = m - 2
    OBVIOUS
  <2>2. QED
    BY <1>2, <1>4, <1>5, <1>6, <1>7, <2>1 DEF Parted
<1>9. QED
  BY <1>4, <1>8

-----------------------------------------------------------------------------
(***************************************************************************)
(* Arithmetic.                                                             *)
(***************************************************************************)
LEMMA LessFactor ==
  ASSUME NEW a \in Nat, NEW b \in Nat, NEW c \in Nat \ {0}, a * c < b * c
  PROVE  a < b
<1>1. SUFFICES ASSUME b <= a PROVE FALSE
  OBVIOUS
<1>2. PICK d \in Nat : a = b + d
  <2>1. a - b \in Nat /\ a = b + (a - b)
    BY <1>1
  <2>2. QED
    BY <2>1
<1>3. a * c = b * c + d * c /\ d * c \in Nat /\ b * c \in Nat
  BY <1>2
<1>4. QED
  BY <1>3

\* A multiple that lies below another one lies a divisor below it.
LEMMA MultipleBelow ==
  ASSUME NEW q \in Nat, NEW p \in Nat, NEW u \in Nat \ {0}, q * u < p * u
  PROVE  q * u + u <= p * u /\ q + 1 <= p
<1>1. q < p
  BY LessFactor
<1>2. PICK d \in Nat : p = q + 1 + d
  <2>1. p - (q + 1) \in Nat /\ p = q + 1 + (p - (q + 1))
    BY <1>1
  <2>2. QED
    BY <2>1
<1>3. p * u = q * u + u + d * u /\ d * u \in Nat /\ q * u \in Nat
  BY <1>2
<1>4. QED
  BY <1>2, <1>3

LEMMA DivisorMultiple ==
  ASSUME NEW a \in Nat, NEW b \in Nat \ {0}, a % b = 0
  PROVE  (a \div b) \in Nat /\ a = (a \div b) * b
<1>1. a \div b \in Nat /\ a = b * (a \div b) + (a % b)
  BY DivModParts
<1> DEFINE q == a \div b
<1>2. q \in Nat /\ a = b * q + 0
  BY <1>1
<1> HIDE DEF q
<1>3. a = q * b
  BY <1>2
<1>4. QED
  BY <1>2, <1>3 DEF q

LEMMA WrapAround ==
  ASSUME NEW a \in 0 .. 2 * Depth - 1
  PROVE  a % Depth = (IF a < Depth THEN a ELSE a - Depth) /\ a % Depth \in Slots
<1>1. Depth \in Nat \ {0}
  BY SizesAssumption
<1>2. CASE a < Depth
  <2>1. a \in 0 .. Depth - 1 /\ Depth * 0 + a = a
    BY <1>1, <1>2
  <2>2. (Depth * 0 + a) % Depth = a
    BY <1>1, <2>1, DivModUnique
  <2>3. QED
    BY <1>2, <2>1, <2>2 DEF Slots
<1>3. CASE ~(a < Depth)
  <2>1. a - Depth \in 0 .. Depth - 1 /\ Depth * 1 + (a - Depth) = a
    BY <1>1, <1>3
  <2>2. (Depth * 1 + (a - Depth)) % Depth = a - Depth
    BY <1>1, <2>1, DivModUnique
  <2>3. QED
    BY <1>3, <2>1, <2>2 DEF Slots
<1>4. QED
  BY <1>2, <1>3

Multiple(a, b) == \E q \in Nat : a = q * b

\* n pieces of `size', all of them needed, hold so many bytes
Fits(n, size, bytes) == n \in Nat /\ bytes <= n * size /\ n * size < bytes + size

LEMMA CeilFits ==
  ASSUME NEW bytes \in Nat \ {0}, NEW size \in Nat \ {0}
  PROVE  CeilDiv(bytes, size) \in Nat \ {0} /\ Fits(CeilDiv(bytes, size), size, bytes)
<1> DEFINE a == bytes + size - 1
           n == CeilDiv(bytes, size)
           r == a % size
<1>1. a \in Nat /\ n = a \div size
  BY DEF CeilDiv
<1>2. n \in Nat /\ r \in 0 .. size - 1 /\ a = size * n + r
  BY <1>1, DivModParts
<1> HIDE DEF n, r
<1>3. n * size = bytes + size - 1 - r
  BY <1>2
<1>4. bytes <= n * size /\ n * size < bytes + size
  BY <1>2, <1>3
<1>5. n # 0
  BY <1>4
<1>6. QED
  BY <1>2, <1>4, <1>5 DEF Fits, n

\* One piece less.
LEMMA FitsLess ==
  ASSUME NEW n, NEW size \in Nat \ {0}, NEW bytes \in Nat \ {0}, Fits(n, size, bytes)
  PROVE  /\ n \in Nat \ {0}
         /\ bytes <= size => n = 1
         /\ bytes > size => n - 1 \in Nat \ {0} /\ Fits(n - 1, size, bytes - size)
<1>1. n \in Nat /\ bytes <= n * size /\ n * size < bytes + size /\ n * size \in Nat
  BY DEF Fits
<1>2. n # 0
  BY <1>1
<1>3. 1 * size = size /\ 2 * size = size + size /\ (n - 1) * size = n * size - size
  BY <1>1
<1>4. ASSUME bytes <= size PROVE n = 1
  <2>1. n * size < 2 * size
    BY <1>1, <1>3, <1>4
  <2>2. n < 2
    BY <1>1, <2>1, LessFactor
  <2>3. QED
    BY <1>1, <1>2, <2>2
<1>5. ASSUME bytes > size PROVE n - 1 \in Nat \ {0} /\ Fits(n - 1, size, bytes - size)
  <2>1. 1 * size < n * size
    BY <1>1, <1>3, <1>5
  <2>2. 1 < n
    BY <1>1, <2>1, LessFactor
  <2>3. QED
    BY <1>1, <1>3, <2>2 DEF Fits
<1>6. QED
  BY <1>1, <1>2, <1>4, <1>5

\* A beat of a unit-stride store: l bytes are left from the start of the lanes'
\* word, v of them sent, n beats to come.
UnitBeatLeaves(l, W, A, v, n) ==
  LET top == Lesser(l, W)
      vb == Lesser(top - v, A)
  IN /\ vb \in Nat \ {0} /\ v + vb <= top
     /\ v + vb # top => /\ vb = A /\ Multiple(v + vb, A)
                        /\ n - 1 \in Nat \ {0} /\ Fits(n - 1, A, l - (v + vb))
     /\ v + vb = top /\ l <= W => n = 1
     /\ v + vb = top /\ l > W => n - 1 \in Nat \ {0} /\ Fits(n - 1, A, l - W)

LEMMA UnitBeat ==
  ASSUME NEW l \in Nat \ {0}, NEW W \in Nat \ {0}, NEW A \in Nat \ {0}, Multiple(W, A),
         NEW v \in Nat, Multiple(v, A), v < l, v < W, NEW n, Fits(n, A, l - v)
  PROVE  UnitBeatLeaves(l, W, A, v, n)
<1> DEFINE top == Lesser(l, W)
           vb == Lesser(top - v, A)
<1>0. PICK q \in Nat, j \in Nat : v = q * A /\ W = j * A
  BY DEF Multiple
<1>1. /\ top \in Nat /\ v < top /\ top <= l /\ top <= W
      /\ (l <= W => top = l) /\ (l > W => top = W)
  BY DEF Lesser
<1>2. vb \in Nat \ {0} /\ vb <= top - v /\ vb <= A /\ (vb = top - v \/ (vb = A /\ A < top - v))
  BY <1>1 DEF Lesser
<1> HIDE DEF top, vb
<1>3. /\ l - v \in Nat \ {0} /\ n \in Nat \ {0}
      /\ l - v <= A => n = 1
      /\ l - v > A => n - 1 \in Nat \ {0} /\ Fits(n - 1, A, l - v - A)
  <2>1. l - v \in Nat \ {0}
    OBVIOUS
  <2>2. QED
    BY <2>1, FitsLess
<1>4. v + vb \in Nat /\ v + vb <= top
  BY <1>1, <1>2
<1>5. ASSUME v + vb # top
      PROVE  /\ vb = A /\ Multiple(v + vb, A)
             /\ n - 1 \in Nat \ {0} /\ Fits(n - 1, A, l - (v + vb))
  <2>1. vb = A /\ l - v > A
    BY <1>1, <1>2, <1>5
  <2>2. v + vb = (q + 1) * A /\ q + 1 \in Nat /\ l - v - A = l - (v + A)
    BY <1>0, <2>1
  <2>3. Multiple(v + vb, A)
    BY <2>2 DEF Multiple
  <2>4. QED
    BY <1>3, <2>1, <2>2, <2>3
<1>6. ASSUME v + vb = top, l <= W PROVE n = 1
  BY <1>1, <1>2, <1>3, <1>6
<1>7. ASSUME v + vb = top, l > W PROVE n - 1 \in Nat \ {0} /\ Fits(n - 1, A, l - W)
  <2>1. q * A + A <= j * A
    <3>1. q * A < j * A
      BY <1>0
    <3>2. QED
      BY <3>1, MultipleBelow
  <2>2. A <= W - v /\ W - v = vb
    <3>1. v + A <= W
      BY <1>0, <2>1
    <3>2. v + vb = W
      BY <1>1, <1>7
    <3>3. QED
      BY <1>2, <3>1, <3>2
  <2>3. W - v = A
    BY <1>2, <2>2
  <2>4. l - v > A /\ l - v - A = l - W
    BY <1>7, <2>3
  <2>5. QED
    BY <1>3, <2>4
<1>8. QED
  BY <1>2, <1>4, <1>5, <1>6, <1>7 DEF top, vb, UnitBeatLeaves

\* A beat of a store that sends an element at a time: x of them are to come.
ElementBeatLeaves(l, W, e, v, x) ==
  /\ v + e <= Lesser(l, W) /\ Multiple(v + e, e)
  /\ x - 1 \in Nat /\ (x - 1) * e = l - (v + e)
  /\ v + e = Lesser(l, W) /\ l <= W => x = 1
  /\ l > W => Multiple(l - W, e)

LEMMA ElementBeat ==
  ASSUME NEW l \in Nat \ {0}, NEW W \in Nat \ {0}, NEW e \in Nat \ {0}, NEW v \in Nat, v < l, v < W,
         Multiple(W, e), Multiple(v, e), Multiple(l, e), NEW x \in Nat, x * e = l - v
  PROVE  ElementBeatLeaves(l, W, e, v, x)
<1>0. PICK q \in Nat, y \in Nat, j \in Nat : v = q * e /\ l = y * e /\ W = j * e
  BY DEF Multiple
<1>1. q * e + e <= y * e /\ q * e + e <= j * e
  BY <1>0, MultipleBelow
<1>2. v + e <= Lesser(l, W)
  BY <1>0, <1>1 DEF Lesser
<1>3. v + e = (q + 1) * e /\ q + 1 \in Nat /\ (x - 1) * e = x * e - e
  BY <1>0
<1>4. 0 * e < x * e
  OBVIOUS
<1>5. 0 < x
  BY <1>4, LessFactor
<1>6. ASSUME v + e = Lesser(l, W), l <= W PROVE x = 1
  <2>1. x * e = e
    BY <1>6 DEF Lesser
  <2>2. x * e < 2 * e
    BY <2>1
  <2>3. x < 2
    BY <2>2, LessFactor
  <2>4. QED
    BY <1>5, <2>3
<1>7. ASSUME l > W PROVE Multiple(l - W, e)
  <2>1. j < y
    BY <1>0, <1>7, LessFactor
  <2>2. (y - j) * e = y * e - j * e /\ y - j \in Nat
    BY <2>1
  <2>3. l - W = (y - j) * e
    BY <1>0, <2>2
  <2>4. QED
    BY <2>2, <2>3 DEF Multiple
<1>8. Multiple(v + e, e)
  BY <1>3 DEF Multiple
<1>9. QED
  BY <1>2, <1>3, <1>5, <1>6, <1>7, <1>8 DEF ElementBeatLeaves

\* Remainders tell numbers from 1 to the modulus apart.
LEMMA WrapEqual ==
  ASSUME NEW a \in 1 .. LenWrap, NEW b \in 1 .. LenWrap
  PROVE  /\ (a % LenWrap = b % LenWrap) <=> (a = b)
         /\ a < LenWrap => a % LenWrap = a
         /\ a % LenWrap \in 0 .. LenWrap - 1
<1>1. LenWrap \in Nat \ {0, 1}
  BY SizesAssumption
<1>2. \A c \in 1 .. LenWrap : c % LenWrap = IF c = LenWrap THEN 0 ELSE c
  <2>1. ASSUME NEW c \in 1 .. LenWrap PROVE c % LenWrap = IF c = LenWrap THEN 0 ELSE c
    <3>1. CASE c = LenWrap
      <4>1. LenWrap * 1 + 0 = c /\ 0 \in 0 .. LenWrap - 1
        BY <1>1, <3>1
      <4>2. (LenWrap * 1 + 0) % LenWrap = 0
        BY <1>1, <4>1, DivModUnique
      <4>3. QED
        BY <3>1, <4>1, <4>2
    <3>2. CASE c # LenWrap
      <4>1. LenWrap * 0 + c = c /\ c \in 0 .. LenWrap - 1
        BY <1>1, <3>2
      <4>2. (LenWrap * 0 + c) % LenWrap = c
        BY <1>1, <4>1, DivModUnique
      <4>3. QED
        BY <3>2, <4>1, <4>2
    <3>3. QED
      BY <3>1, <3>2
  <2>2. QED
    BY <2>1
<1>3. QED
  BY <1>1, <1>2

-----------------------------------------------------------------------------
(***************************************************************************)
(* The inductive invariant.  Store(k) is the store k places behind the one *)
(* that is being issued.                                                   *)
(***************************************************************************)
Store(k) == vinsn[(issuePnt + k) % Depth]
IsStore(s) == s.n \in 1 .. Numbers /\ [bytes |-> s.bytes, elem |-> s.elem] \in Stores
BeatsIn(s) == IF s.elem = 0 THEN CeilDiv(s.bytes, AxiBytes) ELSE 1

\* the bytes of store k from the start of the lanes' next word, and those not sent
BytesLeft(k) == IF k = 0 THEN left ELSE Store(k).bytes
ToSend(k) == IF k = 0 THEN left - vrfPnt ELSE Store(k).bytes
WordOwner == [k \in 0 .. issueCnt - 1 |-> Store(k).n]
BurstOwner == [k \in 0 .. issueCnt - 1 |-> [n |-> Store(k).n, beats |-> BeatsIn(Store(k))]]
\* so many bursts carry so many bytes of the store
Carry(n, s, bytes) == IF s.elem = 0 THEN n = 1 ELSE n \in Nat /\ n * s.elem = bytes

\* The pointers are as far apart as the counters say.
RingPointers ==
  /\ issuePnt = (commitPnt + (commitCnt - issueCnt)) % Depth
  /\ acceptPnt = (issuePnt + issueCnt) % Depth

StoresHeld == \A k \in 0 .. issueCnt - 1 : IsStore(Store(k))

\* The words and the bursts to come are those of the stores to be issued.
WordsInOrder ==
  \E f : /\ Parted(words, f, WordOwner, issueCnt)
         /\ \A k \in 0 .. issueCnt - 1 : Fits(f[k + 1] - f[k], WordBytes, BytesLeft(k))
BurstsInOrder ==
  \E f : /\ Parted(bursts, f, BurstOwner, issueCnt)
         /\ \A k \in 0 .. issueCnt - 1 : Carry(f[k + 1] - f[k], Store(k), ToSend(k))

\* The store being issued stands at a beat: v bytes of the word of its l are sent,
\* b beats of its burst.
AtBeat(s, l, v, b) ==
  /\ l \in Nat \ {0} /\ v \in Nat /\ v < l /\ v < WordBytes /\ b \in Nat
  /\ s.elem = 0 => /\ b < BeatsIn(s) /\ Multiple(v, AxiBytes)
                   /\ Fits(BeatsIn(s) - b, AxiBytes, l - v)
  /\ s.elem # 0 => b = 0 /\ Multiple(v, s.elem) /\ Multiple(l, s.elem)
HeadAtBeat ==
  /\ issueCnt = 0 => left = 0 /\ vrfPnt = 0 /\ len = 0
  /\ issueCnt > 0 => AtBeat(Store(0), left, vrfPnt, len)

StoreInv ==
  TypeOK /\ RingPointers /\ StoresHeld /\ WordsInOrder /\ BurstsInOrder /\ HeadAtBeat

\* The sizes of a store.
LEMMA StoreFacts ==
  ASSUME NEW s, IsStore(s)
  PROVE  /\ s.n \in 1 .. Numbers /\ s.bytes \in Nat \ {0} /\ s.elem \in Nat
         /\ BeatsIn(s) \in 1 .. LenWrap
         /\ s.elem # 0 => Multiple(WordBytes, s.elem)
         /\ Carry(Len(BurstsOf(s)), s, s.bytes)
         /\ AtBeat(s, s.bytes, 0, 0)
<1> DEFINE t == [bytes |-> s.bytes, elem |-> s.elem]
<1>1. /\ t \in Stores /\ t.bytes = s.bytes /\ t.elem = s.elem
      /\ s.n \in 1 .. Numbers /\ WordBytes \in Nat \ {0} /\ AxiBytes \in Nat \ {0}
      /\ LenWrap \in Nat \ {0, 1}
  BY SizesAssumption DEF IsStore
<1>2. t \in [bytes : Nat \ {0}, elem : Nat]
  BY <1>1, StoresAssumption
<1> HIDE DEF t
<1>3. s.bytes \in Nat \ {0} /\ s.elem \in Nat
  BY <1>1, <1>2
<1>4. CASE s.elem = 0
  <2>1. s.bytes <= LenWrap * AxiBytes
    BY <1>1, <1>4, StoresAssumption
  <2>2. BeatsIn(s) = CeilDiv(s.bytes, AxiBytes)
    BY <1>4 DEF BeatsIn
  <2>3. BeatsIn(s) \in Nat \ {0} /\ Fits(BeatsIn(s), AxiBytes, s.bytes)
    BY <1>1, <1>3, <2>2, CeilFits
  <2> DEFINE n == BeatsIn(s)
  <2>4. n * AxiBytes < s.bytes + AxiBytes /\ n \in Nat \ {0}
    BY <2>3 DEF Fits
  <2> HIDE DEF n
  <2>5. (LenWrap + 1) * AxiBytes = LenWrap * AxiBytes + AxiBytes
    BY <1>1
  <2>6. n * AxiBytes < (LenWrap + 1) * AxiBytes
    BY <1>1, <1>3, <2>1, <2>4, <2>5
  <2>7. n < LenWrap + 1
    BY <1>1, <2>4, <2>6, LessFactor
  <2>8. BeatsIn(s) \in 1 .. LenWrap
    BY <1>1, <2>4, <2>7 DEF n
  <2>9. Len(BurstsOf(s)) = 1
    BY <1>4 DEF BurstsOf
  <2>10. 0 = 0 * AxiBytes /\ s.bytes - 0 = s.bytes /\ BeatsIn(s) - 0 = BeatsIn(s)
    BY <1>1, <1>3, <2>3
  <2>11. AtBeat(s, s.bytes, 0, 0)
    BY <1>1, <1>3, <1>4, <2>3, <2>10 DEF AtBeat, Multiple
  <2>12. QED
    BY <1>1, <1>3, <1>4, <2>8, <2>9, <2>11 DEF Carry
<1>5. CASE s.elem # 0
  <2>1. WordBytes % s.elem = 0 /\ s.bytes % s.elem = 0 /\ s.elem \in Nat \ {0}
    BY <1>1, <1>3, <1>5, WidthsAssumption
  <2>2. /\ WordBytes \div s.elem \in Nat /\ WordBytes = (WordBytes \div s.elem) * s.elem
        /\ s.bytes \div s.elem \in Nat /\ s.bytes = (s.bytes \div s.elem) * s.elem
    BY <1>1, <1>3, <2>1, DivisorMultiple
  <2>3. BurstsOf(s) = Copies(1, s.bytes \div s.elem)
    BY <1>5 DEF BurstsOf
  <2>4. Len(BurstsOf(s)) = s.bytes \div s.elem
    BY <2>2, <2>3, CopiesSeq
  <2>5. Carry(Len(BurstsOf(s)), s, s.bytes)
    BY <1>5, <2>2, <2>4 DEF Carry
  <2>6. 0 = 0 * s.elem
    BY <2>1
  <2>7. Multiple(0, s.elem) /\ Multiple(s.bytes, s.elem) /\ Multiple(WordBytes, s.elem)
    BY <2>2, <2>6 DEF Multiple
  <2>8. AtBeat(s, s.bytes, 0, 0)
    BY <1>1, <1>3, <1>5, <2>7 DEF AtBeat
  <2>9. BeatsIn(s) \in 1 .. LenWrap
    BY <1>1, <1>5 DEF BeatsIn
  <2>10. QED
    BY <1>1, <1>3, <1>5, <2>5, <2>7, <2>8, <2>9
<1>6. QED
  BY <1>4, <1>5

-----------------------------------------------------------------------------
(***************************************************************************)
(* The ring.                                                               *)
(***************************************************************************)
Wrap(a) == a % Depth
LEMMA WrapValue ==
  ASSUME NEW a \in 0 .. 2 * Depth - 1
  PROVE  Wrap(a) = (IF a < Depth THEN a ELSE a - Depth) /\ Wrap(a) \in Slots
BY WrapAround DEF Wrap

LEMMA WrapPlus ==
  ASSUME NEW a \in 0 .. 2 * Depth - 2
  PROVE  ((a % Depth) + 1) % Depth = (a + 1) % Depth
<1>1. Depth \in Nat \ {0, 1}
  BY SizesAssumption
<1>2. a \in 0 .. 2 * Depth - 1 /\ a + 1 \in 0 .. 2 * Depth - 1
  BY <1>1
<1>3. /\ Wrap(a) = (IF a < Depth THEN a ELSE a - Depth)
      /\ Wrap(a + 1) = IF a + 1 < Depth THEN a + 1 ELSE a + 1 - Depth
  BY <1>1, <1>2, WrapValue
<1>4. Wrap(a) \in Nat /\ Wrap(a) + 1 \in 0 .. 2 * Depth - 1
  BY <1>1, <1>3
<1>5. Wrap(Wrap(a) + 1) = IF Wrap(a) + 1 < Depth THEN Wrap(a) + 1 ELSE Wrap(a) + 1 - Depth
  BY <1>1, <1>4, WrapValue
<1>6. Wrap(Wrap(a) + 1) = Wrap(a + 1)
  BY <1>1, <1>3, <1>5
<1>7. QED
  BY <1>6 DEF Wrap

LEMMA WrapShift ==
  ASSUME NEW i \in Slots, NEW c \in 1 .. Depth
  PROVE  (((i + 1) % Depth) + (c - 1)) % Depth = (i + c) % Depth
<1>1. Depth \in Nat \ {0, 1} /\ i \in 0 .. Depth - 1
  BY SizesAssumption DEF Slots
<1>2. i + 1 \in 0 .. 2 * Depth - 1 /\ i + c \in 0 .. 2 * Depth - 1
  BY <1>1
<1>3. /\ Wrap(i + 1) = (IF i + 1 < Depth THEN i + 1 ELSE i + 1 - Depth)
      /\ Wrap(i + c) = IF i + c < Depth THEN i + c ELSE i + c - Depth
  BY <1>1, <1>2, WrapValue
<1> DEFINE b == Wrap(i + 1) + (c - 1)
<1>4. b \in 0 .. 2 * Depth - 1
  BY <1>1, <1>3
<1>5. Wrap(b) = IF b < Depth THEN b ELSE b - Depth
  BY <1>1, <1>4, WrapValue
<1>6. Wrap(b) = Wrap(i + c)
  BY <1>1, <1>3, <1>5
<1>7. QED
  BY <1>6 DEF Wrap

\* Places of the ring differ.
LEMMA WrapApart ==
  ASSUME NEW i \in Slots, NEW j \in 0 .. Depth - 1, NEW k \in 0 .. Depth - 1, j # k
  PROVE  (i + j) % Depth # (i + k) % Depth /\ (i + j) % Depth \in Slots
<1>1. Depth \in Nat \ {0, 1} /\ i \in 0 .. Depth - 1
  BY SizesAssumption DEF Slots
<1>2. i + j \in 0 .. 2 * Depth - 1 /\ i + k \in 0 .. 2 * Depth - 1
  BY <1>1
<1>3. /\ Wrap(i + j) = (IF i + j < Depth THEN i + j ELSE i + j - Depth)
      /\ Wrap(i + j) \in Slots
      /\ Wrap(i + k) = IF i + k < Depth THEN i + k ELSE i + k - Depth
  BY <1>1, <1>2, WrapValue
<1>4. Wrap(i + j) # Wrap(i + k)
  BY <1>1, <1>3
<1>5. QED
  BY <1>3, <1>4 DEF Wrap

LEMMA InitStore == Init => StoreInv
<1>1. SUFFICES ASSUME Init PROVE StoreInv
  OBVIOUS
<1>2. /\ Depth \in Nat \ {0, 1} /\ WordBytes \in Nat \ {0} /\ AxiBytes \in Nat \ {0}
      /\ LenWrap \in Nat \ {0, 1} /\ Numbers \in Nat
  BY SizesAssumption
<1>3. TypeOK
  <2>1. NoStore \in [n : 0 .. Numbers, bytes : Nat, elem : Nat]
    BY <1>2 DEF NoStore
  <2>2. vinsn \in [Slots -> [n : 0 .. Numbers, bytes : Nat, elem : Nat]]
    BY <1>1, <2>1 DEF Init
  <2>3. acceptPnt \in Slots /\ issuePnt \in Slots /\ commitPnt \in Slots
    BY <1>1, <1>2 DEF Init, Slots
  <2>4. QED
    BY <1>1, <1>2, <2>2, <2>3 DEF Init, TypeOK
<1>4. RingPointers
  <2>1. 0 \in 0 .. 2 * Depth - 1 /\ 0 < Depth
    BY <1>2
  <2>2. 0 % Depth = 0
    BY <2>1, WrapAround
  <2>3. QED
    BY <1>1, <2>2 DEF Init, RingPointers
<1>5. StoresHeld /\ HeadAtBeat
  BY <1>1 DEF Init, StoresHeld, HeadAtBeat
<1> DEFINE f == [k \in 0 .. 0 |-> 0]
<1>6. \A owner : Parted(<<>>, f, owner, 0)
  BY DEF Parted
<1>7. WordsInOrder /\ BurstsInOrder
  <2>1. words = <<>> /\ bursts = <<>> /\ issueCnt = 0
    BY <1>1 DEF Init
  <2>2. Parted(words, f, WordOwner, issueCnt) /\ Parted(bursts, f, BurstOwner, issueCnt)
    BY <1>6, <2>1
  <2> HIDE DEF f
  <2>3. \A k \in 0 .. issueCnt - 1 : FALSE
    BY <2>1
  <2>4. WordsInOrder
    BY <2>2, <2>3 DEF WordsInOrder
  <2>5. BurstsInOrder
    BY <2>2, <2>3 DEF BurstsInOrder
  <2>6. QED
    BY <2>4, <2>5
<1>8. QED
  BY <1>3, <1>4, <1>5, <1>7 DEF StoreInv

-----------------------------------------------------------------------------
(***************************************************************************)
(* The actions.                                                            *)
(***************************************************************************)
LEMMA NumbersFollow ==
  ASSUME TypeOK
  PROVE  NextNumber \in 1 .. Numbers
<1>1. Numbers \in Nat \ {0} /\ last \in Nat
  BY SizesAssumption DEF TypeOK
<1>2. last % Numbers \in 0 .. Numbers - 1
  BY <1>1, DivModParts
<1>3. QED
  BY <1>1, <1>2 DEF NextNumber

\* The new store takes a free place, behind the stores to be issued.
LEMMA AcceptStores ==
  ASSUME StoreInv, NEW s \in Stores, Accept(s)
  PROVE  LET t == [n |-> NextNumber, bytes |-> s.bytes, elem |-> s.elem] IN
         /\ IsStore(t) /\ t \in [n : 0 .. Numbers, bytes : Nat, elem : Nat]
         /\ \A k \in 0 .. issueCnt - 1 : Store(k)' = Store(k)
         /\ \A k \in 0 .. issueCnt : k = issueCnt => Store(k)' = t
         /\ issueCnt \in 0 .. Depth - 1 /\ commitCnt \in 0 .. Depth - 1
<1> DEFINE t == [n |-> NextNumber, bytes |-> s.bytes, elem |-> s.elem]
<1>1. Depth \in Nat \ {0, 1} /\ Numbers \in Nat
  BY SizesAssumption
<1>2. TypeOK /\ RingPointers
  BY DEF StoreInv
<1>3. /\ commitCnt < Depth /\ vinsn' = [vinsn EXCEPT ![acceptPnt] = t]
      /\ issuePnt' = issuePnt
  BY DEF Accept, NotFull
<1>4. /\ issueCnt \in 0 .. Depth - 1 /\ commitCnt \in 0 .. Depth - 1
      /\ acceptPnt \in Slots /\ issuePnt \in Slots
      /\ vinsn \in [Slots -> [n : 0 .. Numbers, bytes : Nat, elem : Nat]]
  BY <1>1, <1>2, <1>3 DEF TypeOK
<1>5. IsStore(t) /\ t \in [n : 0 .. Numbers, bytes : Nat, elem : Nat]
  <2>1. NextNumber \in 1 .. Numbers
    BY <1>2, NumbersFollow
  <2>2. s \in [bytes : Nat \ {0}, elem : Nat]
    BY StoresAssumption
  <2>3. s = [bytes |-> s.bytes, elem |-> s.elem] /\ s.bytes \in Nat /\ s.elem \in Nat
    BY <2>2
  <2>4. t.n = NextNumber /\ t.bytes = s.bytes /\ t.elem = s.elem
    OBVIOUS
  <2> HIDE DEF t
  <2>5. IsStore(t)
    BY <2>1, <2>3, <2>4 DEF IsStore
  <2>6. t \in [n : 0 .. Numbers, bytes : Nat, elem : Nat]
    BY <1>1, <2>1, <2>3 DEF t
  <2>7. QED
    BY <2>5, <2>6
<1> HIDE DEF t
<1>6. acceptPnt = (issuePnt + issueCnt) % Depth
  BY <1>2 DEF RingPointers
<1>7. ASSUME NEW k \in 0 .. issueCnt, k = issueCnt PROVE Store(k)' = t
  BY <1>3, <1>4, <1>6, <1>7 DEF Store
<1>8. ASSUME NEW k \in 0 .. issueCnt - 1 PROVE Store(k)' = Store(k)
  <2>1. k \in 0 .. Depth - 1 /\ k # issueCnt
    BY <1>1, <1>4
  <2>2. (issuePnt + k) % Depth # acceptPnt /\ (issuePnt + k) % Depth \in Slots
    BY <1>4, <1>6, <2>1, WrapApart
  <2>3. QED
    BY <1>3, <1>4, <2>2 DEF Store
<1>9. QED
  BY <1>4, <1>5, <1>7, <1>8 DEF t

\* The bursts of a store, as its owner sees them.
LEMMA BurstsMarked ==
  ASSUME NEW t, IsStore(t), NEW n
  PROVE  /\ [k \in DOMAIN BurstsOf(t) |-> [n |-> n, beats |-> BurstsOf(t)[k]]]
              = Copies([n |-> n, beats |-> BeatsIn(t)], Len(BurstsOf(t)))
         /\ Len(BurstsOf(t)) \in Nat
<1>1. t.elem \in Nat /\ t.bytes \in Nat \ {0}
  BY StoreFacts
<1>2. CASE t.elem = 0
  <2>1. BurstsOf(t) = <<BeatsIn(t)>>
    BY <1>2 DEF BurstsOf, BeatsIn
  <2>2. QED
    BY <2>1 DEF Copies
<1>3. CASE t.elem # 0
  <2>1. BurstsOf(t) = Copies(1, t.bytes \div t.elem) /\ BeatsIn(t) = 1
    BY <1>3 DEF BurstsOf, BeatsIn
  <2>2. t.bytes \div t.elem \in Nat
    BY <1>1, <1>3, DivModParts
  <2>3. QED
    BY <2>1, <2>2 DEF Copies
<1>4. QED
  BY <1>2, <1>3

LEMMA AcceptKeeps ==
  ASSUME StoreInv, NEW s \in Stores, Accept(s)
  PROVE  StoreInv'
<1> DEFINE t == [n |-> NextNumber, bytes |-> s.bytes, elem |-> s.elem]
           b == [n |-> NextNumber, beats |-> BeatsIn(t)]
           cw == CeilDiv(s.bytes, WordBytes)
           cb == Len(BurstsOf(t))
<1>1. /\ Depth \in Nat \ {0, 1} /\ Numbers \in Nat /\ WordBytes \in Nat \ {0}
      /\ AxiBytes \in Nat \ {0} /\ LenWrap \in Nat \ {0, 1}
  BY SizesAssumption
<1>2. TypeOK /\ RingPointers /\ StoresHeld /\ WordsInOrder /\ BurstsInOrder /\ HeadAtBeat
  BY DEF StoreInv
<1>3. /\ IsStore(t) /\ t \in [n : 0 .. Numbers, bytes : Nat, elem : Nat]
      /\ \A k \in 0 .. issueCnt - 1 : Store(k)' = Store(k)
      /\ \A k \in 0 .. issueCnt : k = issueCnt => Store(k)' = t
      /\ issueCnt \in 0 .. Depth - 1 /\ commitCnt \in 0 .. Depth - 1
  BY AcceptStores
<1>4. /\ t.n \in 1 .. Numbers /\ t.bytes \in Nat \ {0} /\ BeatsIn(t) \in 1 .. LenWrap
      /\ Carry(cb, t, t.bytes) /\ AtBeat(t, t.bytes, 0, 0) /\ cb \in Nat
      /\ [k \in DOMAIN BurstsOf(t) |-> [n |-> NextNumber, beats |-> BurstsOf(t)[k]]] = Copies(b, cb)
  BY <1>3, StoreFacts, BurstsMarked
<1>5. /\ t.n = NextNumber /\ t.bytes = s.bytes /\ b \in BurstType
      /\ BurstsOf(s) = BurstsOf(t)
  <2>1. t.n = NextNumber /\ t.bytes = s.bytes /\ t.elem = s.elem
    OBVIOUS
  <2>2. BurstsOf(s) = BurstsOf(t)
    BY <2>1 DEF BurstsOf
  <2>3. b \in BurstType
    BY <1>4, <2>1 DEF BurstType
  <2>4. QED
    BY <2>1, <2>2, <2>3
<1>6. cw \in Nat /\ Fits(cw, WordBytes, t.bytes)
  BY <1>1, <1>4, <1>5, CeilFits
<1> HIDE DEF t, b, cw, cb
<1>7. /\ vinsn' = [vinsn EXCEPT ![acceptPnt] = t]
      /\ acceptPnt' = (acceptPnt + 1) % Depth
      /\ issueCnt' = issueCnt + 1 /\ commitCnt' = commitCnt + 1
      /\ left' = (IF issueCnt = 0 THEN t.bytes ELSE left)
      /\ last' = NextNumber
      /\ words' = words \o Copies(NextNumber, cw)
      /\ answers' = answers \o Copies(NextNumber, cb)
      /\ issuePnt' = issuePnt /\ commitPnt' = commitPnt /\ vrfPnt' = vrfPnt /\ len' = len
  BY <1>5 DEF Accept, t, cw, cb
<1>8. bursts' = bursts \o Copies(b, cb)
  BY <1>4, <1>5 DEF Accept
<1>9. RingPointers'
  <2>1. acceptPnt = (issuePnt + issueCnt) % Depth /\ issuePnt \in 0 .. Depth - 1
    BY <1>2 DEF RingPointers, TypeOK, Slots
  <2>2. issuePnt + issueCnt \in 0 .. 2 * Depth - 2
    BY <1>1, <1>3, <2>1
  <2>3. (acceptPnt + 1) % Depth = (issuePnt + issueCnt + 1) % Depth
    BY <2>1, <2>2, WrapPlus
  <2>4. issuePnt + issueCnt + 1 = issuePnt + (issueCnt + 1)
    BY <1>3, <2>1
  <2>5. commitCnt + 1 - (issueCnt + 1) = commitCnt - issueCnt
    BY <1>3
  <2>6. acceptPnt' = (issuePnt' + issueCnt') % Depth
    BY <1>7, <2>3, <2>4
  <2>7. issuePnt' = (commitPnt' + (commitCnt' - issueCnt')) % Depth
    <3>1. commitCnt' - issueCnt' = commitCnt - issueCnt
      BY <1>3, <1>7
    <3>2. issuePnt = (commitPnt + (commitCnt - issueCnt)) % Depth
      BY <1>2 DEF RingPointers
    <3>3. QED
      BY <1>7, <3>1, <3>2
  <2>8. QED
    BY <2>6, <2>7 DEF RingPointers
<1>10. TypeOK'
  <2>1. vinsn' \in [Slots -> [n : 0 .. Numbers, bytes : Nat, elem : Nat]]
    BY <1>2, <1>3, <1>7 DEF TypeOK
  <2>2. acceptPnt' \in Slots
    <3>1. acceptPnt + 1 \in Nat
      BY <1>1, <1>2 DEF TypeOK, Slots
    <3>2. (acceptPnt + 1) % Depth \in 0 .. Depth - 1
      BY <1>1, <3>1, DivModParts
    <3>3. QED
      BY <1>7, <3>2 DEF Slots
  <2>3. commitCnt' \in 0 .. Depth /\ issueCnt' \in 0 .. commitCnt'
    BY <1>1, <1>2, <1>3, <1>7 DEF TypeOK
  <2>4. words' \in Seq(1 .. Numbers)
    BY <1>2, <1>4, <1>5, <1>6, <1>7, CopiesSeq, ConcatProperties DEF TypeOK
  <2>5. bursts' \in Seq(BurstType)
    BY <1>2, <1>4, <1>5, <1>8, CopiesSeq, ConcatProperties DEF TypeOK
  <2>6. answers' \in Seq(0 .. Numbers)
    <3>1. NextNumber \in 0 .. Numbers
      BY <1>1, <1>4, <1>5
    <3>2. QED
      BY <1>2, <1>4, <1>7, <3>1, CopiesSeq, ConcatProperties DEF TypeOK
  <2>7. left' \in Nat /\ last' \in 0 .. Numbers
    <3>1. left \in Nat /\ NextNumber \in 0 .. Numbers
      BY <1>1, <1>2, <1>4, <1>5 DEF TypeOK
    <3>2. QED
      BY <1>4, <1>7, <3>1
  <2>8. /\ issuePnt' \in Slots /\ commitPnt' \in Slots /\ vrfPnt' \in 0 .. WordBytes - 1
        /\ len' \in 0 .. LenWrap - 1
    BY <1>2, <1>7 DEF TypeOK
  <2>9. QED
    BY <2>1, <2>2, <2>3, <2>4, <2>5, <2>6, <2>7, <2>8 DEF TypeOK
<1>11. StoresHeld'
  <2>1. ASSUME NEW k \in 0 .. issueCnt' - 1 PROVE IsStore(Store(k)')
    <3>1. k \in 0 .. issueCnt /\ (k = issueCnt \/ k \in 0 .. issueCnt - 1)
      BY <1>3, <1>7
    <3>2. QED
      BY <1>2, <1>3, <3>1 DEF StoresHeld
  <2>2. QED
    BY <2>1 DEF StoresHeld
<1>12. WordsInOrder'
  <2>1. PICK f : /\ Parted(words, f, WordOwner, issueCnt)
                 /\ \A k \in 0 .. issueCnt - 1 : Fits(f[k + 1] - f[k], WordBytes, BytesLeft(k))
    BY <1>2 DEF WordsInOrder
  <2>2. /\ \A k \in 0 .. issueCnt - 1 : WordOwner'[k] = WordOwner[k]
        /\ WordOwner'[issueCnt] = NextNumber
    <3>1. /\ 0 .. issueCnt' - 1 = 0 .. issueCnt /\ issueCnt \in 0 .. issueCnt
          /\ \A k \in 0 .. issueCnt - 1 : k \in 0 .. issueCnt
      BY <1>3, <1>7
    <3>2. WordOwner' = [k \in 0 .. issueCnt |-> (Store(k)').n]
      BY <3>1 DEF WordOwner
    <3>3. QED
      BY <1>3, <1>5, <3>1, <3>2 DEF WordOwner
  <2>3. words \in Seq(1 .. Numbers) /\ NextNumber \in 1 .. Numbers /\ issueCnt \in Nat
    BY <1>2, <1>3, <1>4, <1>5 DEF TypeOK
  <2>4. PICK g : /\ Parted(words \o Copies(NextNumber, cw), g, WordOwner', issueCnt + 1)
                 /\ \A k \in 0 .. issueCnt : g[k] = f[k]
                 /\ g[issueCnt + 1] = f[issueCnt] + cw
    <3> DEFINE old == WordOwner
               new == WordOwner'
               S == 1 .. Numbers
    <3>1. /\ Parted(words, f, old, issueCnt)
          /\ \A k \in 0 .. issueCnt - 1 : new[k] = old[k]
          /\ new[issueCnt] = NextNumber
          /\ words \in Seq(S) /\ NextNumber \in S /\ issueCnt \in Nat
      BY <2>1, <2>2, <2>3
    <3> HIDE DEF old, new, S
    <3>2. \E g : /\ Parted(words \o Copies(NextNumber, cw), g, new, issueCnt + 1)
                 /\ \A k \in 0 .. issueCnt : g[k] = f[k]
                 /\ g[issueCnt + 1] = f[issueCnt] + cw
      BY <1>6, <3>1, PartedAppend
    <3>3. QED
      BY <3>2 DEF new
  <2>5. Parted(words', g, WordOwner', issueCnt')
    BY <1>7, <2>4
  <2>6. ASSUME NEW k \in 0 .. issueCnt' - 1
        PROVE  Fits(g[k + 1] - g[k], WordBytes, BytesLeft(k)')
    <3>1. CASE k = issueCnt
      <4>1. BytesLeft(k)' = t.bytes
        BY <1>3, <1>7, <3>1 DEF BytesLeft
      <4>2. f \in [0 .. issueCnt -> Nat] /\ issueCnt \in 0 .. issueCnt
        BY <1>3, <2>1 DEF Parted
      <4>3. f[issueCnt] \in Nat
        BY <4>2
      <4>4. g[k + 1] - g[k] = cw
        BY <1>6, <2>4, <3>1, <4>2, <4>3
      <4>5. QED
        BY <1>6, <4>1, <4>4
    <3>2. CASE k # issueCnt
      <4>1. /\ k \in 0 .. issueCnt - 1 /\ k \in 0 .. issueCnt
            /\ k + 1 \in 0 .. issueCnt /\ issueCnt # 0
        BY <1>3, <1>7, <3>2
      <4>2. g[k + 1] - g[k] = f[k + 1] - f[k]
        BY <2>4, <4>1
      <4>3. BytesLeft(k)' = BytesLeft(k)
        BY <1>3, <1>7, <4>1 DEF BytesLeft
      <4>4. Fits(f[k + 1] - f[k], WordBytes, BytesLeft(k))
        BY <2>1, <4>1
      <4>5. QED
        BY <4>2, <4>3, <4>4
    <3>3. QED
      BY <3>1, <3>2
  <2>7. QED
    BY <2>5, <2>6 DEF WordsInOrder
<1>13. BurstsInOrder'
  <2>1. PICK f : /\ Parted(bursts, f, BurstOwner, issueCnt)
                 /\ \A k \in 0 .. issueCnt - 1 : Carry(f[k + 1] - f[k], Store(k), ToSend(k))
    BY <1>2 DEF BurstsInOrder
  <2>2. /\ \A k \in 0 .. issueCnt - 1 : BurstOwner'[k] = BurstOwner[k]
        /\ BurstOwner'[issueCnt] = b
    <3>1. /\ 0 .. issueCnt' - 1 = 0 .. issueCnt /\ issueCnt \in 0 .. issueCnt
          /\ \A k \in 0 .. issueCnt - 1 : k \in 0 .. issueCnt
      BY <1>3, <1>7
    <3>2. BurstOwner'
            = [k \in 0 .. issueCnt |-> [n |-> (Store(k)').n, beats |-> BeatsIn(Store(k)')]]
      BY <3>1 DEF BurstOwner
    <3>3. BurstOwner'[issueCnt] = b
      BY <1>3, <1>5, <3>1, <3>2 DEF b
    <3>4. ASSUME NEW k \in 0 .. issueCnt - 1 PROVE BurstOwner'[k] = BurstOwner[k]
      BY <1>3, <3>1, <3>2 DEF BurstOwner
    <3>5. QED
      BY <3>3, <3>4
  <2>3. bursts \in Seq(BurstType) /\ issueCnt \in Nat
    BY <1>2, <1>3 DEF TypeOK
  <2>4. PICK g : /\ Parted(bursts \o Copies(b, cb), g, BurstOwner', issueCnt + 1)
                 /\ \A k \in 0 .. issueCnt : g[k] = f[k]
                 /\ g[issueCnt + 1] = f[issueCnt] + cb
    <3> DEFINE old == BurstOwner
               new == BurstOwner'
    <3>1. /\ Parted(bursts, f, old, issueCnt)
          /\ \A k \in 0 .. issueCnt - 1 : new[k] = old[k]
          /\ new[issueCnt] = b
      BY <2>1, <2>2
    <3> HIDE DEF old, new
    <3>2. \E g : /\ Parted(bursts \o Copies(b, cb), g, new, issueCnt + 1)
                 /\ \A k \in 0 .. issueCnt : g[k] = f[k]
                 /\ g[issueCnt + 1] = f[issueCnt] + cb
      BY <1>4, <1>5, <2>3, <3>1, PartedAppend
    <3>3. QED
      BY <3>2 DEF new
  <2>5. Parted(bursts', g, BurstOwner', issueCnt')
    BY <1>7, <1>8, <2>4
  <2>6. ASSUME NEW k \in 0 .. issueCnt' - 1
        PROVE  Carry(g[k + 1] - g[k], Store(k)', ToSend(k)')
    <3>1. CASE k = issueCnt
      <4>1. Store(k)' = t
        BY <1>3, <3>1
      <4>2. ToSend(k)' = t.bytes
        <5>1. issueCnt = 0 => vrfPnt' = 0
          BY <1>2, <1>7 DEF HeadAtBeat
        <5>2. t.bytes - 0 = t.bytes
          BY <1>4
        <5>3. QED
          BY <1>7, <3>1, <4>1, <5>1, <5>2 DEF ToSend
      <4>3. f \in [0 .. issueCnt -> Nat] /\ issueCnt \in 0 .. issueCnt
        BY <1>3, <2>1 DEF Parted
      <4>4. f[issueCnt] \in Nat
        BY <4>3
      <4>5. g[k + 1] - g[k] = cb
        BY <1>4, <2>4, <3>1, <4>3, <4>4
      <4>6. QED
        BY <1>4, <4>1, <4>2, <4>5
    <3>2. CASE k # issueCnt
      <4>1. /\ k \in 0 .. issueCnt - 1 /\ k \in 0 .. issueCnt
            /\ k + 1 \in 0 .. issueCnt /\ issueCnt # 0
        BY <1>3, <1>7, <3>2
      <4>2. g[k + 1] - g[k] = f[k + 1] - f[k]
        BY <2>4, <4>1
      <4>3. ToSend(k)' = ToSend(k) /\ Store(k)' = Store(k)
        BY <1>3, <1>7, <4>1 DEF ToSend
      <4>4. Carry(f[k + 1] - f[k], Store(k), ToSend(k))
        BY <2>1, <4>1
      <4>5. QED
        BY <4>2, <4>3, <4>4
    <3>3. QED
      BY <3>1, <3>2
  <2>7. QED
    BY <2>5, <2>6 DEF BurstsInOrder
<1>14. HeadAtBeat'
  <2>1. issueCnt' # 0
    BY <1>3, <1>7
  <2>2. AtBeat(Store(0)', left', vrfPnt', len')
    <3>1. CASE issueCnt = 0
      <4>1. Store(0)' = t /\ left' = t.bytes
        BY <1>3, <1>7, <3>1
      <4>2. vrfPnt' = 0 /\ len' = 0
        BY <1>2, <1>7, <3>1 DEF HeadAtBeat
      <4>3. QED
        BY <1>4, <4>1, <4>2
    <3>2. CASE issueCnt # 0
      <4>1. 0 \in 0 .. issueCnt - 1
        BY <1>3, <3>2
      <4>2. Store(0)' = Store(0) /\ left' = left
        BY <1>3, <1>7, <3>2, <4>1
      <4>3. AtBeat(Store(0), left, vrfPnt, len)
        BY <1>2, <1>3, <3>2 DEF HeadAtBeat
      <4>4. QED
        BY <1>7, <4>2, <4>3
    <3>3. QED
      BY <3>1, <3>2
  <2>3. QED
    BY <2>1, <2>2 DEF HeadAtBeat
<1>15. QED
  BY <1>9, <1>10, <1>11, <1>12, <1>13, <1>14 DEF StoreInv

\* What is to be issued does not depend on the answers.
LEMMA IssueSame ==
  ASSUME StoreInv,
         UNCHANGED <<vinsn, issuePnt, issueCnt, left, vrfPnt, len, words, bursts>>
  PROVE  StoresHeld' /\ WordsInOrder' /\ BurstsInOrder' /\ HeadAtBeat'
<1>1. StoresHeld /\ WordsInOrder /\ BurstsInOrder /\ HeadAtBeat
  BY DEF StoreInv
<1>2. \A k : /\ Store(k)' = Store(k) /\ BytesLeft(k)' = BytesLeft(k)
             /\ ToSend(k)' = ToSend(k)
  BY DEF Store, BytesLeft, ToSend
<1>3. WordOwner' = WordOwner /\ BurstOwner' = BurstOwner
  BY <1>2 DEF WordOwner, BurstOwner
<1>4. StoresHeld'
  BY <1>1, <1>2 DEF StoresHeld
<1>5. WordsInOrder'
  <2>1. PICK f : /\ Parted(words, f, WordOwner, issueCnt)
                 /\ \A k \in 0 .. issueCnt - 1 : Fits(f[k + 1] - f[k], WordBytes, BytesLeft(k))
    BY <1>1 DEF WordsInOrder
  <2>2. /\ Parted(words', f, WordOwner', issueCnt')
        /\ \A k \in 0 .. issueCnt' - 1 : Fits(f[k + 1] - f[k], WordBytes, BytesLeft(k)')
    BY <1>2, <1>3, <2>1
  <2>3. QED
    BY <2>2 DEF WordsInOrder
<1>6. BurstsInOrder'
  <2>1. PICK f : /\ Parted(bursts, f, BurstOwner, issueCnt)
                 /\ \A k \in 0 .. issueCnt - 1 : Carry(f[k + 1] - f[k], Store(k), ToSend(k))
    BY <1>1 DEF BurstsInOrder
  <2>2. /\ Parted(bursts', f, BurstOwner', issueCnt')
        /\ \A k \in 0 .. issueCnt' - 1 : Carry(f[k + 1] - f[k], Store(k)', ToSend(k)')
    BY <1>2, <1>3, <2>1
  <2>3. QED
    BY <2>2 DEF BurstsInOrder
<1>7. HeadAtBeat'
  <2>1. Store(0)' = Store(0)
    BY <1>2
  <2>2. QED
    BY <1>1, <2>1 DEF HeadAtBeat
<1>8. QED
  BY <1>4, <1>5, <1>6, <1>7

LEMMA AnswersShrink ==
  ASSUME TypeOK, answers # <<>>
  PROVE  Tail(answers) \in Seq(0 .. Numbers)
<1>1. answers \in Seq(0 .. Numbers)
  BY DEF TypeOK
<1>2. QED
  BY <1>1, HeadTailProperties

LEMMA CommitKeeps ==
  ASSUME StoreInv, Commit
  PROVE  StoreInv'
<1>1. /\ TypeOK /\ RingPointers /\ Depth \in Nat \ {0, 1}
      /\ answers # <<>> /\ issuePnt # commitPnt
      /\ commitCnt' = commitCnt - 1 /\ commitPnt' = (commitPnt + 1) % Depth
      /\ answers' = Tail(answers)
      /\ UNCHANGED <<vinsn, acceptPnt, issuePnt, issueCnt, left, vrfPnt, len, words, bursts, last>>
  BY SizesAssumption DEF StoreInv, Commit, Answerable, Waiting
<1>2. /\ commitCnt \in 0 .. Depth /\ issueCnt \in 0 .. commitCnt /\ commitPnt \in 0 .. Depth - 1
      /\ issuePnt = (commitPnt + (commitCnt - issueCnt)) % Depth
      /\ acceptPnt = (issuePnt + issueCnt) % Depth
  BY <1>1 DEF TypeOK, RingPointers, Slots
<1> DEFINE d == commitCnt - issueCnt
<1>3. d \in 1 .. Depth
  <2>1. d \in 0 .. Depth
    BY <1>1, <1>2
  <2>2. d # 0
    <3>1. SUFFICES ASSUME d = 0 PROVE FALSE
      OBVIOUS
    <3>2. commitPnt + d = commitPnt /\ commitPnt \in 0 .. 2 * Depth - 1 /\ commitPnt < Depth
      BY <1>1, <1>2, <3>1
    <3>3. commitPnt % Depth = commitPnt
      BY <3>2, WrapAround
    <3>4. QED
      BY <1>1, <1>2, <3>2, <3>3
  <2>3. QED
    BY <1>1, <2>1, <2>2
<1>4. commitCnt' - issueCnt' = d - 1 /\ commitCnt' \in 0 .. Depth /\ issueCnt' \in 0 .. commitCnt'
  BY <1>1, <1>2, <1>3
<1>5. issuePnt = (commitPnt + d) % Depth
  BY <1>2
<1> HIDE DEF d
<1>6. RingPointers'
  <2>1. (((commitPnt + 1) % Depth) + (d - 1)) % Depth = (commitPnt + d) % Depth
    <3>1. commitPnt \in Slots
      BY <1>1 DEF TypeOK
    <3>2. QED
      BY <1>3, <3>1, WrapShift
  <2>2. issuePnt' = (commitPnt' + (commitCnt' - issueCnt')) % Depth
    BY <1>1, <1>4, <1>5, <2>1
  <2>3. acceptPnt' = (issuePnt' + issueCnt') % Depth
    BY <1>1, <1>2
  <2>4. QED
    BY <2>2, <2>3 DEF RingPointers
<1>7. TypeOK'
  <2>1. commitPnt' \in Slots
    <3>1. commitPnt + 1 \in Nat
      BY <1>2, <1>1
    <3>2. (commitPnt + 1) % Depth \in 0 .. Depth - 1
      BY <1>1, <3>1, DivModParts
    <3>3. QED
      BY <1>1, <3>2 DEF Slots
  <2>2. answers' \in Seq(0 .. Numbers)
    BY <1>1, AnswersShrink
  <2>3. QED
    BY <1>1, <1>4, <2>1, <2>2 DEF TypeOK
<1>8. StoresHeld' /\ WordsInOrder' /\ BurstsInOrder' /\ HeadAtBeat'
  BY <1>1, IssueSame
<1>9. QED
  BY <1>6, <1>7, <1>8 DEF StoreInv

\* An answer to another cluster's store comes or goes, or nothing happens.
LEMMA AnswersKeep ==
  ASSUME StoreInv, DropAnswer \/ StoreElsewhere \/ UNCHANGED vars
  PROVE  StoreInv'
<1>1. TypeOK /\ RingPointers /\ Numbers \in Nat
  BY SizesAssumption DEF StoreInv
<1>2. /\ UNCHANGED <<vinsn, acceptPnt, issuePnt, commitPnt, issueCnt, commitCnt,
                     left, vrfPnt, len, words, bursts, last>>
      /\ \/ answers # <<>> /\ answers' = Tail(answers)
         \/ answers' = Append(answers, 0)
         \/ answers' = answers
  BY DEF DropAnswer, Answerable, StoreElsewhere, vars, queueVars
<1>3. answers' \in Seq(0 .. Numbers)
  <2>1. CASE answers # <<>> /\ answers' = Tail(answers)
    BY <1>1, <2>1, AnswersShrink
  <2>2. CASE answers' = Append(answers, 0)
    <3>1. 0 \in 0 .. Numbers /\ answers \in Seq(0 .. Numbers)
      BY <1>1 DEF TypeOK
    <3>2. QED
      BY <2>2, <3>1, AppendProperties
  <2>3. CASE answers' = answers
    BY <1>1, <2>3 DEF TypeOK
  <2>4. QED
    BY <1>2, <2>1, <2>2, <2>3
<1>4. RingPointers'
  BY <1>1, <1>2 DEF RingPointers
<1>5. TypeOK'
  BY <1>1, <1>2, <1>3 DEF TypeOK
<1>6. StoresHeld' /\ WordsInOrder' /\ BurstsInOrder' /\ HeadAtBeat'
  BY <1>2, IssueSame
<1>7. QED
  BY <1>4, <1>5, <1>6 DEF StoreInv

-----------------------------------------------------------------------------
(***************************************************************************)
(* The beat.                                                               *)
(***************************************************************************)
LEMMA HeadStore ==
  ASSUME StoreInv, issueCnt # 0
  PROVE  /\ Store(0) = vinsn[issuePnt] /\ IsStore(Store(0)) /\ issueCnt \in Nat \ {0}
         /\ AtBeat(Store(0), left, vrfPnt, len)
         /\ left \in Nat /\ vrfPnt \in Nat /\ len \in Nat
<1>1. TypeOK /\ StoresHeld /\ HeadAtBeat /\ Depth \in Nat \ {0, 1}
  BY SizesAssumption DEF StoreInv
<1>2. issueCnt \in Nat \ {0} /\ issuePnt \in 0 .. Depth - 1
  BY <1>1 DEF TypeOK, Slots
<1>3. issuePnt + 0 = issuePnt /\ issuePnt \in 0 .. 2 * Depth - 1 /\ issuePnt < Depth
  BY <1>1, <1>2
<1>4. (issuePnt + 0) % Depth = issuePnt
  BY <1>3, WrapAround
<1>5. 0 \in 0 .. issueCnt - 1
  BY <1>2
<1>6. IsStore(Store(0))
  BY <1>1, <1>5 DEF StoresHeld
<1>7. AtBeat(Store(0), left, vrfPnt, len)
  BY <1>1, <1>2 DEF HeadAtBeat
<1>8. left \in Nat /\ vrfPnt \in Nat /\ len \in Nat
  BY <1>7 DEF AtBeat
<1>9. QED
  BY <1>2, <1>4, <1>6, <1>7, <1>8 DEF Store

\* The first word and the first burst are those of the store being issued.
LEMMA HeadsOwn ==
  ASSUME StoreInv, issueCnt # 0
  PROVE  /\ words # <<>> /\ Head(words) = Store(0).n
         /\ bursts # <<>> /\ Head(bursts) = [n |-> Store(0).n, beats |-> BeatsIn(Store(0))]
<1>1. /\ TypeOK /\ WordsInOrder /\ BurstsInOrder
      /\ WordBytes \in Nat \ {0}
  BY SizesAssumption DEF StoreInv
<1>2. /\ IsStore(Store(0)) /\ issueCnt \in Nat \ {0}
      /\ AtBeat(Store(0), left, vrfPnt, len)
      /\ left \in Nat \ {0} /\ vrfPnt \in Nat /\ vrfPnt < left
  BY HeadStore DEF AtBeat
<1>3. 0 \in 0 .. issueCnt - 1 /\ 0 + 1 = 1 /\ 1 \in 0 .. issueCnt
  BY <1>2
<1>4. WordOwner[0] = Store(0).n
  BY <1>3 DEF WordOwner
<1>5. BurstOwner[0] = [n |-> Store(0).n, beats |-> BeatsIn(Store(0))]
  BY <1>3 DEF BurstOwner
<1>6. words # <<>> /\ Head(words) = WordOwner[0]
  <2>1. PICK f : /\ Parted(words, f, WordOwner, issueCnt)
                 /\ \A k \in 0 .. issueCnt - 1 : Fits(f[k + 1] - f[k], WordBytes, BytesLeft(k))
    BY <1>1 DEF WordsInOrder
  <2>2. f[1] \in Nat /\ f[0] = 0
    BY <1>3, <2>1 DEF Parted
  <2>3. Fits(f[1] - f[0], WordBytes, BytesLeft(0)) /\ f[1] - f[0] = f[1] /\ BytesLeft(0) = left
    BY <1>3, <2>1, <2>2 DEF BytesLeft
  <2>4. left <= f[1] * WordBytes
    BY <2>3 DEF Fits
  <2>5. f[1] # 0
    BY <1>1, <1>2, <2>4
  <2>6. f[1] > 0
    BY <2>2, <2>5
  <2> DEFINE S == 1 .. Numbers
             owner == WordOwner
  <2>7. words \in Seq(S) /\ Parted(words, f, owner, issueCnt)
    BY <1>1, <2>1 DEF TypeOK
  <2> HIDE DEF S, owner
  <2>8. words # <<>> /\ Head(words) = owner[0]
    BY <1>2, <2>6, <2>7, PartedHead
  <2>9. QED
    BY <2>8 DEF owner
<1>7. bursts # <<>> /\ Head(bursts) = BurstOwner[0]
  <2>1. PICK f : /\ Parted(bursts, f, BurstOwner, issueCnt)
                 /\ \A k \in 0 .. issueCnt - 1 : Carry(f[k + 1] - f[k], Store(k), ToSend(k))
    BY <1>1 DEF BurstsInOrder
  <2>2. f[1] \in Nat /\ f[0] = 0
    BY <1>3, <2>1 DEF Parted
  <2>3. Carry(f[1] - f[0], Store(0), ToSend(0)) /\ f[1] - f[0] = f[1] /\ ToSend(0) = left - vrfPnt
    BY <1>3, <2>1, <2>2 DEF ToSend
  <2>4. f[1] # 0
    <3>1. Store(0).elem \in Nat
      BY <1>2, StoreFacts
    <3> DEFINE e == Store(0).elem
    <3>2. e = 0 => f[1] = 1
      BY <2>3 DEF Carry
    <3>3. e # 0 => f[1] * e = left - vrfPnt
      BY <2>3 DEF Carry
    <3>4. e \in Nat
      BY <3>1
    <3> HIDE DEF e
    <3>5. QED
      BY <1>2, <3>2, <3>3, <3>4
  <2>5. f[1] > 0
    BY <2>2, <2>4
  <2> DEFINE owner == BurstOwner
  <2>6. bursts \in Seq(BurstType) /\ Parted(bursts, f, owner, issueCnt)
    BY <1>1, <2>1 DEF TypeOK
  <2> HIDE DEF owner
  <2>7. bursts # <<>> /\ Head(bursts) = owner[0]
    BY <1>2, <2>5, <2>6, PartedHead
  <2>8. QED
    BY <2>7 DEF owner
<1>8. QED
  BY <1>4, <1>5, <1>6, <1>7

\* What a beat carries and what it leaves.
LEMMA BeatFacts ==
  ASSUME StoreInv, issueCnt # 0, NEW n, Carry(n, Store(0), left - vrfPnt)
  PROVE  LET s == Store(0)
             v2 == vrfPnt + ValidBytes
             top == Lesser(left, WordBytes)
             len2 == IF LastBeat THEN 0 ELSE (len + 1) % LenWrap
             n2 == IF LastBeat THEN n - 1 ELSE n
         IN /\ ValidBytes \in Nat \ {0} /\ v2 \in Nat /\ v2 <= top
            /\ WordDone <=> v2 = top
            /\ ~WordDone => AtBeat(s, left, v2, len2) /\ Carry(n2, s, left - v2)
            /\ WordDone /\ left > WordBytes => /\ AtBeat(s, left - WordBytes, 0, len2)
                                               /\ Carry(n2, s, left - WordBytes)
            /\ WordDone /\ left <= WordBytes => LastBeat /\ n = 1
            /\ n \in Nat \ {0}
<1> DEFINE s == Store(0)
           W == WordBytes
           v2 == vrfPnt + ValidBytes
           top == Lesser(left, W)
           len2 == IF LastBeat THEN 0 ELSE (len + 1) % LenWrap
           n2 == IF LastBeat THEN n - 1 ELSE n
<1>1. /\ W \in Nat \ {0} /\ AxiBytes \in Nat \ {0} /\ LenWrap \in Nat \ {0, 1}
  BY SizesAssumption
<1>2. /\ s = vinsn[issuePnt] /\ IsStore(s) /\ AtBeat(s, left, vrfPnt, len)
      /\ Carry(n, s, left - vrfPnt)
  BY HeadStore
<1>3. /\ left \in Nat \ {0} /\ vrfPnt \in Nat /\ vrfPnt < left /\ vrfPnt < W /\ len \in Nat
  BY <1>2 DEF AtBeat
<1>4. /\ s.bytes \in Nat \ {0} /\ s.elem \in Nat /\ BeatsIn(s) \in 1 .. LenWrap
      /\ s.elem # 0 => Multiple(W, s.elem)
  BY <1>2, StoreFacts
<1>5. Head(bursts).beats = BeatsIn(s)
  BY HeadsOwn
<1>6. /\ top \in Nat /\ top <= left /\ top <= W /\ (left <= W => top = left)
      /\ (left > W => top = W) /\ vrfPnt < top
  BY <1>1, <1>3 DEF Lesser
<1>7. ASSUME v2 \in Nat, v2 <= top PROVE WordDone <=> v2 = top
  BY <1>1, <1>3, <1>6, <1>7 DEF WordDone
<1>8. len + 1 <= LenWrap => /\ len + 1 \in 1 .. LenWrap
                            /\ LastBeat <=> (len + 1 = BeatsIn(s))
                            /\ len + 1 < LenWrap => (len + 1) % LenWrap = len + 1
  <2>1. SUFFICES ASSUME len + 1 <= LenWrap
                 PROVE  /\ len + 1 \in 1 .. LenWrap
                        /\ LastBeat <=> (len + 1 = BeatsIn(s))
                        /\ len + 1 < LenWrap => (len + 1) % LenWrap = len + 1
    OBVIOUS
  <2> DEFINE a == len + 1
             b == BeatsIn(s)
  <2>2. a \in 1 .. LenWrap /\ b \in 1 .. LenWrap
    BY <1>1, <1>3, <1>4, <2>1
  <2>3. LastBeat <=> (a % LenWrap = b % LenWrap)
    BY <1>5 DEF LastBeat
  <2> HIDE DEF a, b
  <2>4. (a % LenWrap = b % LenWrap <=> a = b) /\ (a < LenWrap => a % LenWrap = a)
    BY <2>2, WrapEqual
  <2>5. QED
    BY <2>2, <2>3, <2>4 DEF a, b
<1> HIDE DEF s, W, v2, top
<1>9. CASE s.elem = 0
  <2> DEFINE B == BeatsIn(s)
             m == B - len
             vb == Lesser(top - vrfPnt, AxiBytes)
  <2>1. /\ n = 1 /\ len < B /\ Fits(m, AxiBytes, left - vrfPnt) /\ B \in 1 .. LenWrap
        /\ Multiple(vrfPnt, AxiBytes)
    BY <1>2, <1>4, <1>9 DEF AtBeat, Carry
  <2>3. ValidBytes = vb
    BY <1>2, <1>3, <1>9 DEF ValidBytes, top, W, Lesser
  <2>4. Multiple(W, AxiBytes)
    <3>1. W % AxiBytes = 0
      BY WidthsAssumption DEF W
    <3>2. (W \div AxiBytes) \in Nat /\ W = (W \div AxiBytes) * AxiBytes
      BY <1>1, <3>1, DivisorMultiple
    <3>3. QED
      BY <3>2 DEF Multiple
  <2>5. /\ vb \in Nat \ {0} /\ vrfPnt + vb <= top
        /\ vrfPnt + vb # top => /\ vb = AxiBytes /\ Multiple(vrfPnt + vb, AxiBytes)
                                /\ m - 1 \in Nat \ {0}
                                /\ Fits(m - 1, AxiBytes, left - (vrfPnt + vb))
        /\ vrfPnt + vb = top /\ left <= W => m = 1
        /\ vrfPnt + vb = top /\ left > W => m - 1 \in Nat \ {0} /\ Fits(m - 1, AxiBytes, left - W)
    <3>1. UnitBeatLeaves(left, W, AxiBytes, vrfPnt, m)
      <4>1. left \in Nat \ {0} /\ W \in Nat \ {0} /\ AxiBytes \in Nat \ {0} /\ vrfPnt \in Nat
        BY <1>1, <1>3
      <4>2. vrfPnt < left /\ vrfPnt < W /\ Fits(m, AxiBytes, left - vrfPnt)
        BY <1>3, <2>1
      <4> HIDE DEF m
      <4>3. QED
        BY <2>1, <2>4, <4>1, <4>2, UnitBeat
    <3>2. QED
      BY <3>1 DEF UnitBeatLeaves, top
  <2> HIDE DEF vb, m, B
  <2>6. /\ v2 = vrfPnt + vb /\ v2 \in Nat /\ v2 <= top /\ (WordDone <=> v2 = top)
        /\ ValidBytes \in Nat \ {0}
    BY <1>3, <1>7, <2>3, <2>5 DEF v2
  <2>7. len + 1 <= LenWrap /\ (LastBeat <=> (len + 1 = B))
    BY <1>1, <1>3, <1>8, <2>1 DEF B
  <2>8. m = 1 => LastBeat
    BY <1>3, <2>1, <2>7 DEF m
  <2>9. ASSUME m - 1 \in Nat \ {0}
        PROVE  /\ ~LastBeat /\ len2 = len + 1 /\ n2 = 1 /\ len + 1 < B /\ B - (len + 1) = m - 1
    <3>1. len + 1 < B /\ B - (len + 1) = m - 1
      BY <1>3, <2>1, <2>9 DEF m
    <3>2. ~LastBeat /\ len + 1 < LenWrap
      BY <1>1, <1>3, <2>1, <2>7, <3>1
    <3>3. (len + 1) % LenWrap = len + 1
      BY <1>8, <2>7, <3>2
    <3>4. QED
      BY <2>1, <3>1, <3>2, <3>3
  <2> HIDE DEF len2, n2
  <2>10. ASSUME ~WordDone PROVE AtBeat(s, left, v2, len2) /\ Carry(n2, s, left - v2)
    <3>1. /\ v2 < top /\ Multiple(v2, AxiBytes) /\ m - 1 \in Nat \ {0}
          /\ Fits(m - 1, AxiBytes, left - v2)
      BY <1>6, <2>5, <2>6, <2>10
    <3>2. len2 = len + 1 /\ n2 = 1 /\ len2 < B /\ B - len2 = m - 1
      BY <2>9, <3>1
    <3>3. v2 < left /\ v2 < WordBytes /\ left \in Nat \ {0} /\ len2 \in Nat
      BY <1>1, <1>3, <1>6, <2>6, <3>1, <3>2 DEF W
    <3>4. AtBeat(s, left, v2, len2)
      BY <1>9, <2>6, <3>1, <3>2, <3>3 DEF AtBeat, B
    <3>5. QED
      BY <1>9, <3>2, <3>4 DEF Carry
  <2>11. ASSUME WordDone, left > W
         PROVE  AtBeat(s, left - W, 0, len2) /\ Carry(n2, s, left - W)
    <3>1. m - 1 \in Nat \ {0} /\ Fits(m - 1, AxiBytes, left - W)
      BY <2>5, <2>6, <2>11
    <3>2. len2 = len + 1 /\ n2 = 1 /\ len2 < B /\ B - len2 = m - 1
      BY <2>9, <3>1
    <3>3. /\ left - W \in Nat \ {0} /\ 0 < left - W /\ 0 < WordBytes /\ len2 \in Nat
          /\ left - W - 0 = left - W /\ Multiple(0, AxiBytes)
      BY <1>1, <1>3, <2>11, <3>2 DEF W, Multiple
    <3>4. AtBeat(s, left - W, 0, len2)
      BY <1>9, <3>1, <3>2, <3>3 DEF AtBeat, B
    <3>5. QED
      BY <1>9, <3>2, <3>4 DEF Carry
  <2>12. ASSUME WordDone, left <= W PROVE LastBeat /\ n = 1
    BY <2>1, <2>5, <2>6, <2>8, <2>12
  <2>13. QED
    BY <2>1, <2>6, <2>10, <2>11, <2>12 DEF s, W, v2, top, len2, n2
<1>10. CASE s.elem # 0
  <2> DEFINE e == s.elem
  <2>1. /\ len = 0 /\ n \in Nat /\ n * e = left - vrfPnt /\ BeatsIn(s) = 1 /\ e \in Nat \ {0}
        /\ Multiple(vrfPnt, e) /\ Multiple(left, e) /\ Multiple(W, e)
    BY <1>2, <1>4, <1>10 DEF AtBeat, Carry, BeatsIn
  <2> HIDE DEF e
  <2>3. ValidBytes = e
    BY <1>2, <1>10 DEF ValidBytes, e
  <2>4. /\ vrfPnt + e <= Lesser(left, W) /\ Multiple(vrfPnt + e, e)
        /\ n - 1 \in Nat /\ (n - 1) * e = left - (vrfPnt + e)
        /\ vrfPnt + e = Lesser(left, W) /\ left <= W => n = 1
        /\ left > W => Multiple(left - W, e)
    <3>1. ElementBeatLeaves(left, W, e, vrfPnt, n)
      BY <1>1, <1>3, <2>1, ElementBeat
    <3>2. QED
      BY <3>1 DEF ElementBeatLeaves
  <2>5. /\ v2 = vrfPnt + e /\ v2 \in Nat /\ v2 <= top /\ (WordDone <=> v2 = top)
        /\ ValidBytes \in Nat \ {0}
    BY <1>3, <1>7, <2>1, <2>3, <2>4 DEF v2, top
  <2>6. LastBeat /\ len2 = 0 /\ n2 = n - 1
    BY <1>1, <1>8, <2>1
  <2> HIDE DEF len2, n2
  <2>7. ASSUME ~WordDone PROVE AtBeat(s, left, v2, len2) /\ Carry(n2, s, left - v2)
    <3>1. v2 < top /\ Multiple(v2, e) /\ (n - 1) * e = left - v2
      BY <1>6, <2>4, <2>5, <2>7
    <3>2. v2 < left /\ v2 < WordBytes /\ left \in Nat \ {0}
      BY <1>1, <1>3, <1>6, <2>5, <3>1 DEF W
    <3>3. AtBeat(s, left, v2, len2)
      BY <1>10, <2>1, <2>5, <2>6, <3>1, <3>2 DEF AtBeat, e
    <3>4. Carry(n2, s, left - v2)
      BY <1>10, <2>4, <2>6, <3>1 DEF Carry, e
    <3>5. QED
      BY <3>3, <3>4
  <2>8. ASSUME WordDone, left > W
        PROVE  AtBeat(s, left - W, 0, len2) /\ Carry(n2, s, left - W)
    <3>1. v2 = W /\ (n - 1) * e = left - W /\ Multiple(left - W, e)
      BY <1>6, <2>4, <2>5, <2>8
    <3>2. /\ left - W \in Nat \ {0} /\ 0 < left - W /\ 0 < WordBytes /\ Multiple(0, e)
      BY <1>1, <1>3, <2>1, <2>8 DEF W, Multiple
    <3>3. AtBeat(s, left - W, 0, len2)
      BY <1>10, <2>6, <3>1, <3>2 DEF AtBeat, e
    <3>4. Carry(n2, s, left - W)
      BY <1>10, <2>4, <2>6, <3>1 DEF Carry, e
    <3>5. QED
      BY <3>3, <3>4
  <2>9. ASSUME WordDone, left <= W PROVE LastBeat /\ n = 1
    BY <2>4, <2>5, <2>6, <2>9 DEF top
  <2>10. n \in Nat \ {0}
    BY <2>1, <2>4
  <2>11. QED
    BY <2>5, <2>7, <2>8, <2>9, <2>10 DEF s, W, v2, top, len2, n2
<1>11. QED
  BY <1>9, <1>10

\* The sequences, with their parts in hand.
WordParts(f) ==
  /\ Parted(words, f, WordOwner, issueCnt)
  /\ \A k \in 0 .. issueCnt - 1 : Fits(f[k + 1] - f[k], WordBytes, BytesLeft(k))
BurstParts(f) ==
  /\ Parted(bursts, f, BurstOwner, issueCnt)
  /\ \A k \in 0 .. issueCnt - 1 : Carry(f[k + 1] - f[k], Store(k), ToSend(k))

LEMMA PartsOfWords ==
  ASSUME StoreInv, issueCnt # 0
  PROVE  \E f : /\ WordParts(f) /\ f \in [0 .. issueCnt -> Nat] /\ f[0] = 0
                /\ Fits(f[1], WordBytes, left) /\ f[1] \in Nat \ {0}
<1>1. /\ WordsInOrder /\ WordBytes \in Nat \ {0}
  BY SizesAssumption DEF StoreInv
<1>2. issueCnt \in Nat \ {0} /\ left \in Nat \ {0}
  BY HeadStore DEF AtBeat
<1>3. PICK f : WordParts(f)
  BY <1>1 DEF WordsInOrder, WordParts
<1>4. f \in [0 .. issueCnt -> Nat] /\ f[0] = 0
  BY <1>3 DEF WordParts, Parted
<1>5. 0 \in 0 .. issueCnt - 1 /\ 0 + 1 = 1 /\ 1 \in 0 .. issueCnt
  BY <1>2
<1>6. f[1] \in Nat /\ f[1] - f[0] = f[1]
  BY <1>4, <1>5
<1>7. Fits(f[1], WordBytes, left)
  BY <1>3, <1>5, <1>6 DEF WordParts, BytesLeft
<1>8. left <= f[1] * WordBytes
  BY <1>7 DEF Fits
<1>9. f[1] # 0
  BY <1>1, <1>2, <1>8
<1>10. QED
  BY <1>3, <1>4, <1>6, <1>7, <1>9

LEMMA PartsOfBursts ==
  ASSUME StoreInv, issueCnt # 0
  PROVE  \E f : /\ BurstParts(f) /\ f \in [0 .. issueCnt -> Nat] /\ f[0] = 0
                /\ Carry(f[1], Store(0), left - vrfPnt) /\ f[1] \in Nat \ {0}
<1>1. BurstsInOrder
  BY DEF StoreInv
<1>2. issueCnt \in Nat \ {0}
  BY HeadStore
<1>3. PICK f : BurstParts(f)
  BY <1>1 DEF BurstsInOrder, BurstParts
<1>4. f \in [0 .. issueCnt -> Nat] /\ f[0] = 0
  BY <1>3 DEF BurstParts, Parted
<1>5. 0 \in 0 .. issueCnt - 1 /\ 0 + 1 = 1 /\ 1 \in 0 .. issueCnt
  BY <1>2
<1>6. f[1] \in Nat /\ f[1] - f[0] = f[1]
  BY <1>4, <1>5
<1>7. Carry(f[1], Store(0), left - vrfPnt)
  BY <1>3, <1>5, <1>6 DEF BurstParts, ToSend
<1>8. f[1] \in Nat \ {0}
  BY <1>7, BeatFacts
<1>9. QED
  BY <1>3, <1>4, <1>7, <1>8

LEMMA WriteBeatKeeps ==
  ASSUME StoreInv, WriteBeat
  PROVE  StoreInv'
<1> DEFINE v2 == vrfPnt + ValidBytes
           len2 == IF LastBeat THEN 0 ELSE (len + 1) % LenWrap
<1>1. /\ TypeOK /\ RingPointers /\ StoresHeld
      /\ WordBytes \in Nat \ {0} /\ LenWrap \in Nat \ {0, 1}
  BY SizesAssumption DEF StoreInv
<1>2. /\ issueCnt # 0 /\ ~(WordDone /\ LeftAfterWord = 0)
      /\ vrfPnt' = (IF WordDone THEN 0 ELSE v2)
      /\ left' = (IF WordDone THEN LeftAfterWord ELSE left)
      /\ words' = (IF WordDone THEN Tail(words) ELSE words)
      /\ len' = len2
      /\ bursts' = (IF LastBeat THEN Tail(bursts) ELSE bursts)
      /\ UNCHANGED <<vinsn, acceptPnt, issuePnt, commitPnt, issueCnt, commitCnt, answers, last>>
  BY DEF WriteBeat, CanWrite, queueVars
<1>3. issueCnt \in Nat \ {0} /\ left \in Nat \ {0} /\ len \in Nat
  BY <1>2, HeadStore DEF AtBeat
<1>4. WordDone => left > WordBytes /\ LeftAfterWord = left - WordBytes
  BY <1>1, <1>2, <1>3 DEF LeftAfterWord
<1>5. words # <<>> /\ bursts # <<>>
  BY <1>2, HeadsOwn
<1>6. PICK fb : /\ BurstParts(fb) /\ fb \in [0 .. issueCnt -> Nat] /\ fb[0] = 0
                /\ Carry(fb[1], Store(0), left - vrfPnt) /\ fb[1] \in Nat \ {0}
  BY <1>2, PartsOfBursts
<1>7. PICK fw : /\ WordParts(fw) /\ fw \in [0 .. issueCnt -> Nat] /\ fw[0] = 0
                /\ Fits(fw[1], WordBytes, left) /\ fw[1] \in Nat \ {0}
  BY <1>2, PartsOfWords
<1> DEFINE n == fb[1]
           n2 == IF LastBeat THEN n - 1 ELSE n
<1>8. /\ ValidBytes \in Nat \ {0} /\ v2 \in Nat
      /\ ~WordDone => AtBeat(Store(0), left, v2, len2) /\ Carry(n2, Store(0), left - v2)
      /\ WordDone => /\ AtBeat(Store(0), left - WordBytes, 0, len2)
                     /\ Carry(n2, Store(0), left - WordBytes)
  BY <1>2, <1>4, <1>6, BeatFacts
<1> HIDE DEF v2, len2, n, n2
<1>9. AtBeat(Store(0), left', vrfPnt', len') /\ Carry(n2, Store(0), left' - vrfPnt')
  <2>1. CASE WordDone
    <3>1. left' = left - WordBytes /\ vrfPnt' = 0 /\ len' = len2
      BY <1>2, <1>4, <2>1
    <3>2. left - WordBytes - 0 = left - WordBytes
      BY <1>1, <1>3
    <3>3. QED
      BY <1>8, <2>1, <3>1, <3>2
  <2>2. CASE ~WordDone
    BY <1>2, <1>8, <2>2
  <2>3. QED
    BY <2>1, <2>2
<1>10. /\ \A k : Store(k)' = Store(k)
       /\ \A k : k # 0 => BytesLeft(k)' = BytesLeft(k) /\ ToSend(k)' = ToSend(k)
       /\ WordOwner' = WordOwner /\ BurstOwner' = BurstOwner
  <2>1. \A k : Store(k)' = Store(k)
    BY <1>2 DEF Store
  <2>2. \A k : k # 0 => BytesLeft(k)' = BytesLeft(k) /\ ToSend(k)' = ToSend(k)
    BY <2>1 DEF BytesLeft, ToSend
  <2>3. WordOwner' = WordOwner
    BY <1>2, <2>1 DEF WordOwner
  <2>4. BurstOwner' = BurstOwner
    BY <1>2, <2>1 DEF BurstOwner
  <2>5. QED
    BY <2>1, <2>2, <2>3, <2>4
<1>11. TypeOK'
  <2>1. words' \in Seq(1 .. Numbers)
    <3>1. words \in Seq(1 .. Numbers)
      BY <1>1 DEF TypeOK
    <3>2. Tail(words) \in Seq(1 .. Numbers)
      BY <1>5, <3>1, HeadTailProperties
    <3>3. QED
      BY <1>2, <3>1, <3>2
  <2>2. bursts' \in Seq(BurstType)
    <3>1. bursts \in Seq(BurstType)
      BY <1>1 DEF TypeOK
    <3>2. Tail(bursts) \in Seq(BurstType)
      BY <1>5, <3>1, HeadTailProperties
    <3>3. QED
      BY <1>2, <3>1, <3>2
  <2>3. left' \in Nat /\ vrfPnt' \in 0 .. WordBytes - 1
    BY <1>1, <1>9 DEF AtBeat
  <2>4. len' \in 0 .. LenWrap - 1
    <3>1. (len + 1) % LenWrap \in 0 .. LenWrap - 1
      BY <1>1, <1>3, DivModParts
    <3>2. QED
      BY <1>1, <1>2, <3>1 DEF len2
  <2>5. QED
    BY <1>1, <1>2, <2>1, <2>2, <2>3, <2>4 DEF TypeOK
<1>12. RingPointers' /\ StoresHeld'
  BY <1>1, <1>2, <1>10 DEF RingPointers, StoresHeld
<1>13. HeadAtBeat'
  <2>1. Store(0)' = Store(0)
    BY <1>10
  <2>2. issueCnt' # 0
    BY <1>2
  <2>3. QED
    BY <1>9, <2>1, <2>2 DEF HeadAtBeat
<1>14. WordsInOrder'
  <2>1. CASE WordDone
    <3> DEFINE S == 1 .. Numbers
               owner == WordOwner
    <3>0. fw[1] > 0
      BY <1>7
    <3>1. words \in Seq(S) /\ Parted(words, fw, owner, issueCnt) /\ fw[1] > 0
      BY <1>1, <1>7, <3>0 DEF TypeOK, WordParts
    <3> HIDE DEF S, owner
    <3>2. \E g : /\ Parted(Tail(words), g, owner, issueCnt)
                 /\ \A k \in 1 .. issueCnt : g[k] = fw[k] - 1
      BY <1>3, <3>1, PartedTail
    <3>3. PICK g : /\ Parted(Tail(words), g, owner, issueCnt)
                   /\ \A k \in 1 .. issueCnt : g[k] = fw[k] - 1
      BY <3>2
    <3>4. g[0] = 0
      BY <3>3 DEF Parted
    <3>5. Parted(words', g, WordOwner', issueCnt')
      BY <1>2, <1>10, <2>1, <3>3 DEF owner
    <3>6. ASSUME NEW k \in 0 .. issueCnt' - 1
          PROVE  Fits(g[k + 1] - g[k], WordBytes, BytesLeft(k)')
      <4>1. CASE k = 0
        <5>1. fw[1] - 1 \in Nat \ {0} /\ Fits(fw[1] - 1, WordBytes, left - WordBytes)
          BY <1>1, <1>3, <1>4, <1>7, <2>1, FitsLess
        <5>2. 1 \in 1 .. issueCnt /\ 0 + 1 = 1
          BY <1>3
        <5>3. g[k + 1] - g[k] = fw[1] - 1
          BY <3>3, <3>4, <4>1, <5>1, <5>2
        <5>4. BytesLeft(k)' = left - WordBytes
          BY <1>2, <1>4, <2>1, <4>1 DEF BytesLeft
        <5>5. QED
          BY <5>1, <5>3, <5>4
      <4>2. CASE k # 0
        <5>1. /\ k \in 1 .. issueCnt /\ k + 1 \in 1 .. issueCnt /\ k \in 0 .. issueCnt - 1
              /\ k \in 0 .. issueCnt /\ k + 1 \in 0 .. issueCnt
          BY <1>2, <1>3, <4>2
        <5>2. fw[k] \in Nat /\ fw[k + 1] \in Nat
          BY <1>7, <5>1
        <5>3. g[k + 1] - g[k] = fw[k + 1] - fw[k]
          BY <3>3, <5>1, <5>2
        <5>4. Fits(fw[k + 1] - fw[k], WordBytes, BytesLeft(k))
          BY <1>7, <5>1 DEF WordParts
        <5>5. QED
          BY <1>10, <4>2, <5>3, <5>4
      <4>3. QED
        BY <4>1, <4>2
    <3>7. QED
      BY <3>5, <3>6 DEF WordsInOrder
  <2>2. CASE ~WordDone
    <3>1. words' = words /\ left' = left
      BY <1>2, <2>2
    <3>2. \A k : BytesLeft(k)' = BytesLeft(k)
      BY <1>10, <3>1 DEF BytesLeft
    <3>3. Parted(words', fw, WordOwner', issueCnt')
      BY <1>2, <1>7, <1>10, <3>1 DEF WordParts
    <3>4. \A k \in 0 .. issueCnt' - 1 : Fits(fw[k + 1] - fw[k], WordBytes, BytesLeft(k)')
      BY <1>2, <1>7, <3>2 DEF WordParts
    <3>5. QED
      BY <3>3, <3>4 DEF WordsInOrder
  <2>3. QED
    BY <2>1, <2>2
<1>15. BurstsInOrder'
  <2>1. CASE LastBeat
    <3> DEFINE owner == BurstOwner
    <3>1. bursts \in Seq(BurstType) /\ Parted(bursts, fb, owner, issueCnt) /\ fb[1] > 0
      BY <1>1, <1>6 DEF TypeOK, BurstParts
    <3> HIDE DEF owner
    <3>2. \E g : /\ Parted(Tail(bursts), g, owner, issueCnt)
                 /\ \A k \in 1 .. issueCnt : g[k] = fb[k] - 1
      BY <1>3, <3>1, PartedTail
    <3>3. PICK g : /\ Parted(Tail(bursts), g, owner, issueCnt)
                   /\ \A k \in 1 .. issueCnt : g[k] = fb[k] - 1
      BY <3>2
    <3>4. g[0] = 0
      BY <3>3 DEF Parted
    <3>5. Parted(bursts', g, BurstOwner', issueCnt')
      BY <1>2, <1>10, <2>1, <3>3 DEF owner
    <3>6. ASSUME NEW k \in 0 .. issueCnt' - 1
          PROVE  Carry(g[k + 1] - g[k], Store(k)', ToSend(k)')
      <4>1. CASE k = 0
        <5>1. n2 = fb[1] - 1
          BY <2>1 DEF n2, n
        <5>2. 1 \in 1 .. issueCnt /\ 0 + 1 = 1 /\ fb[1] - 1 \in Nat
          BY <1>3, <1>6
        <5>3. g[k + 1] - g[k] = fb[1] - 1
          BY <3>3, <3>4, <4>1, <5>2
        <5>4. ToSend(k)' = left' - vrfPnt' /\ Store(k)' = Store(0)
          BY <1>10, <4>1 DEF ToSend
        <5>5. QED
          BY <1>9, <5>1, <5>3, <5>4
      <4>2. CASE k # 0
        <5>1. /\ k \in 1 .. issueCnt /\ k + 1 \in 1 .. issueCnt /\ k \in 0 .. issueCnt - 1
              /\ k \in 0 .. issueCnt /\ k + 1 \in 0 .. issueCnt
          BY <1>2, <1>3, <4>2
        <5>2. fb[k] \in Nat /\ fb[k + 1] \in Nat
          BY <1>6, <5>1
        <5>3. g[k + 1] - g[k] = fb[k + 1] - fb[k]
          BY <3>3, <5>1, <5>2
        <5>4. Carry(fb[k + 1] - fb[k], Store(k), ToSend(k))
          BY <1>6, <5>1 DEF BurstParts
        <5>5. QED
          BY <1>10, <4>2, <5>3, <5>4
      <4>3. QED
        BY <4>1, <4>2
    <3>7. QED
      BY <3>5, <3>6 DEF BurstsInOrder
  <2>2. CASE ~LastBeat
    <3>1. bursts' = bursts /\ n2 = fb[1]
      BY <1>2, <2>2 DEF n2, n
    <3>2. Parted(bursts', fb, BurstOwner', issueCnt')
      BY <1>2, <1>6, <1>10, <3>1 DEF BurstParts
    <3>3. ASSUME NEW k \in 0 .. issueCnt' - 1
          PROVE  Carry(fb[k + 1] - fb[k], Store(k)', ToSend(k)')
      <4>1. CASE k = 0
        <5>1. fb[k + 1] - fb[k] = fb[1]
          BY <1>6, <4>1
        <5>2. ToSend(k)' = left' - vrfPnt' /\ Store(k)' = Store(0)
          BY <1>10, <4>1 DEF ToSend
        <5>3. QED
          BY <1>9, <3>1, <5>1, <5>2
      <4>2. CASE k # 0
        <5>1. k \in 0 .. issueCnt - 1
          BY <1>2
        <5>2. Carry(fb[k + 1] - fb[k], Store(k), ToSend(k))
          BY <1>6, <5>1 DEF BurstParts
        <5>3. QED
          BY <1>10, <4>2, <5>2
      <4>3. QED
        BY <4>1, <4>2
    <3>4. QED
      BY <3>2, <3>3 DEF BurstsInOrder
  <2>3. QED
    BY <2>1, <2>2
<1>16. QED
  BY <1>11, <1>12, <1>13, <1>14, <1>15 DEF StoreInv

LEMMA WriteLastBeatKeeps ==
  ASSUME StoreInv, WriteLastBeat
  PROVE  /\ StoreInv'
         /\ LastBeat
         /\ \A k \in 0 .. issueCnt - 2 : Store(k)' = Store(k + 1)
<1>1. /\ TypeOK /\ RingPointers /\ StoresHeld /\ HeadAtBeat
      /\ Depth \in Nat \ {0, 1} /\ WordBytes \in Nat \ {0} /\ LenWrap \in Nat \ {0, 1}
  BY SizesAssumption DEF StoreInv
<1>2. /\ issueCnt # 0 /\ WordDone /\ LeftAfterWord = 0
      /\ vrfPnt' = 0 /\ words' = Tail(words)
      /\ len' = (IF LastBeat THEN 0 ELSE (len + 1) % LenWrap)
      /\ bursts' = (IF LastBeat THEN Tail(bursts) ELSE bursts)
      /\ issueCnt' = issueCnt - 1
      /\ issuePnt' = (issuePnt + 1) % Depth
      /\ left' = NextLeft
      /\ UNCHANGED <<vinsn, acceptPnt, commitPnt, commitCnt, answers, last>>
  BY DEF WriteLastBeat, CanWrite
<1>3. /\ issueCnt \in 1 .. Depth /\ left \in Nat \ {0}
      /\ commitCnt \in 0 .. Depth /\ issueCnt \in 0 .. commitCnt /\ issuePnt \in Slots
      /\ commitPnt \in Slots
  <2>1. issueCnt \in Nat \ {0} /\ left \in Nat \ {0}
    BY <1>2, HeadStore DEF AtBeat
  <2>2. QED
    BY <1>1, <2>1 DEF TypeOK
<1>4. left <= WordBytes
  BY <1>1, <1>2, <1>3 DEF LeftAfterWord
<1>5. words # <<>> /\ bursts # <<>>
  BY <1>2, HeadsOwn
<1>6. PICK fb : /\ BurstParts(fb) /\ fb \in [0 .. issueCnt -> Nat] /\ fb[0] = 0
                /\ Carry(fb[1], Store(0), left - vrfPnt) /\ fb[1] \in Nat \ {0}
  BY <1>2, PartsOfBursts
<1>7. PICK fw : /\ WordParts(fw) /\ fw \in [0 .. issueCnt -> Nat] /\ fw[0] = 0
                /\ Fits(fw[1], WordBytes, left) /\ fw[1] \in Nat \ {0}
  BY <1>2, PartsOfWords
<1>8. LastBeat /\ fb[1] = 1
  BY <1>2, <1>4, <1>6, BeatFacts
<1>9. fw[1] = 1
  BY <1>1, <1>3, <1>4, <1>7, FitsLess
<1>10. len' = 0 /\ bursts' = Tail(bursts)
  BY <1>2, <1>8
<1>11. ASSUME NEW k \in 0 .. issueCnt - 2 PROVE Store(k)' = Store(k + 1)
  <2>1. k + 1 \in 1 .. Depth /\ (k + 1) - 1 = k
    BY <1>1, <1>3
  <2>2. (((issuePnt + 1) % Depth) + ((k + 1) - 1)) % Depth = (issuePnt + (k + 1)) % Depth
    BY <1>3, <2>1, WrapShift
  <2>3. (((issuePnt + 1) % Depth) + k) % Depth = (issuePnt + (k + 1)) % Depth
    BY <2>1, <2>2
  <2>4. (issuePnt' + k) % Depth = (issuePnt + (k + 1)) % Depth
    BY <1>2, <2>3
  <2>5. QED
    BY <1>2, <2>4 DEF Store
<1>12. ASSUME NEW k \in 0 .. issueCnt - 2
       PROVE  /\ k + 1 \in 0 .. issueCnt - 1 /\ k + 1 # 0
              /\ BytesLeft(k)' = BytesLeft(k + 1) /\ ToSend(k)' = ToSend(k + 1)
  <2>1. k + 1 \in 0 .. issueCnt - 1 /\ k + 1 # 0
    BY <1>3
  <2>2. Store(k)' = Store(k + 1)
    BY <1>11
  <2>3. IsStore(Store(k + 1))
    BY <1>1, <2>1 DEF StoresHeld
  <2>4. Store(k + 1).bytes \in Nat
    BY <2>3, StoreFacts
  <2>5. k = 0 => left' = Store(k + 1).bytes /\ left' - vrfPnt' = Store(k + 1).bytes
    <3>1. k = 0 => issueCnt > 1 /\ k + 1 = 1
      BY <1>3
    <3>2. k = 0 => left' = Store(1).bytes
      BY <1>2, <3>1 DEF NextLeft, Store
    <3>3. QED
      BY <1>2, <2>4, <3>1, <3>2
  <2>6. BytesLeft(k)' = Store(k + 1).bytes /\ ToSend(k)' = Store(k + 1).bytes
    BY <2>2, <2>5 DEF BytesLeft, ToSend
  <2>7. BytesLeft(k + 1) = Store(k + 1).bytes /\ ToSend(k + 1) = Store(k + 1).bytes
    BY <2>1 DEF BytesLeft, ToSend
  <2>8. QED
    BY <2>1, <2>6, <2>7
<1>13. TypeOK'
  <2>1. words' \in Seq(1 .. Numbers)
    <3>1. words \in Seq(1 .. Numbers)
      BY <1>1 DEF TypeOK
    <3>2. Tail(words) \in Seq(1 .. Numbers)
      BY <1>5, <3>1, HeadTailProperties
    <3>3. QED
      BY <1>2, <3>2
  <2>2. bursts' \in Seq(BurstType)
    <3>1. bursts \in Seq(BurstType)
      BY <1>1 DEF TypeOK
    <3>2. QED
      BY <1>5, <1>10, <3>1, HeadTailProperties
  <2>3. issuePnt' \in Slots
    <3>1. issuePnt + 1 \in Nat
      BY <1>1, <1>3 DEF Slots
    <3>2. (issuePnt + 1) % Depth \in 0 .. Depth - 1
      BY <1>1, <3>1, DivModParts
    <3>3. QED
      BY <1>2, <3>2 DEF Slots
  <2>4. left' \in Nat
    <3>1. vinsn[(issuePnt + 1) % Depth].bytes \in Nat
      <4>1. (issuePnt + 1) % Depth \in Slots
        BY <1>2, <2>3
      <4>2. QED
        BY <1>1, <4>1 DEF TypeOK
    <3>2. QED
      BY <1>2, <3>1 DEF NextLeft
  <2>5. issueCnt' \in 0 .. commitCnt'
    BY <1>2, <1>3
  <2>6. vrfPnt' \in 0 .. WordBytes - 1 /\ len' \in 0 .. LenWrap - 1
    BY <1>1, <1>2, <1>10
  <2>7. QED
    BY <1>1, <1>2, <2>1, <2>2, <2>3, <2>4, <2>5, <2>6 DEF TypeOK
<1>14. RingPointers'
  <2> DEFINE d == commitCnt - issueCnt
  <2>1. /\ issuePnt = (commitPnt + d) % Depth /\ acceptPnt = (issuePnt + issueCnt) % Depth
        /\ d \in 0 .. Depth - 1 /\ commitCnt' - issueCnt' = d + 1
    BY <1>1, <1>2, <1>3 DEF RingPointers
  <2> HIDE DEF d
  <2>2. commitPnt + d \in 0 .. 2 * Depth - 2 /\ (commitPnt + d) + 1 = commitPnt + (d + 1)
    BY <1>1, <1>3, <2>1 DEF Slots
  <2>3. (((commitPnt + d) % Depth) + 1) % Depth = (commitPnt + (d + 1)) % Depth
    BY <2>2, WrapPlus
  <2>4. issuePnt' = (commitPnt' + (commitCnt' - issueCnt')) % Depth
    BY <1>2, <2>1, <2>3
  <2>5. (((issuePnt + 1) % Depth) + (issueCnt - 1)) % Depth = (issuePnt + issueCnt) % Depth
    BY <1>3, WrapShift
  <2>6. acceptPnt' = (issuePnt' + issueCnt') % Depth
    BY <1>2, <2>1, <2>5
  <2>7. QED
    BY <2>4, <2>6 DEF RingPointers
<1>15. StoresHeld'
  <2>1. ASSUME NEW k \in 0 .. issueCnt' - 1 PROVE IsStore(Store(k)')
    <3>1. k \in 0 .. issueCnt - 2
      BY <1>2, <1>3
    <3>2. Store(k)' = Store(k + 1) /\ k + 1 \in 0 .. issueCnt - 1
      BY <1>11, <1>12, <3>1
    <3>3. QED
      BY <1>1, <3>2 DEF StoresHeld
  <2>2. QED
    BY <2>1 DEF StoresHeld
<1>16. HeadAtBeat'
  <2>1. CASE issueCnt = 1
    BY <1>2, <1>10, <2>1 DEF HeadAtBeat, NextLeft
  <2>2. CASE issueCnt # 1
    <3>1. 0 \in 0 .. issueCnt - 2 /\ 0 + 1 = 1 /\ 1 \in 0 .. issueCnt - 1 /\ issueCnt > 1
      BY <1>3, <2>2
    <3>2. Store(0)' = Store(1)
      BY <1>11, <3>1
    <3>3. AtBeat(Store(1), Store(1).bytes, 0, 0)
      BY <1>1, <3>1, StoreFacts DEF StoresHeld
    <3>4. left' = Store(1).bytes
      BY <1>2, <3>1 DEF NextLeft, Store
    <3>5. AtBeat(Store(0)', left', vrfPnt', len')
      BY <1>2, <1>10, <3>2, <3>3, <3>4
    <3>6. issueCnt' # 0
      BY <1>2, <1>3, <2>2
    <3>7. QED
      BY <3>5, <3>6 DEF HeadAtBeat
  <2>3. QED
    BY <2>1, <2>2
<1>17. WordsInOrder'
  <2> DEFINE S == 1 .. Numbers
             owner == WordOwner
             new == WordOwner'
  <2>1. words \in Seq(S)
    BY <1>1 DEF TypeOK
  <2>2. Parted(words, fw, owner, issueCnt) /\ issueCnt \in Nat \ {0}
    BY <1>3, <1>7 DEF WordParts
  <2>3. \A k \in 0 .. issueCnt - 2 : new[k] = owner[k + 1]
    <3>1. 0 .. issueCnt' - 1 = 0 .. issueCnt - 2
      BY <1>2, <1>3
    <3>2. new = [k \in 0 .. issueCnt - 2 |-> (Store(k)').n]
      BY <3>1 DEF WordOwner
    <3>3. QED
      BY <1>11, <1>12, <3>2 DEF WordOwner
  <2> HIDE DEF S, owner, new
  <2>4. \E g : /\ Parted(Tail(words), g, new, issueCnt - 1)
               /\ \A k \in 0 .. issueCnt - 1 : g[k] = fw[k + 1] - 1
    BY <1>9, <2>1, <2>2, <2>3, PartedDrop
  <2>5. PICK g : /\ Parted(Tail(words), g, new, issueCnt - 1)
                 /\ \A k \in 0 .. issueCnt - 1 : g[k] = fw[k + 1] - 1
    BY <2>4
  <2>6. Parted(words', g, WordOwner', issueCnt')
    BY <1>2, <2>5 DEF new
  <2>7. ASSUME NEW k \in 0 .. issueCnt' - 1
        PROVE  Fits(g[k + 1] - g[k], WordBytes, BytesLeft(k)')
    <3>1. /\ k \in 0 .. issueCnt - 2 /\ k \in 0 .. issueCnt - 1 /\ k + 1 \in 0 .. issueCnt - 1
          /\ k + 1 \in 0 .. issueCnt /\ (k + 1) + 1 \in 0 .. issueCnt
      BY <1>2, <1>3
    <3>2. fw[k + 1] \in Nat /\ fw[(k + 1) + 1] \in Nat
      BY <1>7, <3>1
    <3>3. g[k] = fw[k + 1] - 1 /\ g[k + 1] = fw[(k + 1) + 1] - 1
      BY <2>5, <3>1
    <3>4. g[k + 1] - g[k] = fw[(k + 1) + 1] - fw[k + 1]
      BY <3>2, <3>3
    <3>5. Fits(fw[(k + 1) + 1] - fw[k + 1], WordBytes, BytesLeft(k + 1))
      BY <1>7, <3>1 DEF WordParts
    <3>6. BytesLeft(k)' = BytesLeft(k + 1)
      BY <1>12, <3>1
    <3>7. QED
      BY <3>4, <3>5, <3>6
  <2>8. QED
    BY <2>6, <2>7 DEF WordsInOrder
<1>18. BurstsInOrder'
  <2> DEFINE owner == BurstOwner
             new == BurstOwner'
  <2>1. bursts \in Seq(BurstType)
    BY <1>1 DEF TypeOK
  <2>2. Parted(bursts, fb, owner, issueCnt) /\ issueCnt \in Nat \ {0}
    BY <1>3, <1>6 DEF BurstParts
  <2>3. \A k \in 0 .. issueCnt - 2 : new[k] = owner[k + 1]
    <3>1. 0 .. issueCnt' - 1 = 0 .. issueCnt - 2
      BY <1>2, <1>3
    <3>2. new = [k \in 0 .. issueCnt - 2 |-> [n |-> (Store(k)').n, beats |-> BeatsIn(Store(k)')]]
      BY <3>1 DEF BurstOwner
    <3>3. ASSUME NEW k \in 0 .. issueCnt - 2 PROVE new[k] = owner[k + 1]
      BY <1>11, <1>12, <3>2 DEF BurstOwner
    <3>4. QED
      BY <3>3
  <2> HIDE DEF owner, new
  <2>4. \E g : /\ Parted(Tail(bursts), g, new, issueCnt - 1)
               /\ \A k \in 0 .. issueCnt - 1 : g[k] = fb[k + 1] - 1
    BY <1>8, <2>1, <2>2, <2>3, PartedDrop
  <2>5. PICK g : /\ Parted(Tail(bursts), g, new, issueCnt - 1)
                 /\ \A k \in 0 .. issueCnt - 1 : g[k] = fb[k + 1] - 1
    BY <2>4
  <2>6. Parted(bursts', g, BurstOwner', issueCnt')
    BY <1>2, <1>10, <2>5 DEF new
  <2>7. ASSUME NEW k \in 0 .. issueCnt' - 1
        PROVE  Carry(g[k + 1] - g[k], Store(k)', ToSend(k)')
    <3>1. /\ k \in 0 .. issueCnt - 2 /\ k \in 0 .. issueCnt - 1 /\ k + 1 \in 0 .. issueCnt - 1
          /\ k + 1 \in 0 .. issueCnt /\ (k + 1) + 1 \in 0 .. issueCnt
      BY <1>2, <1>3
    <3>2. fb[k + 1] \in Nat /\ fb[(k + 1) + 1] \in Nat
      BY <1>6, <3>1
    <3>3. g[k] = fb[k + 1] - 1 /\ g[k + 1] = fb[(k + 1) + 1] - 1
      BY <2>5, <3>1
    <3>4. g[k + 1] - g[k] = fb[(k + 1) + 1] - fb[k + 1]
      BY <3>2, <3>3
    <3>5. Carry(fb[(k + 1) + 1] - fb[k + 1], Store(k + 1), ToSend(k + 1))
      BY <1>6, <3>1 DEF BurstParts
    <3>6. ToSend(k)' = ToSend(k + 1) /\ Store(k)' = Store(k + 1)
      BY <1>11, <1>12, <3>1
    <3>7. QED
      BY <3>4, <3>5, <3>6
  <2>8. QED
    BY <2>6, <2>7 DEF BurstsInOrder
<1>19. QED
  BY <1>8, <1>11, <1>13, <1>14, <1>15, <1>16, <1>17, <1>18 DEF StoreInv

-----------------------------------------------------------------------------
(***************************************************************************)
(* Types, and the bytes of every beat.                                     *)
(***************************************************************************)
LEMMA StoreStep == StoreInv /\ [Next]_vars => StoreInv'
<1>1. SUFFICES ASSUME StoreInv, [Next]_vars PROVE StoreInv'
  OBVIOUS
<1>2. CASE \E s \in Stores : Accept(s)
  BY <1>1, <1>2, AcceptKeeps
<1>3. CASE WriteBeat
  BY <1>1, <1>3, WriteBeatKeeps
<1>4. CASE WriteLastBeat
  BY <1>1, <1>4, WriteLastBeatKeeps
<1>5. CASE Commit
  BY <1>1, <1>5, CommitKeeps
<1>6. CASE DropAnswer \/ StoreElsewhere \/ UNCHANGED vars
  BY <1>1, <1>6, AnswersKeep
<1>7. QED
  BY <1>1, <1>2, <1>3, <1>4, <1>5, <1>6 DEF Next

\* Always, the ring, the words and the bursts agree.
THEOREM StoreAlways == Spec => []StoreInv
BY InitStore, StoreStep, PTL DEF Spec

\* The registers and the environment's queues keep their types: the counters stay
\* within the ring, and the byte pointer within the lanes' word (vinsn_queue_q,
\* vrf_pnt_q and len_q of vstu.sv).
THEOREM TypeCorrect == Spec => []TypeOK
<1>1. StoreInv => TypeOK
  BY DEF StoreInv
<1>2. QED
  BY <1>1, StoreAlways, PTL

\* Every beat on the W channel carries bytes of the store at the issue pointer, out
\* of a word the lanes deliver for it and into a burst announced for it.
THEOREM BeatAlwaysOwn == Spec => []BeatCarriesOwnBytes
<1>1. ASSUME StoreInv PROVE BeatCarriesOwnBytes
  <2>1. SUFFICES ASSUME CanWrite
                 PROVE  /\ Head(words) = vinsn[issuePnt].n
                        /\ Head(bursts).n = vinsn[issuePnt].n
                        /\ 0 < ValidBytes /\ vrfPnt + ValidBytes <= Lesser(left, WordBytes)
    BY DEF BeatCarriesOwnBytes
  <2>2. issueCnt # 0
    BY <2>1 DEF CanWrite
  <2>3. Store(0) = vinsn[issuePnt]
    BY <1>1, <2>2, HeadStore
  <2>4. /\ Head(words) = Store(0).n
        /\ Head(bursts) = [n |-> Store(0).n, beats |-> BeatsIn(Store(0))]
    BY <1>1, <2>2, HeadsOwn
  <2>5. PICK f : Carry(f[1], Store(0), left - vrfPnt)
    BY <1>1, <2>2, PartsOfBursts
  <2>6. ValidBytes \in Nat \ {0} /\ vrfPnt + ValidBytes <= Lesser(left, WordBytes)
    BY <1>1, <2>2, <2>5, BeatFacts
  <2>7. QED
    BY <2>3, <2>4, <2>6
<1>2. QED
  BY <1>1, StoreAlways, PTL

-----------------------------------------------------------------------------
(***************************************************************************)
(* Unit-stride stores, one answer each: with fewer unanswered stores than  *)
(* the ring has slots, the store unit implements StoreQueue.               *)
(***************************************************************************)
OneBurstEach == (\A s \in Stores : s.elem = 0) /\ ~Elsewhere /\ InFlight < Depth

\* The k-th store of the ring, from the oldest, and the number j before l.
Place(k) == vinsn[(commitPnt + k) % Depth]
Back(l, j) == IF j < l THEN l - j ELSE l + Numbers - j
Written == commitCnt - issueCnt

NumbersInOrder == \A k \in 0 .. commitCnt - 1 : Place(k).n = Back(last, commitCnt - 1 - k)
AnswersInOrder ==
  Len(answers) = commitCnt /\ \A k \in 0 .. commitCnt - 1 : answers[k + 1] = Place(k).n
OwnersInOrder ==
  Len(bursts) = issueCnt /\ \A k \in 0 .. issueCnt - 1 : bursts[k + 1].n = Store(k).n
OrderInv == NumbersInOrder /\ AnswersInOrder /\ OwnersInOrder /\ Written <= InFlight

LEMMA WrapSum ==
  ASSUME NEW i \in Slots, NEW a \in Nat, NEW b \in Nat, a + b <= Depth
  PROVE  (((i + a) % Depth) + b) % Depth = (i + (a + b)) % Depth
<1>1. Depth \in Nat \ {0, 1} /\ i \in 0 .. Depth - 1
  BY SizesAssumption DEF Slots
<1>2. i + a \in 0 .. 2 * Depth - 1 /\ i + (a + b) \in 0 .. 2 * Depth - 1
  BY <1>1
<1>3. /\ Wrap(i + a) = (IF i + a < Depth THEN i + a ELSE i + a - Depth)
      /\ Wrap(i + (a + b)) = IF i + (a + b) < Depth THEN i + (a + b) ELSE i + (a + b) - Depth
  BY <1>1, <1>2, WrapValue
<1> DEFINE c == Wrap(i + a) + b
<1>4. c \in 0 .. 2 * Depth - 1
  BY <1>1, <1>3
<1>5. Wrap(c) = IF c < Depth THEN c ELSE c - Depth
  BY <1>1, <1>4, WrapValue
<1>6. Wrap(c) = Wrap(i + (a + b))
  BY <1>1, <1>3, <1>5
<1>7. QED
  BY <1>6 DEF Wrap

\* The stores to be issued are the last ones of the ring.
LEMMA RingFacts ==
  ASSUME StoreInv
  PROVE  /\ commitCnt \in 0 .. Depth /\ issueCnt \in 0 .. commitCnt /\ Written \in 0 .. Depth
         /\ \A k \in 0 .. issueCnt - 1 : Store(k) = Place(Written + k)
         /\ acceptPnt = (commitPnt + commitCnt) % Depth
         /\ commitPnt \in Slots
<1>1. /\ TypeOK /\ RingPointers /\ Depth \in Nat \ {0, 1}
  BY SizesAssumption DEF StoreInv
<1>2. /\ commitCnt \in 0 .. Depth /\ issueCnt \in 0 .. commitCnt
      /\ commitPnt \in Slots
      /\ issuePnt = (commitPnt + (commitCnt - issueCnt)) % Depth
      /\ acceptPnt = (issuePnt + issueCnt) % Depth
  BY <1>1 DEF TypeOK, RingPointers
<1>3. Written \in 0 .. Depth /\ Written \in Nat /\ Written + issueCnt = commitCnt
  BY <1>1, <1>2 DEF Written
<1>4. issuePnt = (commitPnt + Written) % Depth
  BY <1>2 DEF Written
<1>5. ASSUME NEW k \in 0 .. issueCnt - 1 PROVE Store(k) = Place(Written + k)
  <2>1. k \in Nat /\ Written + k <= Depth
    BY <1>1, <1>2, <1>3
  <2>2. (((commitPnt + Written) % Depth) + k) % Depth = (commitPnt + (Written + k)) % Depth
    BY <1>2, <1>3, <2>1, WrapSum
  <2>3. QED
    BY <1>4, <2>2 DEF Store, Place
<1>6. acceptPnt = (commitPnt + commitCnt) % Depth
  <2>1. issueCnt \in Nat /\ Written + issueCnt <= Depth
    BY <1>1, <1>2, <1>3
  <2>2. (((commitPnt + Written) % Depth) + issueCnt) % Depth
          = (commitPnt + (Written + issueCnt)) % Depth
    BY <1>2, <1>3, <2>1, WrapSum
  <2>3. QED
    BY <1>2, <1>3, <1>4, <2>2
<1>7. QED
  BY <1>2, <1>3, <1>5, <1>6

\* The stores in the ring have numbers of their own.
LEMMA PlacesApart ==
  ASSUME StoreInv, NumbersInOrder, NEW j \in 0 .. commitCnt - 1, NEW k \in 0 .. commitCnt - 1,
         Place(j).n = Place(k).n
  PROVE  j = k
<1>1. /\ Numbers \in Nat /\ Numbers >= Depth /\ Depth \in Nat /\ last \in 0 .. Numbers
      /\ commitCnt \in 0 .. Depth
  BY SizesAssumption DEF StoreInv, TypeOK
<1> DEFINE a == commitCnt - 1 - j
           b == commitCnt - 1 - k
<1>2. a \in 0 .. Numbers - 1 /\ b \in 0 .. Numbers - 1 /\ (a = b => j = k)
  BY <1>1
<1>3. Back(last, a) = Back(last, b)
  BY DEF NumbersInOrder
<1> HIDE DEF a, b
<1>4. a = b
  BY <1>1, <1>2, <1>3 DEF Back
<1>5. QED
  BY <1>2, <1>4

\* A store of the ring is owed one answer.
LEMMA OwedOne ==
  ASSUME StoreInv, OrderInv, NEW k \in 0 .. commitCnt - 1
  PROVE  Count(answers, Place(k).n) = 1
<1>1. commitCnt \in Nat /\ NumbersInOrder
  BY RingFacts, SizesAssumption DEF OrderInv
<1>2. answers \in Seq(0 .. Numbers) /\ DOMAIN answers = 1 .. commitCnt
  BY DEF StoreInv, TypeOK, OrderInv, AnswersInOrder
<1>3. \A j \in 1 .. commitCnt : j - 1 \in 0 .. commitCnt - 1 /\ answers[j] = Place(j - 1).n
  <2>1. ASSUME NEW j \in 1 .. commitCnt
        PROVE  j - 1 \in 0 .. commitCnt - 1 /\ answers[j] = Place(j - 1).n
    <3>1. j - 1 \in 0 .. commitCnt - 1 /\ (j - 1) + 1 = j
      BY <1>1
    <3>2. answers[(j - 1) + 1] = Place(j - 1).n
      BY <3>1 DEF OrderInv, AnswersInOrder
    <3>3. QED
      BY <3>1, <3>2
  <2>2. QED
    BY <2>1
<1> DEFINE same == {j \in DOMAIN answers : answers[j] = Place(k).n}
<1>4. same = {k + 1}
  <2>1. k + 1 \in 1 .. commitCnt /\ answers[k + 1] = Place(k).n
    BY <1>1 DEF OrderInv, AnswersInOrder
  <2>2. ASSUME NEW j \in 1 .. commitCnt, answers[j] = Place(k).n PROVE j = k + 1
    <3>1. j - 1 \in 0 .. commitCnt - 1 /\ Place(j - 1).n = Place(k).n
      BY <1>3, <2>2
    <3> DEFINE i == j - 1
    <3>2. i \in 0 .. commitCnt - 1 /\ Place(i).n = Place(k).n
      BY <3>1
    <3> HIDE DEF i
    <3>3. i = k
      BY <1>1, <3>2, PlacesApart
    <3>4. QED
      BY <1>1, <3>3 DEF i
  <2>3. QED
    BY <1>2, <2>1, <2>2
<1>5. Cardinality(same) = 1
  BY <1>4, FS_Singleton
<1>6. QED
  BY <1>5 DEF Count

\* The memory takes a beat only while it has room for one store more.
LEMMA WrittenBelow ==
  ASSUME StoreInv, OrderInv, Cardinality(Unanswered) < InFlight
  PROVE  Written < InFlight
<1>1. /\ commitCnt \in 0 .. Depth /\ issueCnt \in 0 .. commitCnt /\ Written \in 0 .. Depth
      /\ \A k \in 0 .. issueCnt - 1 : Store(k) = Place(Written + k)
      /\ Depth \in Nat /\ Numbers \in Nat /\ Numbers >= Depth /\ InFlight \in Nat
      /\ last \in 0 .. Numbers /\ NumbersInOrder
  BY RingFacts, SizesAssumption DEF StoreInv, OrderInv, TypeOK
<1>2. Written + issueCnt = commitCnt
  BY <1>1 DEF Written
<1> DEFINE S == 0 .. Written - 1
           f == [k \in S |-> Place(k).n]
<1>3. IsFiniteSet(Unanswered)
  <2>1. IsFiniteSet(0 .. Numbers)
    BY <1>1, FS_Interval
  <2>2. answers \in Seq(0 .. Numbers)
    BY DEF StoreInv, TypeOK
  <2>3. Unanswered \in SUBSET (0 .. Numbers)
    <3>1. \A i \in DOMAIN answers : answers[i] \in 0 .. Numbers
      <4> DEFINE R == 0 .. Numbers
      <4>1. answers \in Seq(R)
        BY <2>2
      <4> HIDE DEF R
      <4>2. \A i \in 1 .. Len(answers) : answers[i] \in R
        BY <4>1, ElementOfSeq
      <4>3. DOMAIN answers = 1 .. Len(answers)
        BY <4>1
      <4>4. QED
        BY <4>2, <4>3 DEF R
    <3>2. QED
      BY <3>1 DEF Unanswered, ToSet
  <2>4. QED
    BY <2>1, <2>3, FS_Subset
<1>4. ASSUME NEW k \in S PROVE Place(k).n \in Unanswered
  <2>1. /\ k \in 0 .. commitCnt - 1 /\ k + 1 \in 1 .. commitCnt
        /\ commitCnt - 1 - k \in 0 .. Numbers - 1
    BY <1>1, <1>2
  <2>2. Place(k).n \in ToSet(answers)
    <3>1. k + 1 \in DOMAIN answers /\ answers[k + 1] = Place(k).n
      <4>1. DOMAIN answers = 1 .. commitCnt
        BY DEF StoreInv, TypeOK, OrderInv, AnswersInOrder
      <4>2. QED
        BY <2>1, <4>1 DEF OrderInv, AnswersInOrder
    <3>2. QED
      BY <3>1 DEF ToSet
  <2>3. Place(k).n # 0
    <3> DEFINE j == commitCnt - 1 - k
    <3>1. Place(k).n = Back(last, j) /\ j \in 0 .. Numbers - 1
      BY <1>1, <2>1 DEF NumbersInOrder
    <3> HIDE DEF j
    <3>2. Back(last, j) # 0
      BY <1>1, <3>1 DEF Back
    <3>3. QED
      BY <3>1, <3>2
  <2>4. Place(k).n \notin ToSet(BurstOwners)
    <3>1. SUFFICES ASSUME NEW i \in DOMAIN BurstOwners, BurstOwners[i] = Place(k).n PROVE FALSE
      BY DEF ToSet
    <3>2. DOMAIN bursts = 1 .. issueCnt
      BY DEF StoreInv, TypeOK, OrderInv, OwnersInOrder
    <3>3. i \in 1 .. issueCnt /\ bursts[i].n = Place(k).n
      BY <3>1, <3>2 DEF BurstOwners
    <3> DEFINE h == i - 1
    <3>4. h \in 0 .. issueCnt - 1 /\ h + 1 = i
      BY <1>1, <3>3
    <3> HIDE DEF h
    <3>5. bursts[h + 1].n = Store(h).n
      BY <3>4 DEF OrderInv, OwnersInOrder
    <3>6. Place(Written + h).n = Place(k).n
      BY <1>1, <3>3, <3>4, <3>5
    <3> DEFINE p == Written + h
    <3>7. p \in 0 .. commitCnt - 1 /\ p # k
      BY <1>1, <1>2, <3>4
    <3>8. Place(p).n = Place(k).n
      BY <3>6
    <3> HIDE DEF p
    <3>9. p = k
      BY <1>1, <2>1, <3>7, <3>8, PlacesApart
    <3>10. QED
      BY <3>7, <3>9
  <2>5. QED
    BY <2>2, <2>3, <2>4 DEF Unanswered
<1>5. f \in [S -> Unanswered]
  BY <1>4
<1>6. IsFiniteSet(S) /\ Cardinality(S) = Written
  <2>1. 0 \in Int /\ Written - 1 \in Int
    BY <1>1
  <2>2. QED
    BY <1>1, <2>1, FS_Interval
<1>7. Cardinality(Unanswered) \in Nat
  BY <1>3, FS_CardinalityType
<1>8. SUFFICES ASSUME InFlight <= Written PROVE FALSE
  BY <1>1
<1>9. Cardinality(Unanswered) < Cardinality(S)
  BY <1>1, <1>6, <1>7, <1>8
<1> DEFINE T == Unanswered
<1>10. f \in [S -> T] /\ IsFiniteSet(S) /\ IsFiniteSet(T) /\ Cardinality(T) < Cardinality(S)
  BY <1>3, <1>5, <1>6, <1>9
<1>11. \A x \in S : f[x] = Place(x).n /\ x \in 0 .. commitCnt - 1
  BY <1>1, <1>2
<1> HIDE DEF f, S, T
<1>12. \E x, y \in S : x # y /\ f[x] = f[y]
  BY <1>10, FS_PigeonHole
<1>13. PICK x \in S, y \in S : x # y /\ f[x] = f[y]
  BY <1>12
<1>14. x \in 0 .. commitCnt - 1 /\ y \in 0 .. commitCnt - 1 /\ Place(x).n = Place(y).n
  BY <1>11, <1>13
<1>15. QED
  BY <1>1, <1>13, <1>14, PlacesApart

\* The memory has nothing to answer before the oldest store is wholly written.
LEMMA AnswerableWritten ==
  ASSUME StoreInv, OrderInv, Answerable, InFlight < Depth
  PROVE  /\ commitCnt \in 1 .. Depth /\ Head(answers) = Place(0).n
         /\ Written \in 1 .. InFlight /\ Waiting
<1>1. /\ commitCnt \in 0 .. Depth /\ issueCnt \in 0 .. commitCnt /\ Written \in 0 .. Depth
      /\ \A k \in 0 .. issueCnt - 1 : Store(k) = Place(Written + k)
      /\ Depth \in Nat \ {0, 1} /\ Numbers \in Nat /\ Numbers >= Depth /\ InFlight \in Nat
      /\ last \in 0 .. Numbers /\ NumbersInOrder /\ commitPnt \in Slots
      /\ Written <= InFlight
  BY RingFacts, SizesAssumption DEF StoreInv, OrderInv, TypeOK
<1>2. answers # <<>> /\ answers \in Seq(0 .. Numbers) /\ Len(answers) = commitCnt
  BY DEF Answerable, StoreInv, TypeOK, OrderInv, AnswersInOrder
<1>3. commitCnt \in 1 .. Depth /\ 0 \in 0 .. commitCnt - 1
  <2>1. commitCnt # 0
    BY <1>2
  <2>2. QED
    BY <1>1, <2>1
<1>4. Head(answers) = Place(0).n
  <2>1. answers[0 + 1] = Place(0).n
    BY <1>3 DEF OrderInv, AnswersInOrder
  <2>2. QED
    BY <1>2, <2>1
<1>5. Place(0).n # 0
  <2> DEFINE j == commitCnt - 1
  <2>1. Place(0).n = Back(last, j) /\ j \in 0 .. Numbers - 1
    <3>1. Place(0).n = Back(last, commitCnt - 1 - 0) /\ commitCnt - 1 - 0 = j
      BY <1>1, <1>3 DEF NumbersInOrder
    <3>2. QED
      BY <1>1, <1>3, <3>1
  <2> HIDE DEF j
  <2>2. Back(last, j) # 0
    BY <1>1, <2>1 DEF Back
  <2>3. QED
    BY <2>1, <2>2
<1>6. Written # 0
  <2>1. SUFFICES ASSUME Written = 0 PROVE FALSE
    OBVIOUS
  <2>2. issueCnt = commitCnt /\ 0 \in 0 .. issueCnt - 1 /\ Written + 0 = 0
    BY <1>1, <1>3, <2>1 DEF Written
  <2>3. Store(0) = Place(0)
    BY <1>1, <2>2
  <2>4. bursts[1].n = Place(0).n
    BY <2>2, <2>3 DEF OrderInv, OwnersInOrder
  <2>5. Count(answers, Place(0).n) = 1
    BY <1>3, OwedOne
  <2>6. 1 > Count(BurstOwners, Place(0).n)
    BY <1>4, <1>5, <2>5 DEF Answerable
  <2> DEFINE same == {k \in DOMAIN BurstOwners : BurstOwners[k] = Place(0).n}
  <2>7. DOMAIN bursts = 1 .. issueCnt /\ 1 \in 1 .. issueCnt
    BY <1>1, <2>2 DEF StoreInv, TypeOK, OrderInv, OwnersInOrder
  <2>8. 1 \in same
    BY <2>4, <2>7 DEF BurstOwners
  <2>9. IsFiniteSet(same)
    <3>1. IsFiniteSet(1 .. issueCnt)
      BY <1>1, FS_Interval
    <3>2. same \in SUBSET (1 .. issueCnt)
      BY <2>7 DEF BurstOwners
    <3>3. QED
      BY <3>1, <3>2, FS_Subset
  <2>10. Cardinality(same) = Count(BurstOwners, Place(0).n)
    BY DEF Count
  <2> HIDE DEF same
  <2>11. Cardinality(same) \in Nat /\ Cardinality(same) # 0
    BY <2>8, <2>9, FS_CardinalityType, FS_EmptySet
  <2>12. QED
    BY <2>6, <2>10, <2>11
<1>7. Written \in 1 .. InFlight
  BY <1>1, <1>6
<1>8. Waiting
  <2>1. issuePnt = (commitPnt + Written) % Depth
    BY DEF StoreInv, RingPointers, Written
  <2>2. Written \in 0 .. Depth - 1 /\ 0 \in 0 .. Depth - 1 /\ Written # 0
    BY <1>1, <1>7
  <2>3. (commitPnt + Written) % Depth # (commitPnt + 0) % Depth
    BY <1>1, <2>2, WrapApart
  <2>4. commitPnt + 0 = commitPnt /\ commitPnt \in 0 .. 2 * Depth - 1 /\ commitPnt < Depth
    BY <1>1 DEF Slots
  <2>5. commitPnt % Depth = commitPnt
    BY <2>4, WrapAround
  <2>6. QED
    BY <2>1, <2>3, <2>4, <2>5 DEF Waiting
<1>9. QED
  BY <1>3, <1>4, <1>7, <1>8

\* The ring as the sequencer sees it.
PlainQueue == [k \in 1 .. commitCnt |-> [name |-> Place(k - 1).n, owed |-> 1]]

LEMMA InitOrder == Init => OrderInv
<1>1. SUFFICES ASSUME Init PROVE OrderInv
  OBVIOUS
<1>2. /\ commitCnt = 0 /\ issueCnt = 0 /\ answers = <<>> /\ bursts = <<>> /\ InFlight \in 1 .. Depth
      /\ Depth \in Nat
  BY <1>1, SizesAssumption DEF Init
<1>3. Written = 0 /\ Written <= InFlight
  BY <1>2 DEF Written
<1>4. NumbersInOrder /\ AnswersInOrder /\ OwnersInOrder
  BY <1>2 DEF NumbersInOrder, AnswersInOrder, OwnersInOrder
<1>5. QED
  BY <1>3, <1>4 DEF OrderInv

\* The numbers wrap after the last one.
LEMMA NumberValue ==
  ASSUME TypeOK
  PROVE  NextNumber = (IF last = Numbers THEN 1 ELSE last + 1) /\ last \in 0 .. Numbers
         /\ Numbers \in Nat \ {0}
<1>1. Numbers \in Nat \ {0} /\ last \in 0 .. Numbers
  BY SizesAssumption DEF TypeOK
<1>2. CASE last = Numbers
  <2>1. last = Numbers * 1 + 0 /\ 0 \in 0 .. Numbers - 1
    BY <1>1, <1>2
  <2>2. (Numbers * 1 + 0) % Numbers = 0
    BY <1>1, <2>1, DivModUnique
  <2>3. QED
    BY <1>1, <1>2, <2>1, <2>2 DEF NextNumber
<1>3. CASE last # Numbers
  <2>1. last = Numbers * 0 + last /\ last \in 0 .. Numbers - 1
    BY <1>1, <1>3
  <2>2. (Numbers * 0 + last) % Numbers = last
    BY <1>1, <2>1, DivModUnique
  <2>3. QED
    BY <1>1, <1>3, <2>1, <2>2 DEF NextNumber
<1>4. QED
  BY <1>2, <1>3

\* A new store is taken.
LEMMA AcceptOrder ==
  ASSUME StoreInv, OrderInv, OneBurstEach, NEW s \in Stores, Accept(s)
  PROVE  /\ OrderInv' /\ Written' = Written /\ NextNumber \in 1 .. Numbers
         /\ PlainQueue' = Append(PlainQueue, [name |-> NextNumber, owed |-> 1])
<1> DEFINE t == [n |-> NextNumber, bytes |-> s.bytes, elem |-> s.elem]
           b == [n |-> NextNumber, beats |-> BeatsIn(t)]
<1>1. /\ IsStore(t) /\ t \in [n : 0 .. Numbers, bytes : Nat, elem : Nat]
      /\ \A k \in 0 .. issueCnt - 1 : Store(k)' = Store(k)
      /\ \A k \in 0 .. issueCnt : k = issueCnt => Store(k)' = t
      /\ issueCnt \in 0 .. Depth - 1 /\ commitCnt \in 0 .. Depth - 1
  BY AcceptStores
<1>2. /\ TypeOK /\ Depth \in Nat \ {0, 1} /\ Numbers \in Nat /\ Numbers >= Depth
      /\ acceptPnt = (commitPnt + commitCnt) % Depth /\ commitPnt \in Slots /\ acceptPnt \in Slots
      /\ vinsn \in [Slots -> [n : 0 .. Numbers, bytes : Nat, elem : Nat]]
  BY RingFacts, SizesAssumption DEF StoreInv, TypeOK
<1>3. /\ vinsn' = [vinsn EXCEPT ![acceptPnt] = t] /\ commitPnt' = commitPnt
      /\ issueCnt' = issueCnt + 1 /\ commitCnt' = commitCnt + 1 /\ last' = NextNumber
  BY DEF Accept
<1>4. BurstsOf(s) = BurstsOf(t) /\ s.elem = 0 /\ t.elem = 0 /\ t.n = NextNumber
  BY DEF BurstsOf, OneBurstEach
<1>5. Len(BurstsOf(s)) = 1
  BY <1>4 DEF BurstsOf
<1>6. [k \in DOMAIN BurstsOf(t) |-> [n |-> NextNumber, beats |-> BurstsOf(t)[k]]]
        = Copies(b, Len(BurstsOf(t)))
  BY <1>1, BurstsMarked
<1>7. b.n = NextNumber /\ b \in BurstType
  <2>1. NextNumber \in 1 .. Numbers /\ BeatsIn(t) \in 1 .. LenWrap
    BY <1>1, <1>2, StoreFacts, NumbersFollow
  <2>2. QED
    BY <2>1 DEF BurstType
<1>8. bursts' = bursts \o Copies(b, 1) /\ answers' = answers \o Copies(NextNumber, 1)
  BY <1>4, <1>5, <1>6 DEF Accept
<1> HIDE DEF t, b
<1>9. NextNumber \in 1 .. Numbers
  BY <1>2, NumbersFollow
<1>10. ASSUME NEW k \in 0 .. commitCnt - 1 PROVE Place(k)' = Place(k)
  <2>1. k \in 0 .. Depth - 1 /\ commitCnt \in 0 .. Depth - 1 /\ k # commitCnt
    BY <1>1, <1>2
  <2>2. (commitPnt + k) % Depth # acceptPnt /\ (commitPnt + k) % Depth \in Slots
    BY <1>2, <2>1, WrapApart
  <2>3. QED
    BY <1>2, <1>3, <2>2 DEF Place
<1>11. ASSUME NEW k \in 0 .. commitCnt, k = commitCnt PROVE Place(k)' = t
  BY <1>2, <1>3, <1>11 DEF Place
<1>12. NumbersInOrder'
  <2>1. NumbersInOrder /\ last \in 0 .. Numbers
        /\ NextNumber = IF last = Numbers THEN 1 ELSE last + 1
    BY <1>2, NumberValue DEF OrderInv
  <2>2. ASSUME NEW k \in 0 .. commitCnt' - 1
        PROVE  (Place(k)').n = Back(last', commitCnt' - 1 - k)
    <3>1. CASE k = commitCnt
      <4>1. (Place(k)').n = NextNumber
        BY <1>1, <1>4, <1>11, <3>1
      <4>2. commitCnt' - 1 - k = 0
        BY <1>1, <1>3, <3>1
      <4>3. Back(last', commitCnt' - 1 - k) = NextNumber
        BY <1>3, <1>9, <4>2 DEF Back
      <4>4. QED
        BY <4>1, <4>3
    <3>2. CASE k # commitCnt
      <4>1. k \in 0 .. commitCnt - 1
        BY <1>1, <1>3, <3>2
      <4>2. (Place(k)').n = Back(last, commitCnt - 1 - k)
        BY <1>10, <2>1, <4>1 DEF NumbersInOrder
      <4>3. PICK j \in Nat : j = commitCnt - 1 - k
        BY <1>1, <4>1
      <4>4. commitCnt' - 1 - k = j + 1 /\ j + 1 < Numbers
        BY <1>1, <1>2, <1>3, <4>1, <4>3
      <4>5. Back(last', commitCnt' - 1 - k)
              = IF j + 1 < NextNumber THEN NextNumber - (j + 1)
                                      ELSE NextNumber + Numbers - (j + 1)
        BY <1>3, <4>4 DEF Back
      <4>6. Back(last, commitCnt - 1 - k) = IF j < last THEN last - j ELSE last + Numbers - j
        BY <4>3 DEF Back
      <4>7. QED
        BY <1>2, <2>1, <4>2, <4>4, <4>5, <4>6
    <3>3. QED
      BY <3>1, <3>2
  <2>3. QED
    BY <2>2 DEF NumbersInOrder
<1>13. AnswersInOrder'
  <2>1. /\ Len(answers) = commitCnt /\ \A k \in 0 .. commitCnt - 1 : answers[k + 1] = Place(k).n
        /\ answers \in Seq(0 .. Numbers) /\ NextNumber \in 0 .. Numbers
    <3>1. NextNumber \in 0 .. Numbers
      BY <1>2, <1>9
    <3>2. QED
      BY <1>2, <3>1 DEF OrderInv, AnswersInOrder, TypeOK
  <2>2. /\ Copies(NextNumber, 1) \in Seq(0 .. Numbers) /\ Len(Copies(NextNumber, 1)) = 1
        /\ Copies(NextNumber, 1)[1] = NextNumber
    BY <2>1 DEF Copies
  <2>3. Len(answers') = commitCnt + 1
    BY <1>8, <2>1, <2>2
  <2>4. ASSUME NEW k \in 0 .. commitCnt' - 1 PROVE answers'[k + 1] = (Place(k)').n
    <3>1. CASE k = commitCnt
      <4>1. answers'[k + 1] = NextNumber
        BY <1>1, <1>8, <2>1, <2>2, <3>1
      <4>2. QED
        BY <1>1, <1>4, <1>11, <3>1, <4>1
    <3>2. CASE k # commitCnt
      <4>1. k \in 0 .. commitCnt - 1 /\ k + 1 \in 1 .. Len(answers)
        BY <1>1, <1>3, <2>1, <3>2
      <4>2. answers'[k + 1] = answers[k + 1]
        BY <1>8, <2>1, <2>2, <4>1
      <4>3. QED
        BY <1>10, <2>1, <4>1, <4>2
    <3>3. QED
      BY <3>1, <3>2
  <2>5. QED
    BY <1>3, <2>3, <2>4 DEF AnswersInOrder
<1>14. OwnersInOrder'
  <2>1. /\ Len(bursts) = issueCnt /\ \A k \in 0 .. issueCnt - 1 : bursts[k + 1].n = Store(k).n
        /\ bursts \in Seq(BurstType)
    BY <1>2 DEF OrderInv, OwnersInOrder, TypeOK
  <2>2. Copies(b, 1) \in Seq(BurstType) /\ Len(Copies(b, 1)) = 1 /\ Copies(b, 1)[1] = b
    BY <1>7 DEF Copies
  <2>3. Len(bursts') = issueCnt + 1
    <3>1. Len(bursts \o Copies(b, 1)) = Len(bursts) + Len(Copies(b, 1))
      BY <2>1, <2>2, ConcatProperties
    <3>2. QED
      BY <1>8, <2>1, <2>2, <3>1
  <2>4. ASSUME NEW k \in 0 .. issueCnt' - 1 PROVE bursts'[k + 1].n = (Store(k)').n
    <3>1. CASE k = issueCnt
      <4>1. bursts'[k + 1] = b
        BY <1>1, <1>8, <2>1, <2>2, <3>1
      <4>2. QED
        BY <1>1, <1>4, <1>7, <3>1, <4>1
    <3>2. CASE k # issueCnt
      <4>1. k \in 0 .. issueCnt - 1 /\ k + 1 \in 1 .. Len(bursts)
        BY <1>1, <1>3, <2>1, <3>2
      <4>2. bursts'[k + 1] = bursts[k + 1]
        BY <1>8, <2>1, <2>2, <4>1
      <4>3. QED
        BY <1>1, <2>1, <4>1, <4>2
    <3>3. QED
      BY <3>1, <3>2
  <2>5. QED
    BY <1>3, <2>3, <2>4 DEF OwnersInOrder
<1>15. Written' = Written
  BY <1>1, <1>3 DEF Written
<1>16. PlainQueue' = Append(PlainQueue, [name |-> NextNumber, owed |-> 1])
  <2> DEFINE item == [name |-> NextNumber, owed |-> 1]
  <2>1. \A k \in 1 .. commitCnt : k - 1 \in 0 .. commitCnt - 1
    BY <1>1
  <2>2. PlainQueue' = [k \in 1 .. commitCnt + 1 |-> [name |-> (Place(k - 1)').n, owed |-> 1]]
    BY <1>3 DEF PlainQueue
  <2>3. ASSUME NEW k \in 1 .. commitCnt
        PROVE  [name |-> (Place(k - 1)').n, owed |-> 1] = PlainQueue[k]
    <3>1. Place(k - 1)' = Place(k - 1)
      BY <1>10, <2>1
    <3>2. QED
      BY <3>1 DEF PlainQueue
  <2>4. ASSUME NEW k \in 1 .. commitCnt + 1, k = commitCnt + 1
        PROVE  [name |-> (Place(k - 1)').n, owed |-> 1] = item
    <3>1. k - 1 = commitCnt /\ k - 1 \in 0 .. commitCnt
      BY <1>1, <2>4
    <3>2. Place(k - 1)' = t
      BY <1>11, <3>1
    <3>3. QED
      BY <1>4, <3>2
  <2>5. Len(PlainQueue) = commitCnt
    BY <1>1 DEF PlainQueue
  <2>6. Append(PlainQueue, item)
          = [k \in 1 .. commitCnt + 1 |-> IF k <= commitCnt THEN PlainQueue[k] ELSE item]
    <3>1. PlainQueue = [k \in 1 .. commitCnt |-> PlainQueue[k]] /\ commitCnt \in Nat
      BY <1>1 DEF PlainQueue
    <3>2. QED
      BY <2>5, <3>1
  <2>7. \A k \in 1 .. commitCnt + 1 :
          [name |-> (Place(k - 1)').n, owed |-> 1] = IF k <= commitCnt THEN PlainQueue[k] ELSE item
    <3>1. \A k \in 1 .. commitCnt + 1 :
            k \in 1 .. commitCnt \/ (k = commitCnt + 1 /\ ~(k <= commitCnt))
      BY <1>1
    <3> HIDE DEF item
    <3>2. ASSUME NEW k \in 1 .. commitCnt + 1
          PROVE  [name |-> (Place(k - 1)').n, owed |-> 1]
                   = IF k <= commitCnt THEN PlainQueue[k] ELSE item
      <4>1. CASE k \in 1 .. commitCnt
        BY <2>3, <4>1
      <4>2. CASE k = commitCnt + 1 /\ ~(k <= commitCnt)
        BY <2>4, <4>2
      <4>3. QED
        BY <3>1, <4>1, <4>2
    <3>3. QED
      BY <3>2
  <2>8. QED
    BY <2>2, <2>6, <2>7
<1>17. QED
  BY <1>9, <1>12, <1>13, <1>14, <1>15, <1>16 DEF OrderInv

\* A beat inside a store of one burst does not end the burst.
LEMMA BeatOrder ==
  ASSUME StoreInv, OrderInv, OneBurstEach, WriteBeat
  PROVE  OrderInv' /\ Written' = Written /\ PlainQueue' = PlainQueue
<1>1. /\ issueCnt # 0 /\ ~(WordDone /\ LeftAfterWord = 0)
      /\ bursts' = (IF LastBeat THEN Tail(bursts) ELSE bursts)
      /\ UNCHANGED <<vinsn, acceptPnt, issuePnt, commitPnt, issueCnt, commitCnt, answers, last>>
  BY DEF WriteBeat, CanWrite, queueVars
<1>2. /\ IsStore(Store(0)) /\ left \in Nat \ {0} /\ WordBytes \in Nat \ {0}
  BY <1>1, HeadStore, SizesAssumption DEF AtBeat
<1>3. Store(0).elem = 0
  <2> DEFINE t == [bytes |-> Store(0).bytes, elem |-> Store(0).elem]
  <2>1. t \in Stores /\ t.elem = Store(0).elem
    BY <1>2 DEF IsStore
  <2> HIDE DEF t
  <2>2. QED
    BY <2>1 DEF OneBurstEach
<1>4. Carry(1, Store(0), left - vrfPnt)
  BY <1>3 DEF Carry
<1>5. ~LastBeat
  <2>1. WordDone => left > WordBytes
    BY <1>1, <1>2 DEF LeftAfterWord
  <2> DEFINE n2 == IF LastBeat THEN 1 - 1 ELSE 1
  <2>2. \/ Carry(n2, Store(0), left - (vrfPnt + ValidBytes))
        \/ Carry(n2, Store(0), left - WordBytes)
    BY <1>1, <1>4, <2>1, BeatFacts
  <2>3. n2 = 1
    BY <1>3, <2>2 DEF Carry
  <2>4. QED
    BY <2>3
<1>6. /\ \A k : Place(k)' = Place(k) /\ Store(k)' = Store(k)
      /\ bursts' = bursts
  BY <1>1, <1>5 DEF Place, Store
<1>7. Written' = Written /\ PlainQueue' = PlainQueue
  BY <1>1, <1>6 DEF Written, PlainQueue
<1>8. NumbersInOrder' /\ AnswersInOrder' /\ OwnersInOrder'
  BY <1>1, <1>6 DEF OrderInv, NumbersInOrder, AnswersInOrder, OwnersInOrder
<1>9. QED
  BY <1>7, <1>8 DEF OrderInv

\* The last beat of the oldest store that is not wholly written.
LEMMA LastBeatOrder ==
  ASSUME StoreInv, OrderInv, OneBurstEach, WriteLastBeat
  PROVE  /\ OrderInv' /\ Written < commitCnt /\ Written' = Written + 1
         /\ PlainQueue' = PlainQueue
<1>1. /\ issueCnt # 0 /\ Cardinality(Unanswered) < InFlight
      /\ bursts' = (IF LastBeat THEN Tail(bursts) ELSE bursts) /\ issueCnt' = issueCnt - 1
      /\ UNCHANGED <<vinsn, acceptPnt, commitPnt, commitCnt, answers, last>>
  BY DEF WriteLastBeat, CanWrite
<1>2. /\ commitCnt \in Nat /\ issueCnt \in 0 .. commitCnt /\ Written \in Nat /\ InFlight \in Nat
      /\ bursts \in Seq(BurstType)
  BY RingFacts, SizesAssumption DEF StoreInv, TypeOK
<1>3. LastBeat /\ \A k \in 0 .. issueCnt - 2 : Store(k)' = Store(k + 1)
  BY WriteLastBeatKeeps
<1>4. Written < InFlight
  BY <1>1, WrittenBelow
<1>5. Written < commitCnt /\ Written' = Written + 1 /\ Written' <= InFlight
  BY <1>1, <1>2, <1>4 DEF Written
<1>6. \A k : Place(k)' = Place(k)
  BY <1>1 DEF Place
<1>7. PlainQueue' = PlainQueue
  BY <1>1, <1>6 DEF PlainQueue
<1>8. NumbersInOrder' /\ AnswersInOrder'
  BY <1>1, <1>6 DEF OrderInv, NumbersInOrder, AnswersInOrder
<1>9. OwnersInOrder'
  <2>1. /\ Len(bursts) = issueCnt /\ \A k \in 0 .. issueCnt - 1 : bursts[k + 1].n = Store(k).n
    BY DEF OrderInv, OwnersInOrder
  <2>2. bursts # <<>>
    BY <1>1, HeadsOwn
  <2>3. /\ Len(Tail(bursts)) = issueCnt - 1
        /\ \A p \in 1 .. issueCnt - 1 : Tail(bursts)[p] = bursts[p + 1]
    BY <1>2, <2>1, <2>2, HeadTailProperties
  <2>4. ASSUME NEW k \in 0 .. issueCnt' - 1 PROVE bursts'[k + 1].n = (Store(k)').n
    <3>1. /\ k \in 0 .. issueCnt - 2 /\ k + 1 \in 1 .. issueCnt - 1 /\ k + 1 \in 0 .. issueCnt - 1
      BY <1>1, <1>2
    <3>2. bursts'[k + 1] = bursts[(k + 1) + 1]
      BY <1>1, <1>3, <2>3, <3>1
    <3>3. bursts[(k + 1) + 1].n = Store(k + 1).n
      BY <2>1, <3>1
    <3>4. QED
      BY <1>3, <3>1, <3>2, <3>3
  <2>5. QED
    BY <1>1, <1>3, <2>3, <2>4 DEF OwnersInOrder
<1>10. QED
  BY <1>5, <1>7, <1>8, <1>9 DEF OrderInv

\* The answer completes the oldest store.
LEMMA CommitOrder ==
  ASSUME StoreInv, OrderInv, OneBurstEach, Commit
  PROVE  /\ OrderInv' /\ Written > 0 /\ Written' = Written - 1
         /\ PlainQueue # <<>> /\ Head(PlainQueue).owed = 1 /\ PlainQueue' = Tail(PlainQueue)
<1>1. /\ Answerable /\ answers' = Tail(answers) /\ answers # <<>>
      /\ commitCnt' = commitCnt - 1 /\ commitPnt' = (commitPnt + 1) % Depth
      /\ UNCHANGED <<vinsn, issuePnt, issueCnt, bursts, last>>
  BY DEF Commit, Answerable
<1>2. /\ commitCnt \in 1 .. Depth /\ Written \in 1 .. InFlight
  BY <1>1, AnswerableWritten DEF OneBurstEach
<1>3. /\ commitPnt \in Slots /\ Depth \in Nat \ {0, 1} /\ InFlight \in Nat /\ issueCnt \in Nat
      /\ answers \in Seq(0 .. Numbers)
  BY SizesAssumption DEF StoreInv, TypeOK
<1>4. ASSUME NEW k \in 0 .. commitCnt - 2
      PROVE  Place(k)' = Place(k + 1) /\ k + 1 \in 0 .. commitCnt - 1
  <2>1. k + 1 \in 1 .. Depth /\ (k + 1) - 1 = k /\ k + 1 \in 0 .. commitCnt - 1
    BY <1>2, <1>3
  <2>2. (((commitPnt + 1) % Depth) + ((k + 1) - 1)) % Depth = (commitPnt + (k + 1)) % Depth
    BY <1>3, <2>1, WrapShift
  <2>3. (((commitPnt + 1) % Depth) + k) % Depth = (commitPnt + (k + 1)) % Depth
    BY <2>1, <2>2
  <2>4. (commitPnt' + k) % Depth = (commitPnt + (k + 1)) % Depth
    BY <1>1, <2>3
  <2>5. QED
    BY <1>1, <2>1, <2>4 DEF Place
<1>5. Written > 0 /\ Written' = Written - 1 /\ Written' <= InFlight
  <2>1. Written' = Written - 1
    BY <1>1, <1>2, <1>3 DEF Written
  <2>2. QED
    BY <1>2, <1>3, <2>1
<1>6. NumbersInOrder'
  <2>1. NumbersInOrder
    BY DEF OrderInv
  <2>2. ASSUME NEW k \in 0 .. commitCnt' - 1
        PROVE  (Place(k)').n = Back(last', commitCnt' - 1 - k)
    <3>1. k \in 0 .. commitCnt - 2 /\ commitCnt' - 1 - k = commitCnt - 1 - (k + 1)
      BY <1>1, <1>2, <1>3
    <3>2. Place(k + 1).n = Back(last, commitCnt - 1 - (k + 1))
      BY <1>4, <2>1, <3>1 DEF NumbersInOrder
    <3>3. QED
      BY <1>1, <1>4, <3>1, <3>2
  <2>3. QED
    BY <2>2 DEF NumbersInOrder
<1>7. AnswersInOrder'
  <2>1. Len(answers) = commitCnt /\ \A k \in 0 .. commitCnt - 1 : answers[k + 1] = Place(k).n
    BY DEF OrderInv, AnswersInOrder
  <2>2. /\ Len(Tail(answers)) = commitCnt - 1
        /\ \A p \in 1 .. commitCnt - 1 : Tail(answers)[p] = answers[p + 1]
    <3> DEFINE R == 0 .. Numbers
    <3>1. answers \in Seq(R)
      BY <1>3
    <3> HIDE DEF R
    <3>2. QED
      BY <1>1, <2>1, <3>1, HeadTailProperties
  <2>3. ASSUME NEW k \in 0 .. commitCnt' - 1 PROVE answers'[k + 1] = (Place(k)').n
    <3>1. k \in 0 .. commitCnt - 2 /\ k + 1 \in 1 .. commitCnt - 1
      BY <1>1, <1>2, <1>3
    <3>2. answers'[k + 1] = answers[(k + 1) + 1]
      BY <1>1, <2>2, <3>1
    <3>3. answers[(k + 1) + 1] = Place(k + 1).n
      BY <1>4, <2>1, <3>1
    <3>4. QED
      BY <1>4, <3>1, <3>2, <3>3
  <2>4. QED
    BY <1>1, <2>2, <2>3 DEF AnswersInOrder
<1>8. OwnersInOrder'
  <2>1. \A k : Store(k)' = Store(k)
    BY <1>1 DEF Store
  <2>2. QED
    BY <1>1, <2>1 DEF OrderInv, OwnersInOrder
<1>9. /\ PlainQueue # <<>> /\ Head(PlainQueue).owed = 1 /\ PlainQueue' = Tail(PlainQueue)
  <2>1. /\ Len(PlainQueue) = commitCnt /\ commitCnt \in Nat /\ 1 \in 1 .. commitCnt
        /\ \A k \in 1 .. commitCnt : PlainQueue[k] = [name |-> Place(k - 1).n, owed |-> 1]
    BY <1>2, <1>3 DEF PlainQueue
  <2>2. PlainQueue # <<>>
    BY <1>2, <2>1
  <2>3. Head(PlainQueue) = PlainQueue[1]
    OBVIOUS
  <2>4. Head(PlainQueue).owed = 1
    BY <2>1, <2>3
  <2>5. Tail(PlainQueue) = [k \in 1 .. commitCnt - 1 |-> PlainQueue[k + 1]]
    <3> DEFINE N == {PlainQueue[k] : k \in 1 .. commitCnt}
    <3>1. PlainQueue = [k \in 1 .. commitCnt |-> PlainQueue[k]]
      BY DEF PlainQueue
    <3>2. PlainQueue \in Seq(N)
      BY <2>1, <3>1
    <3> HIDE DEF N
    <3>3. /\ Tail(PlainQueue) \in Seq(N) /\ Len(Tail(PlainQueue)) = commitCnt - 1
          /\ \A k \in 1 .. commitCnt - 1 : Tail(PlainQueue)[k] = PlainQueue[k + 1]
      BY <2>1, <2>2, <3>2, HeadTailProperties
    <3>4. Tail(PlainQueue) = [k \in 1 .. commitCnt - 1 |-> Tail(PlainQueue)[k]]
      <4> DEFINE q == Tail(PlainQueue)
      <4>1. q \in Seq(N) /\ Len(q) = commitCnt - 1
        BY <3>3
      <4> HIDE DEF q
      <4>2. q \in [1 .. commitCnt - 1 -> N]
        BY <4>1, LenProperties
      <4>3. q = [k \in 1 .. commitCnt - 1 |-> q[k]]
        BY <4>2
      <4>4. QED
        BY <4>3 DEF q
    <3>5. QED
      BY <3>3, <3>4
  <2>6. PlainQueue' = [k \in 1 .. commitCnt - 1 |-> [name |-> (Place(k - 1)').n, owed |-> 1]]
    BY <1>1 DEF PlainQueue
  <2>7. ASSUME NEW k \in 1 .. commitCnt - 1
        PROVE  [name |-> (Place(k - 1)').n, owed |-> 1] = PlainQueue[k + 1]
    <3>1. /\ k - 1 \in 0 .. commitCnt - 2 /\ (k - 1) + 1 = k /\ k + 1 \in 1 .. commitCnt
          /\ (k + 1) - 1 = k
      BY <2>1
    <3>2. Place(k - 1)' = Place((k - 1) + 1)
      BY <1>4, <3>1
    <3>3. Place(k - 1)' = Place(k)
      BY <3>1, <3>2
    <3>4. PlainQueue[k + 1] = [name |-> Place((k + 1) - 1).n, owed |-> 1]
      BY <2>1, <3>1
    <3>5. PlainQueue[k + 1] = [name |-> Place(k).n, owed |-> 1]
      BY <3>1, <3>4
    <3>6. QED
      BY <3>3, <3>5
  <2>8. QED
    BY <2>2, <2>4, <2>5, <2>6, <2>7
<1>10. QED
  BY <1>5, <1>6, <1>7, <1>8, <1>9 DEF OrderInv

\* The memory cannot answer a store that is not wholly written, so no answer is
\* dropped; and there are no other stores.
LEMMA OrderStep == OneBurstEach /\ StoreInv /\ OrderInv /\ [Next]_vars => OrderInv'
<1>1. SUFFICES ASSUME OneBurstEach, StoreInv, OrderInv, [Next]_vars PROVE OrderInv'
  OBVIOUS
<1>2. CASE \E s \in Stores : Accept(s)
  BY <1>1, <1>2, AcceptOrder
<1>3. CASE WriteBeat
  BY <1>1, <1>3, BeatOrder
<1>4. CASE WriteLastBeat
  BY <1>1, <1>4, LastBeatOrder
<1>5. CASE Commit
  BY <1>1, <1>5, CommitOrder
<1>6. CASE DropAnswer
  BY <1>1, <1>6, AnswerableWritten DEF DropAnswer, OneBurstEach
<1>7. CASE StoreElsewhere
  BY <1>1, <1>7 DEF StoreElsewhere, OneBurstEach
<1>8. CASE UNCHANGED vars
  <2>1. UNCHANGED <<vinsn, issuePnt, commitPnt, issueCnt, commitCnt, bursts, answers, last>>
    BY <1>8 DEF vars
  <2>2. \A k : Place(k)' = Place(k) /\ Store(k)' = Store(k)
    BY <2>1 DEF Place, Store
  <2>3. NumbersInOrder' /\ AnswersInOrder' /\ OwnersInOrder'
    BY <1>1, <2>1, <2>2 DEF OrderInv, NumbersInOrder, AnswersInOrder, OwnersInOrder
  <2>4. QED
    BY <1>1, <2>1, <2>3 DEF OrderInv, Written
<1>9. QED
  BY <1>1, <1>2, <1>3, <1>4, <1>5, <1>6, <1>7, <1>8 DEF Next

\* The queue StoreQueue is given.
RingQueue == [k \in 1 .. commitCnt |-> [name |-> Live[k], owed |-> Count(answers, Live[k])]]

LEMMA QueueIsPlain == StoreInv /\ OrderInv => RingQueue = PlainQueue
<1>1. SUFFICES ASSUME StoreInv, OrderInv PROVE RingQueue = PlainQueue
  OBVIOUS
<1>2. commitCnt \in Nat /\ commitPnt \in Nat
  BY <1>1, SizesAssumption DEF StoreInv, TypeOK, Slots
<1>3. ASSUME NEW k \in 1 .. commitCnt
      PROVE  Live[k] = Place(k - 1).n /\ Count(answers, Live[k]) = 1
  <2>1. commitPnt + k - 1 = commitPnt + (k - 1) /\ k - 1 \in 0 .. commitCnt - 1
    BY <1>2
  <2>2. Live[k] = Place(k - 1).n
    BY <2>1 DEF Live, Place
  <2>3. Count(answers, Place(k - 1).n) = 1
    BY <1>1, <2>1, OwedOne
  <2>4. QED
    BY <2>2, <2>3
<1>4. QED
  BY <1>3 DEF RingQueue, PlainQueue

\* With unit-stride stores only, none of them foreign to the cluster, and fewer
\* unanswered stores than the ring has slots, the store unit reports each store as
\* done (vinsn_commit, the B channel in vstu.sv) with the memory's answer to it, in
\* the order of acceptance: it is the queue of stores the sequencer is promised.
THEOREM Refines == ASSUME OneBurstEach PROVE Spec => ImplementsStoreQueue
<1>1. Init => StoreAbs!Init
  <2>1. SUFFICES ASSUME Init PROVE RingQueue = <<>> /\ Written = 0
    BY DEF StoreAbs!Init, RingQueue, Written
  <2>2. QED
    BY <2>1 DEF Init, RingQueue, Written
<1>2. StoreInv /\ OrderInv /\ (RingQueue = PlainQueue)' /\ [Next]_vars
        => [StoreAbs!Next]_(StoreAbs!vars)
  <2>1. SUFFICES ASSUME StoreInv, OrderInv, RingQueue' = PlainQueue', [Next]_vars
                 PROVE  [StoreAbs!Next]_(StoreAbs!vars)
    OBVIOUS
  <2>2. RingQueue = PlainQueue
    BY <2>1, QueueIsPlain
  <2>3. SUFFICES \/ \E name \in 1 .. Numbers :
                      /\ PlainQueue' = Append(PlainQueue, [name |-> name, owed |-> 1])
                      /\ Written' = Written
                 \/ Written < commitCnt /\ Written' = Written + 1 /\ PlainQueue' = PlainQueue
                 \/ /\ PlainQueue # <<>> /\ Head(PlainQueue).owed = 1 /\ Written > 0
                    /\ PlainQueue' = Tail(PlainQueue) /\ Written' = Written - 1
                 \/ PlainQueue' = PlainQueue /\ Written' = Written
    <3>1. ASSUME NEW name \in 1 .. Numbers,
                 PlainQueue' = Append(PlainQueue, [name |-> name, owed |-> 1]), Written' = Written
          PROVE  StoreAbs!Next
      <4>1. RingQueue' = Append(RingQueue, [name |-> name, owed |-> 1])
        BY <2>1, <2>2, <3>1
      <4>2. StoreAbs!Take(name, 1)
        BY <3>1, <4>1 DEF StoreAbs!Take, RingQueue, Written
      <4>3. 1 \in 1 .. LenWrap
        BY SizesAssumption
      <4>4. QED
        BY <4>2, <4>3 DEF StoreAbs!Next
    <3>2. ASSUME Written < commitCnt, Written' = Written + 1, PlainQueue' = PlainQueue
          PROVE  StoreAbs!Next
      <4>1. RingQueue' = RingQueue
        BY <2>1, <2>2, <3>2
      <4>2. commitCnt \in Nat
        BY <2>1, SizesAssumption DEF StoreInv, TypeOK
      <4>3. Len(RingQueue) = commitCnt
        BY <4>2 DEF RingQueue
      <4>4. StoreAbs!Write
        BY <3>2, <4>1, <4>3 DEF StoreAbs!Write, RingQueue, Written
      <4>5. QED
        BY <4>4 DEF StoreAbs!Next
    <3>3. ASSUME PlainQueue # <<>>, Head(PlainQueue).owed = 1, Written > 0,
                 PlainQueue' = Tail(PlainQueue), Written' = Written - 1
          PROVE  StoreAbs!Next
      <4>1. /\ RingQueue # <<>> /\ Head(RingQueue).owed = 1 /\ RingQueue' = Tail(RingQueue)
        BY <2>1, <2>2, <3>3
      <4>2. StoreAbs!Complete
        BY <3>3, <4>1 DEF StoreAbs!Complete, RingQueue, Written
      <4>3. QED
        BY <4>2 DEF StoreAbs!Next
    <3>4. ASSUME PlainQueue' = PlainQueue, Written' = Written
          PROVE  UNCHANGED StoreAbs!vars
      <4>1. RingQueue' = RingQueue
        BY <2>1, <2>2, <3>4
      <4>2. QED
        BY <3>4, <4>1 DEF StoreAbs!vars, RingQueue, Written
    <3>5. QED
      BY <3>1, <3>2, <3>3, <3>4
  <2>4. CASE \E s \in Stores : Accept(s)
    <3>1. PICK s \in Stores : Accept(s)
      BY <2>4
    <3>2. /\ Written' = Written /\ NextNumber \in 1 .. Numbers
          /\ PlainQueue' = Append(PlainQueue, [name |-> NextNumber, owed |-> 1])
      BY <2>1, <3>1, AcceptOrder
    <3>3. QED
      BY <3>2
  <2>5. CASE WriteBeat
    BY <2>1, <2>5, BeatOrder
  <2>6. CASE WriteLastBeat
    BY <2>1, <2>6, LastBeatOrder
  <2>7. CASE Commit
    BY <2>1, <2>7, CommitOrder
  <2>8. CASE DropAnswer
    BY <2>1, <2>8, AnswerableWritten DEF DropAnswer, OneBurstEach
  <2>9. CASE StoreElsewhere
    BY <2>9 DEF StoreElsewhere, OneBurstEach
  <2>10. CASE UNCHANGED vars
    BY <2>10 DEF vars, PlainQueue, Place, Written
  <2>11. QED
    BY <2>1, <2>4, <2>5, <2>6, <2>7, <2>8, <2>9, <2>10 DEF Next
<1>3. Spec => []OrderInv
  BY InitOrder, OrderStep, StoreAlways, PTL DEF Spec
<1>4. QED
  BY <1>1, <1>2, <1>3, StoreAlways, QueueIsPlain, PTL DEF Spec, ImplementsStoreQueue, StoreAbs!Spec

=============================================================================
