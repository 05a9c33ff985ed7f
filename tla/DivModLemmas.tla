---------------------------- MODULE DivModLemmas ----------------------------
(***************************************************************************)
(* Facts about quotients and remainders by a positive divisor that is not  *)
(* a literal: line sizes, numbers of lanes and clusters, ring depths.      *)
(***************************************************************************)
EXTENDS Naturals, TLAPS

\* A number is its quotient times the divisor plus its remainder.
LEMMA DivModParts ==
  ASSUME NEW a \in Nat, NEW b \in Nat \ {0}
  PROVE  /\ a \div b \in Nat /\ a % b \in 0 .. b - 1
         /\ a = b * (a \div b) + (a % b)
OBVIOUS

\* Any such representation gives the quotient and the remainder.
LEMMA DivModUnique ==
  ASSUME NEW b \in Nat \ {0}, NEW q \in Nat, NEW r \in 0 .. b - 1
  PROVE  (b * q + r) \div b = q /\ (b * q + r) % b = r
OBVIOUS

LEMMA DivMonotonic ==
  ASSUME NEW b \in Nat \ {0}, NEW a \in Nat, NEW c \in Nat, a <= c
  PROVE  a \div b <= c \div b
OBVIOUS

\* One divisor more is one quotient more, and the same remainder.
LEMMA DivModPlusDivisor ==
  ASSUME NEW b \in Nat \ {0}, NEW a \in Nat
  PROVE  (a + b) \div b = (a \div b) + 1 /\ (a + b) % b = a % b
<1> DEFINE q == a \div b
           r == a % b
<1>1. q \in Nat /\ r \in 0 .. b - 1 /\ a = b * q + r
  BY DivModParts
<1> HIDE DEF q, r
<1>2. a + b = b * (q + 1) + r /\ q + 1 \in Nat
  BY <1>1
<1>3. (b * (q + 1) + r) \div b = q + 1 /\ (b * (q + 1) + r) % b = r
  BY <1>1, <1>2, DivModUnique
<1>4. a \div b = q /\ a % b = r
  BY <1>1 DEF q, r
<1>5. QED
  BY <1>2, <1>3, <1>4

\* What is left up to the next multiple of the divisor.
LEMMA ToNextMultiple ==
  ASSUME NEW b \in Nat \ {0}, NEW a \in Nat
  PROVE  /\ (a + (b - (a % b))) % b = 0
         /\ (a + (b - (a % b))) \div b = (a \div b) + 1
<1> DEFINE q == a \div b
           r == a % b
<1>1. q \in Nat /\ r \in 0 .. b - 1 /\ a = b * q + r
  BY DivModParts
<1> HIDE DEF q, r
<1>2. a + (b - r) = b * (q + 1) + 0 /\ q + 1 \in Nat /\ 0 \in 0 .. b - 1
  BY <1>1
<1>3. (b * (q + 1) + 0) \div b = q + 1 /\ (b * (q + 1) + 0) % b = 0
  BY <1>2, DivModUnique
<1>4. a \div b = q /\ a % b = r
  BY <1>1 DEF q, r
<1>5. QED
  BY <1>2, <1>3, <1>4

\* Less than a divisor beyond a multiple stays in its quotient.
LEMMA DivBeyondMultiple ==
  ASSUME NEW b \in Nat \ {0}, NEW a \in Nat, a % b = 0, NEW r \in 0 .. b - 1
  PROVE  (a + r) \div b = a \div b
<1> DEFINE q == a \div b
<1>1. q \in Nat /\ a = b * q + 0
  BY DivModParts
<1> HIDE DEF q
<1>2. (b * q + r) \div b = q
  BY <1>1, DivModUnique
<1>3. a \div b = q
  BY DEF q
<1>4. QED
  BY <1>1, <1>2, <1>3
=============================================================================
