------------------------ MODULE VectorConfig_proofs ------------------------
(***************************************************************************)
(* What holds of the vector configuration for every number of clusters and *)
(* lanes, every register size, every set of vtypes and lengths, and        *)
(* however far the clusters drift apart behind the fork.                   *)
(***************************************************************************)
EXTENDS VectorConfig, DivModLemmas, FiniteSetTheorems, TLAPS

-----------------------------------------------------------------------------
(***************************************************************************)
(* Types.                                                                  *)
(***************************************************************************)

LEMMA PowerLemma ==
  ASSUME NEW k \in 0 .. 3
  PROVE  2 ^ k \in {1, 2, 4, 8}
<1>1. 2 ^ 0 = 1 /\ 2 ^ 1 = 2 /\ 2 ^ 2 = 4 /\ 2 ^ 3 = 8
  OBVIOUS
<1>2. k = 0 \/ k = 1 \/ k = 2 \/ k = 3
  OBVIOUS
<1>3. QED
  BY <1>1, <1>2

LEMMA ScaleLemma ==
  ASSUME NEW n \in Nat, NEW k \in -3 .. 3
  PROVE  Scale(n, k) \in Nat
<1>1. CASE k >= 0
  <2>1. 2 ^ k \in {1, 2, 4, 8}
    <3>1. k \in 0 .. 3
      BY <1>1
    <3>2. QED
      BY <3>1, PowerLemma
  <2>2. \A p \in {1, 2, 4, 8} : n * p \in Nat
    OBVIOUS
  <2>3. QED
    BY <1>1, <2>1, <2>2 DEF Scale
<1>2. CASE ~(k >= 0)
  <2>1. -k \in 0 .. 3
    BY <1>2
  <2>2. 2 ^ (-k) \in {1, 2, 4, 8}
    BY <2>1, PowerLemma
  <2>3. \A p \in {1, 2, 4, 8} : n \div p \in Nat
    OBVIOUS
  <2>4. QED
    BY <1>2, <2>2, <2>3 DEF Scale
<1>3. QED
  BY <1>1, <1>2

LEMMA VlmaxLemma ==
  ASSUME NEW t \in VTypes
  PROVE  Vlmax(t) \in Nat /\ VlmaxCluster(t) \in Nat
<1>1. t.sew \in 0 .. 3 /\ t.lmul \in -3 .. 3
  BY VTypesAssumption
<1>2. 2 ^ t.sew \in {1, 2, 4, 8}
  BY <1>1, PowerLemma
<1>3. \A p \in {1, 2, 4, 8} : VLENB \div p \in Nat
  BY SizesAssumption
<1>4. VLENB \div 2 ^ t.sew \in Nat
  BY <1>2, <1>3
<1>5. (VLENB \div 2 ^ t.sew) * NrClusters \in Nat
  BY <1>4, SizesAssumption
<1>6. QED
  BY <1>1, <1>4, <1>5, ScaleLemma DEF Vlmax, VlmaxCluster

LEMMA RowLemma == Row \in Nat \ {0}
BY SizesAssumption DEF Row

LEMMA RemainderLemma ==
  ASSUME NEW c \in Clusters, NEW avl \in Nat
  PROVE  Remainder(c, avl) \in 0 .. NrLanes
<1>1. avl % Row \in Nat
  BY RowLemma, DivModParts
<1>2. c \in Nat /\ c * NrLanes \in Nat /\ (c + 1) * NrLanes = c * NrLanes + NrLanes
  BY SizesAssumption DEF Clusters
<1> DEFINE rem == avl % Row
           low == c * NrLanes
<1> HIDE DEF rem, low
<1>3. /\ rem \in Nat /\ low \in Nat
      /\ Remainder(c, avl) = IF rem >= low + NrLanes THEN NrLanes
                             ELSE IF rem >= low THEN rem - low ELSE 0
  BY <1>1, <1>2 DEF Remainder, rem, low
<1>4. QED
  BY <1>3, SizesAssumption

LEMMA ShareLemma ==
  ASSUME NEW c \in Clusters, NEW t \in VTypes, NEW avl \in Nat
  PROVE  Share(c, t, avl) \in Nat /\ Total(t, avl) \in Nat
<1>1. WholeRows(avl) \in Nat
  <2>1. avl \div Row \in Nat
    BY RowLemma, DivModParts
  <2>2. QED
    BY <2>1, SizesAssumption DEF WholeRows
<1>2. Remainder(c, avl) \in Nat
  BY RemainderLemma, SizesAssumption
<1>3. QED
  BY <1>1, <1>2, VlmaxLemma DEF Share, Total

LEMMA InsnLemma ==
  ASSUME NEW i \in Insns
  PROVE  /\ i.vtype \in VTypes /\ i.avl \in Nat
         /\ i.how \in {"avl", "vlmax", "keep"}
<1>1. CASE i \in [how : {"avl"}, vtype : VTypes, avl : AVLs]
  BY <1>1, AVLsAssumption
<1>2. CASE i \in [how : {"vlmax", "keep"}, vtype : VTypes, avl : {0}]
  BY <1>2
<1>3. QED
  BY <1>1, <1>2 DEF Insns

LEMMA NewLengths ==
  ASSUME TypeOK, NEW c \in Clusters, NEW i \in Insns
  PROVE  NewVl(c, i) \in Nat /\ NewVlCluster(c, i) \in Nat
<1>1. /\ i.vtype \in VTypes /\ i.avl \in Nat
      /\ i.how \in {"avl", "vlmax", "keep"}
  BY InsnLemma
<1>2. vl[c] \in Nat /\ vlCluster[c] \in Nat
  BY DEF TypeOK
<1>3. /\ Vlmax(i.vtype) \in Nat /\ VlmaxCluster(i.vtype) \in Nat
      /\ Share(c, i.vtype, i.avl) \in Nat /\ Total(i.vtype, i.avl) \in Nat
  BY <1>1, VlmaxLemma, ShareLemma
<1>4. QED
  BY <1>2, <1>3 DEF NewVl, NewVlCluster

LEMMA SomeCluster == {} # Clusters
<1>1. 0 \in Clusters
  BY SizesAssumption DEF Clusters
<1>2. QED
  BY <1>1

LEMMA TypeInit == Init => TypeOK
BY SomeCluster, SizesAssumption DEF Init, TypeOK, NoInsn, Types

LEMMA TypeNext == TypeOK /\ [Next]_vars => TypeOK'
<1> SUFFICES ASSUME TypeOK, [Next]_vars PROVE TypeOK'
  OBVIOUS
<1> USE DEF TypeOK
<1>1. ASSUME NEW i \in Insns, Offer(i) PROVE TypeOK'
  BY <1>1, SomeCluster DEF Offer
<1>2. ASSUME NEW c \in Clusters, Take(c) PROVE TypeOK'
  <2> DEFINE taken == fork.taken \cup {c}
  <2>1. /\ fork' = IF taken = Clusters THEN NoInsn ELSE [fork EXCEPT !.taken = taken]
        /\ pipe' = [pipe EXCEPT ![c] = pipe[c] \o fork.insn]
        /\ Len(pipe[c]) < Cuts
    BY <1>2 DEF Take, CanTake
  <2>2. /\ fork' \in [insn : {<<>>} \cup {<<i>> : i \in Insns}, taken : SUBSET Clusters]
        /\ fork'.taken # Clusters
    <3>1. CASE taken = Clusters
      BY <2>1, <3>1, SomeCluster DEF NoInsn
    <3>2. CASE taken # Clusters
      BY <2>1, <3>2
    <3>3. QED
      BY <3>1, <3>2
  <2>3. pipe[c] \o fork.insn \in Seq(Insns) /\ Len(pipe[c] \o fork.insn) <= Cuts
    <3>1. pipe[c] \in Seq(Insns)
      OBVIOUS
    <3>2. fork.insn \in Seq(Insns) /\ Len(fork.insn) <= 1
      <4>1. CASE fork.insn = <<>>
        BY <4>1
      <4>2. CASE \E i \in Insns : fork.insn = <<i>>
        BY <4>2
      <4>3. QED
        BY <4>1, <4>2
    <3>3. QED
      BY <2>1, <3>1, <3>2, SizesAssumption
  <2>4. pipe' \in [Clusters -> Seq(Insns)] /\ \A d \in Clusters : Len(pipe'[d]) <= Cuts
    BY <2>1, <2>3
  <2>5. UNCHANGED <<waitIdle, vtype, vl, vlCluster>>
    BY <1>2 DEF Take
  <2>6. QED
    BY <2>2, <2>4, <2>5
<1>3. ASSUME NEW c \in Clusters, Configure(c) PROVE TypeOK'
  <2> DEFINE i == Head(pipe[c])
             new == IF Legal(i.vtype) THEN i.vtype ELSE Vill
  <2>1. pipe[c] \in Seq(Insns) /\ pipe[c] # <<>> /\ Len(pipe[c]) <= Cuts
    BY <1>3 DEF Configure
  <2>2. i \in Insns /\ Tail(pipe[c]) \in Seq(Insns) /\ Len(Tail(pipe[c])) <= Cuts
    BY <2>1, SizesAssumption
  <2>3. /\ pipe' = [pipe EXCEPT ![c] = Tail(pipe[c])]
        /\ vtype' = [vtype EXCEPT ![c] = new]
        /\ vl' = [vl EXCEPT ![c] = NewVl(c, i)]
        /\ vlCluster' = [vlCluster EXCEPT ![c] = NewVlCluster(c, i)]
        /\ waitIdle' = [waitIdle EXCEPT ![c] = Shrinks(vtype[c], new)]
        /\ fork' = fork
    BY <1>3 DEF Configure
  <2>4. new \in Types /\ NewVl(c, i) \in Nat /\ NewVlCluster(c, i) \in Nat
    BY <2>2, InsnLemma, NewLengths DEF Types
  <2>5. Shrinks(vtype[c], new) \in BOOLEAN
    BY DEF Shrinks
  <2> HIDE DEF i, new
  <2>6. QED
    BY <2>2, <2>3, <2>4, <2>5
<1>4. ASSUME NEW c \in Clusters, Idle(c) PROVE TypeOK'
  BY <1>4 DEF Idle
<1>5. CASE UNCHANGED vars
  BY <1>5 DEF vars
<1>6. QED
  BY <1>1, <1>2, <1>3, <1>4, <1>5 DEF Next

\* The dispatchers' registers keep their types: no length becomes negative, no
\* cluster is ahead of or behind the fork by more than the registers between.
THEOREM TypeCorrect == Spec => []TypeOK
BY TypeInit, TypeNext, PTL DEF Spec

-----------------------------------------------------------------------------
(***************************************************************************)
(* The clusters agree.  There is one log of the instructions the fork has  *)
(* got, and one account of what the vector is after each of them; every    *)
(* cluster has handled a prefix of the log, holds what the account says of *)
(* it, and has the next instructions of the log before it.                 *)
(***************************************************************************)

\* The vtype and the length an instruction leaves, given the length before it.
TypeAfter(i) == IF Legal(i.vtype) THEN i.vtype ELSE Vill
LengthAfter(n, i) ==
  IF Keeps(i) THEN n
  ELSE IF ~Legal(i.vtype) THEN 0
  ELSE IF i.how = "vlmax" THEN VlmaxCluster(i.vtype) ELSE Total(i.vtype, i.avl)

\* The instructions of a log of n that have got past the fork to cluster c.
Past(c, n) == IF fork # NoInsn /\ c \notin fork.taken THEN n - 1 ELSE n

Follows(log, told, handled) ==
  /\ fork # NoInsn => Len(log) > 0 /\ fork.insn = <<log[Len(log)]>>
  /\ \A c \in Clusters :
       /\ handled[c] \in 0 .. Len(log)
       /\ vtype[c] = told[handled[c]].vtype /\ vlCluster[c] = told[handled[c]].len
       /\ handled[c] + Len(pipe[c]) = Past(c, Len(log))
       /\ \A k \in 1 .. Len(pipe[c]) : pipe[c][k] = log[handled[c] + k]

Account(log, told) ==
  \A k \in 1 .. Len(log) :
    /\ told[k].vtype = TypeAfter(log[k])
    /\ told[k].len = LengthAfter(told[k - 1].len, log[k])

OneLog ==
  \E log \in Seq(Insns) :
    \E told \in [0 .. Len(log) -> [vtype : Types, len : Nat]], handled \in [Clusters -> Nat] :
      Account(log, told) /\ Follows(log, told, handled)

LEMMA OneLogInit == Init => OneLog
<1> SUFFICES ASSUME Init PROVE OneLog
  OBVIOUS
<1> DEFINE log == <<>>
           told == [k \in 0 .. 0 |-> [vtype |-> Vill, len |-> 0]]
           handled == [c \in Clusters |-> 0]
<1>1. log \in Seq(Insns) /\ Len(log) = 0
  OBVIOUS
<1>2. told \in [0 .. Len(log) -> [vtype : Types, len : Nat]]
  BY <1>1 DEF Types
<1>3. handled \in [Clusters -> Nat]
  OBVIOUS
<1>4. Account(log, told)
  BY <1>1 DEF Account
<1>5. Follows(log, told, handled)
  BY <1>1 DEF Follows, Init, Past
<1>6. QED
  BY <1>1, <1>2, <1>3, <1>4, <1>5 DEF OneLog

LEMMA OneLogOffer ==
  ASSUME TypeOK, OneLog, NEW i \in Insns, Offer(i)
  PROVE  OneLog'
<1>1. PICK log \in Seq(Insns) :
        \E told \in [0 .. Len(log) -> [vtype : Types, len : Nat]], handled \in [Clusters -> Nat] :
          Account(log, told) /\ Follows(log, told, handled)
  BY DEF OneLog
<1>2. PICK told \in [0 .. Len(log) -> [vtype : Types, len : Nat]],
           handled \in [Clusters -> Nat] :
        Account(log, told) /\ Follows(log, told, handled)
  BY <1>1
<1> DEFINE n == Len(log)
           after == [vtype |-> TypeAfter(i), len |-> LengthAfter(told[n].len, i)]
           log2 == Append(log, i)
           told2 == [k \in 0 .. n + 1 |-> IF k = n + 1 THEN after ELSE told[k]]
<1>3. /\ n \in Nat /\ log2 \in Seq(Insns) /\ Len(log2) = n + 1 /\ log2[n + 1] = i
      /\ \A k \in 1 .. n : log2[k] = log[k]
  OBVIOUS
<1>4. after \in [vtype : Types, len : Nat]
  <2>1. told[n].len \in Nat
    BY <1>3
  <2>2. /\ i.vtype \in VTypes /\ i.avl \in Nat
        /\ VlmaxCluster(i.vtype) \in Nat /\ Total(i.vtype, i.avl) \in Nat
    <3>1. i.vtype \in VTypes /\ i.avl \in Nat
      BY InsnLemma
    <3>2. VlmaxCluster(i.vtype) \in Nat
      BY <3>1, VlmaxLemma
    <3>3. QED
      BY <3>1, <3>2 DEF Total
  <2>3. QED
    BY <2>1, <2>2 DEF TypeAfter, LengthAfter, Types
<1> HIDE DEF n, after, log2
<1>5. told2 \in [0 .. Len(log2) -> [vtype : Types, len : Nat]]
  <2>1. \A k \in 0 .. n + 1 : k = n + 1 \/ k \in 0 .. n
    BY <1>3
  <2>2. \A k \in 0 .. n : told[k] \in [vtype : Types, len : Nat]
    BY DEF n
  <2>3. QED
    BY <1>3, <1>4, <2>1, <2>2
<1>6. Account(log2, told2)
  <2>1. ASSUME NEW k \in 1 .. n
        PROVE  /\ told2[k].vtype = TypeAfter(log2[k])
               /\ told2[k].len = LengthAfter(told2[k - 1].len, log2[k])
    <3>1. told2[k] = told[k] /\ told2[k - 1] = told[k - 1] /\ log2[k] = log[k]
      BY <1>3
    <3>2. /\ told[k].vtype = TypeAfter(log[k])
          /\ told[k].len = LengthAfter(told[k - 1].len, log[k])
      BY <1>2 DEF Account, n
    <3>3. QED
      BY <3>1, <3>2
  <2>2. /\ told2[n + 1].vtype = TypeAfter(log2[n + 1])
        /\ told2[n + 1].len = LengthAfter(told2[(n + 1) - 1].len, log2[n + 1])
    <3>1. told2[n + 1] = after /\ told2[(n + 1) - 1] = told[n] /\ log2[n + 1] = i
      BY <1>3
    <3>2. QED
      BY <3>1 DEF after
  <2>3. \A k \in 1 .. n + 1 : k = n + 1 \/ k \in 1 .. n
    BY <1>3
  <2>4. QED
    BY <1>3, <2>1, <2>2, <2>3 DEF Account
<1>7. Follows(log2, told2, handled)'
  <2>1. /\ fork = NoInsn /\ fork' = [insn |-> <<i>>, taken |-> {}]
        /\ UNCHANGED <<pipe, vtype, vlCluster>>
    BY DEF Offer
  <2>2. fork' # NoInsn /\ fork'.insn = <<log2[Len(log2)]>> /\ Len(log2) > 0
    <3>1. <<i>> # <<>>
      OBVIOUS
    <3>2. fork'.insn = <<i>> /\ NoInsn.insn = <<>>
      BY <2>1 DEF NoInsn
    <3>3. fork' # NoInsn
      BY <3>1, <3>2
    <3>4. Len(log2) = n + 1 /\ n \in Nat /\ log2[n + 1] = i
      BY <1>3
    <3>5. QED
      BY <3>2, <3>3, <3>4
  <2>3. ASSUME NEW c \in Clusters
        PROVE  /\ handled[c] \in 0 .. Len(log2)
               /\ vtype'[c] = told2[handled[c]].vtype /\ vlCluster'[c] = told2[handled[c]].len
               /\ handled[c] + Len(pipe'[c]) = Past(c, Len(log2))'
               /\ \A k \in 1 .. Len(pipe'[c]) : pipe'[c][k] = log2[handled[c] + k]
    <3>1. /\ handled[c] \in 0 .. n
          /\ vtype[c] = told[handled[c]].vtype /\ vlCluster[c] = told[handled[c]].len
          /\ handled[c] + Len(pipe[c]) = n
          /\ \A k \in 1 .. Len(pipe[c]) : pipe[c][k] = log[handled[c] + k]
      BY <1>2, <2>1 DEF Follows, Past, n
    <3>2. told2[handled[c]] = told[handled[c]]
      BY <1>3, <3>1
    <3>3. Past(c, Len(log2))' = n
      BY <1>3, <2>1, <2>2 DEF Past
    <3>4. \A k \in 1 .. Len(pipe[c]) : log2[handled[c] + k] = log[handled[c] + k]
      <4>1. pipe[c] \in Seq(Insns)
        BY DEF TypeOK
      <4>2. \A k \in 1 .. Len(pipe[c]) : handled[c] + k \in 1 .. n
        BY <1>3, <3>1, <4>1
      <4>3. QED
        BY <1>3, <4>2
    <3>5. QED
      BY <1>3, <2>1, <3>1, <3>2, <3>3, <3>4
  <2>4. QED
    BY <2>2, <2>3 DEF Follows
<1> HIDE DEF told2
<1>8. QED
  BY <1>3, <1>5, <1>6, <1>7 DEF OneLog, Account

LEMMA OneLogTake ==
  ASSUME TypeOK, OneLog, NEW c \in Clusters, Take(c)
  PROVE  OneLog'
<1>1. PICK log \in Seq(Insns) :
        \E told \in [0 .. Len(log) -> [vtype : Types, len : Nat]], handled \in [Clusters -> Nat] :
          Account(log, told) /\ Follows(log, told, handled)
  BY DEF OneLog
<1>2. PICK told \in [0 .. Len(log) -> [vtype : Types, len : Nat]],
           handled \in [Clusters -> Nat] :
        Account(log, told) /\ Follows(log, told, handled)
  BY <1>1
<1> DEFINE n == Len(log)
           taken == fork.taken \cup {c}
<1>3. /\ fork # NoInsn /\ c \notin fork.taken
      /\ pipe' = [pipe EXCEPT ![c] = pipe[c] \o fork.insn]
      /\ fork' = IF taken = Clusters THEN NoInsn ELSE [fork EXCEPT !.taken = taken]
      /\ UNCHANGED <<vtype, vlCluster>>
  BY DEF Take, CanTake
<1>4. n \in Nat \ {0} /\ fork.insn = <<log[n]>>
  BY <1>2, <1>3 DEF Follows
<1>5. fork' # NoInsn => fork'.insn = fork.insn /\ fork'.taken = taken
  BY <1>3 DEF TypeOK
<1> HIDE DEF n, taken
<1>6. ASSUME NEW d \in Clusters
      PROVE  /\ handled[d] \in 0 .. n
             /\ vtype'[d] = told[handled[d]].vtype /\ vlCluster'[d] = told[handled[d]].len
             /\ handled[d] + Len(pipe'[d]) = Past(d, n)'
             /\ \A k \in 1 .. Len(pipe'[d]) : pipe'[d][k] = log[handled[d] + k]
  <2>1. /\ handled[d] \in 0 .. n
        /\ vtype[d] = told[handled[d]].vtype /\ vlCluster[d] = told[handled[d]].len
        /\ handled[d] + Len(pipe[d]) = Past(d, n)
        /\ \A k \in 1 .. Len(pipe[d]) : pipe[d][k] = log[handled[d] + k]
        /\ pipe[d] \in Seq(Insns)
    BY <1>2 DEF Follows, n, TypeOK
  <2>2. CASE d = c
    <3>1. pipe'[c] = Append(pipe[c], log[n])
      BY <1>3, <1>4, <2>1, <2>2 DEF TypeOK
    <3>2. handled[c] + Len(pipe[c]) = n - 1
      BY <1>3, <2>1, <2>2 DEF Past
    <3>3. Past(c, n)' = n
      BY <1>5 DEF Past, taken
    <3>4. ASSUME NEW k \in 1 .. Len(pipe'[c])
          PROVE  pipe'[c][k] = log[handled[c] + k]
      <4>1. Len(pipe'[c]) = Len(pipe[c]) + 1 /\ Len(pipe[c]) \in Nat
        BY <2>1, <2>2, <3>1
      <4>2. CASE k = Len(pipe[c]) + 1
        <5>1. pipe'[c][k] = log[n]
          BY <2>1, <2>2, <3>1, <4>2
        <5>2. handled[c] + k = n
          BY <1>4, <2>1, <2>2, <3>2, <4>1, <4>2
        <5>3. QED
          BY <5>1, <5>2
      <4>3. CASE k \in 1 .. Len(pipe[c])
        BY <2>1, <2>2, <3>1, <4>3
      <4>4. QED
        BY <4>1, <4>2, <4>3
    <3>5. handled[c] + Len(pipe'[c]) = n
      <4>1. Len(pipe'[c]) = Len(pipe[c]) + 1 /\ Len(pipe[c]) \in Nat
        BY <2>1, <2>2, <3>1
      <4> DEFINE a == handled[c]
                 b == Len(pipe[c])
                 b2 == Len(pipe'[c])
      <4>2. a \in Nat /\ b \in Nat /\ n \in Nat /\ a + b = n - 1 /\ b2 = b + 1
        BY <1>4, <3>2, <4>1
      <4> HIDE DEF a, b, b2
      <4>3. a + b2 = n
        BY <4>2
      <4>4. QED
        BY <4>3 DEF a, b2
    <3>6. QED
      BY <1>3, <2>1, <2>2, <3>3, <3>4, <3>5
  <2>3. CASE d # c
    <3>1. pipe'[d] = pipe[d]
      BY <1>3, <2>3 DEF TypeOK
    <3>2. Past(d, n)' = Past(d, n)
      <4>1. CASE taken = Clusters
        BY <1>3, <2>3, <4>1 DEF Past, taken
      <4>2. CASE taken # Clusters
        <5>1. fork' # NoInsn
          <6>1. fork'.insn = <<log[n]>>
            BY <1>3, <1>4, <4>2 DEF TypeOK
          <6>2. <<log[n]>> # <<>>
            OBVIOUS
          <6>3. NoInsn.insn = <<>>
            BY DEF NoInsn
          <6>4. QED
            BY <6>1, <6>2, <6>3
        <5>2. QED
          BY <1>3, <1>5, <2>3, <5>1 DEF Past, taken
      <4>3. QED
        BY <4>1, <4>2
    <3>3. QED
      BY <1>3, <2>1, <3>1, <3>2
  <2>4. QED
    BY <2>2, <2>3
<1>7. Follows(log, told, handled)'
  <2>1. fork' # NoInsn => Len(log) > 0 /\ fork'.insn = <<log[Len(log)]>>
    BY <1>4, <1>5 DEF n
  <2>2. QED
    BY <1>6, <2>1 DEF Follows, n
<1>8. QED
  BY <1>2, <1>7 DEF OneLog, Account

LEMMA OneLogConfigure ==
  ASSUME TypeOK, OneLog, NEW c \in Clusters, Configure(c)
  PROVE  OneLog'
<1>1. PICK log \in Seq(Insns) :
        \E told \in [0 .. Len(log) -> [vtype : Types, len : Nat]], handled \in [Clusters -> Nat] :
          Account(log, told) /\ Follows(log, told, handled)
  BY DEF OneLog
<1>2. PICK told \in [0 .. Len(log) -> [vtype : Types, len : Nat]],
           handled \in [Clusters -> Nat] :
        Account(log, told) /\ Follows(log, told, handled)
  BY <1>1
<1> DEFINE n == Len(log)
           i == Head(pipe[c])
           handled2 == [handled EXCEPT ![c] = handled[c] + 1]
<1>3. /\ pipe[c] # <<>> /\ fork' = fork
      /\ pipe' = [pipe EXCEPT ![c] = Tail(pipe[c])]
      /\ vtype' = [vtype EXCEPT ![c] = TypeAfter(i)]
      /\ vlCluster' = [vlCluster EXCEPT ![c] = LengthAfter(vlCluster[c], i)]
  BY DEF Configure, TypeAfter, LengthAfter, NewVlCluster
<1>4. /\ handled[c] \in 0 .. n /\ n \in Nat
      /\ vlCluster[c] = told[handled[c]].len
      /\ handled[c] + Len(pipe[c]) = Past(c, n)
      /\ \A k \in 1 .. Len(pipe[c]) : pipe[c][k] = log[handled[c] + k]
      /\ pipe[c] \in Seq(Insns) /\ Len(pipe[c]) \in Nat \ {0}
  BY <1>2, <1>3 DEF Follows, TypeOK
<1> HIDE DEF n, i
<1>5. i = log[handled[c] + 1] /\ handled[c] + 1 \in 1 .. n
  <2>1. i = pipe[c][1]
    BY <1>3, <1>4 DEF i
  <2>2. Past(c, n) \in {n - 1, n}
    BY DEF Past
  <2>3. QED
    BY <1>4, <2>1, <2>2
<1>6. /\ told[handled[c] + 1].vtype = TypeAfter(i)
      /\ told[handled[c] + 1].len = LengthAfter(vlCluster[c], i)
  <2>1. /\ told[handled[c] + 1].vtype = TypeAfter(log[handled[c] + 1])
        /\ told[handled[c] + 1].len
             = LengthAfter(told[(handled[c] + 1) - 1].len, log[handled[c] + 1])
    BY <1>2, <1>5 DEF Account, n
  <2>2. (handled[c] + 1) - 1 = handled[c]
    BY <1>4
  <2>3. QED
    BY <1>4, <1>5, <2>1, <2>2
<1>7. handled2 \in [Clusters -> Nat]
  BY <1>4
<1>8. ASSUME NEW d \in Clusters
      PROVE  /\ handled2[d] \in 0 .. n
             /\ vtype'[d] = told[handled2[d]].vtype /\ vlCluster'[d] = told[handled2[d]].len
             /\ handled2[d] + Len(pipe'[d]) = Past(d, n)'
             /\ \A k \in 1 .. Len(pipe'[d]) : pipe'[d][k] = log[handled2[d] + k]
  <2>1. /\ handled[d] \in 0 .. n
        /\ vtype[d] = told[handled[d]].vtype /\ vlCluster[d] = told[handled[d]].len
        /\ handled[d] + Len(pipe[d]) = Past(d, n)
        /\ \A k \in 1 .. Len(pipe[d]) : pipe[d][k] = log[handled[d] + k]
    BY <1>2 DEF Follows, n
  <2>2. Past(d, n)' = Past(d, n)
    BY <1>3 DEF Past
  <2>3. CASE d = c
    <3>1. handled2[c] = handled[c] + 1 /\ pipe'[c] = Tail(pipe[c])
      BY <1>3, <2>3 DEF TypeOK
    <3>2. vtype'[c] = TypeAfter(i) /\ vlCluster'[c] = LengthAfter(vlCluster[c], i)
      BY <1>3, <2>3 DEF TypeOK
    <3>3. /\ Len(Tail(pipe[c])) = Len(pipe[c]) - 1
          /\ \A k \in 1 .. Len(Tail(pipe[c])) : Tail(pipe[c])[k] = pipe[c][k + 1]
      BY <1>3, <1>4
    <3>4. \A k \in 1 .. Len(Tail(pipe[c])) : Tail(pipe[c])[k] = log[(handled[c] + 1) + k]
      <4>1. ASSUME NEW k \in 1 .. Len(Tail(pipe[c]))
            PROVE  Tail(pipe[c])[k] = log[(handled[c] + 1) + k]
        <5>1. k + 1 \in 1 .. Len(pipe[c]) /\ handled[c] + (k + 1) = (handled[c] + 1) + k
          BY <1>4, <3>3
        <5>2. QED
          BY <1>4, <3>3, <5>1
      <4>2. QED
        BY <4>1
    <3>5. (handled[c] + 1) + Len(Tail(pipe[c])) = Past(c, n)
      BY <1>4, <3>3
    <3> HIDE DEF handled2
    <3>6. QED
      BY <1>5, <1>6, <2>2, <2>3, <3>1, <3>2, <3>4, <3>5
  <2>4. CASE d # c
    <3>1. /\ handled2[d] = handled[d] /\ pipe'[d] = pipe[d]
          /\ vtype'[d] = vtype[d] /\ vlCluster'[d] = vlCluster[d]
      BY <1>3, <2>4 DEF TypeOK
    <3> HIDE DEF handled2
    <3>2. QED
      BY <2>1, <2>2, <3>1
  <2>5. QED
    BY <2>3, <2>4
<1> HIDE DEF handled2
<1>9. Follows(log, told, handled2)'
  <2>1. fork' # NoInsn => Len(log) > 0 /\ fork'.insn = <<log[Len(log)]>>
    BY <1>2, <1>3 DEF Follows
  <2>2. QED
    BY <1>8, <2>1 DEF Follows, n
<1>10. QED
  BY <1>2, <1>7, <1>9 DEF OneLog, Account

LEMMA OneLogNext == TypeOK /\ OneLog /\ [Next]_vars => OneLog'
<1> SUFFICES ASSUME TypeOK, OneLog, [Next]_vars PROVE OneLog'
  OBVIOUS
<1>1. ASSUME UNCHANGED <<fork, pipe, vtype, vlCluster>> PROVE OneLog'
  <2>1. PICK log \in Seq(Insns) :
          \E told \in [0 .. Len(log) -> [vtype : Types, len : Nat]], handled \in [Clusters -> Nat] :
            Account(log, told) /\ Follows(log, told, handled)
    BY DEF OneLog
  <2>2. PICK told \in [0 .. Len(log) -> [vtype : Types, len : Nat]],
             handled \in [Clusters -> Nat] :
          Account(log, told) /\ Follows(log, told, handled)
    BY <2>1
  <2>3. Follows(log, told, handled)'
    BY <1>1, <2>2 DEF Follows, Past
  <2>4. QED
    BY <2>2, <2>3 DEF OneLog, Account
<1>2. ASSUME NEW c \in Clusters, Idle(c) PROVE OneLog'
  BY <1>1, <1>2 DEF Idle
<1>3. CASE UNCHANGED vars
  BY <1>1, <1>3 DEF vars
<1>4. QED
  BY <1>2, <1>3, OneLogOffer, OneLogTake, OneLogConfigure DEF Next

LEMMA OneLogAgrees == TypeOK /\ OneLog => LevelClustersAgree
<1> SUFFICES ASSUME TypeOK, OneLog, NEW c \in Clusters, NEW d \in Clusters,
                    Handled(c) = Handled(d)
             PROVE  vtype[c] = vtype[d] /\ vlCluster[c] = vlCluster[d]
  BY DEF LevelClustersAgree
<1>1. PICK log \in Seq(Insns) :
        \E told \in [0 .. Len(log) -> [vtype : Types, len : Nat]], handled \in [Clusters -> Nat] :
          Account(log, told) /\ Follows(log, told, handled)
  BY DEF OneLog
<1>2. PICK told \in [0 .. Len(log) -> [vtype : Types, len : Nat]],
           handled \in [Clusters -> Nat] :
        Account(log, told) /\ Follows(log, told, handled)
  BY <1>1
<1>3. /\ handled[c] + Len(pipe[c]) = Past(c, Len(log))
      /\ handled[d] + Len(pipe[d]) = Past(d, Len(log))
      /\ vtype[c] = told[handled[c]].vtype /\ vlCluster[c] = told[handled[c]].len
      /\ vtype[d] = told[handled[d]].vtype /\ vlCluster[d] = told[handled[d]].len
  BY <1>2 DEF Follows
<1>4. pipe[c] \in Seq(Insns) /\ pipe[d] \in Seq(Insns)
  BY DEF TypeOK
<1>5. fork = NoInsn => fork.taken = {}
  BY DEF NoInsn
<1>6. handled[c] = handled[d]
  <2> DEFINE n == Len(log)
             x == Len(pipe[c])
             y == Len(pipe[d])
  <2>1. /\ handled[c] \in Nat /\ handled[d] \in Nat
        /\ n \in Nat /\ x \in Nat /\ y \in Nat
    BY <1>4
  <2>2. /\ Handled(c) = x - (IF c \in fork.taken THEN 1 ELSE 0)
        /\ Handled(d) = y - (IF d \in fork.taken THEN 1 ELSE 0)
        /\ handled[c] + x = Past(c, n) /\ handled[d] + y = Past(d, n)
    BY <1>3 DEF Handled
  <2> HIDE DEF n, x, y
  <2>3. CASE fork = NoInsn
    <3>1. Past(c, n) = n /\ Past(d, n) = n
      BY <2>3 DEF Past
    <3>2. x = y
      <4>1. c \notin fork.taken /\ d \notin fork.taken
        BY <1>5, <2>3
      <4>2. x - 0 = y - 0
        BY <4>1 DEF Handled, x, y
      <4>3. QED
        BY <2>1, <4>2
    <3>3. QED
      BY <2>1, <2>2, <3>1, <3>2
  <2>4. CASE fork # NoInsn
    <3> DEFINE less(e) == IF e \in fork.taken THEN 1 ELSE 0
    <3>1. Past(c, n) = n - 1 + less(c) /\ Past(d, n) = n - 1 + less(d)
      <4>1. ASSUME NEW e \in Clusters PROVE Past(e, n) = n - 1 + less(e)
        <5>1. CASE e \in fork.taken
          BY <2>1, <2>4, <5>1 DEF Past
        <5>2. CASE e \notin fork.taken
          BY <2>1, <2>4, <5>2 DEF Past
        <5>3. QED
          BY <5>1, <5>2
      <4>2. QED
        BY <4>1
    <3>2. x - less(c) = y - less(d)
      BY <2>2
    <3>3. less(c) \in {0, 1} /\ less(d) \in {0, 1}
      OBVIOUS
    <3> HIDE DEF less
    <3>4. QED
      BY <2>1, <2>2, <3>1, <3>2, <3>3
  <2>5. QED
    BY <2>3, <2>4
<1>7. QED
  BY <1>3, <1>6

\* Clusters that have handled the same instructions work on the same vector,
\* however far the registers between the fork and the clusters let them drift
\* apart, for every order in which they take, handle and wait (req_fork_cut.sv,
\* ara_dispatcher.sv:470-560).
THEOREM LevelClustersAlwaysAgree == Spec => []LevelClustersAgree
<1>1. Init => TypeOK /\ OneLog
  BY TypeInit, OneLogInit
<1>2. TypeOK /\ OneLog /\ [Next]_vars => (TypeOK /\ OneLog)'
  BY TypeNext, OneLogNext
<1>3. QED
  BY <1>1, <1>2, OneLogAgrees, PTL DEF Spec

-----------------------------------------------------------------------------
(***************************************************************************)
(* The shares.  The elements of a vector that live in a cluster are counted*)
(* by numbering them: the j-th one lies in row j \div NrLanes, in lane     *)
(* j % NrLanes of that cluster.                                            *)
(***************************************************************************)

\* The longest vector of a supported type fills whole rows, and a cluster's
\* part of it fills its lanes.
LEMMA WholeRowsLemma ==
  ASSUME NEW t \in VTypes, Legal(t)
  PROVE  \E m \in Nat : Vlmax(t) = NrLanes * m /\ VlmaxCluster(t) = Row * m
<1> DEFINE p == 2 ^ t.sew
           L == NrLanes
           C == NrClusters
<1>1. t.sew \in 0 .. 3 /\ t.lmul \in -3 .. 3
  BY VTypesAssumption
<1>2. p \in {1, 2, 4, 8} /\ p <= ELENB
  BY <1>1, PowerLemma DEF Legal
<1>3. L \in Nat \ {0} /\ C \in Nat \ {0} /\ VLENB \in Nat /\ ELENB \in {1, 2, 4, 8}
  BY SizesAssumption
<1>4. PICK e \in {1, 2, 4, 8} : ELENB = p * e
  <2> HIDE DEF p
  <2> QED  BY <1>2, <1>3
<1>5. PICK k \in Nat : VLENB = (ELENB * L) * k
  <2>1. ELENB * L \in Nat \ {0} /\ VLENB % (ELENB * L) = 0
    BY <1>3, SizesAssumption
  <2>2. VLENB = (ELENB * L) * (VLENB \div (ELENB * L)) + 0 /\ VLENB \div (ELENB * L) \in Nat
    BY <1>3, <2>1, DivModParts
  <2>3. QED
    BY <2>1, <2>2
<1> DEFINE w == (e * L) * k
<1>6. w \in Nat
  BY <1>3, <1>4, <1>5
<1>7. VLENB \div p = w
  <2> HIDE DEF p, L
  <2>1. VLENB = p * w + 0 /\ p \in Nat \ {0} /\ 0 \in 0 .. p - 1
    <3>1. ELENB \in Nat /\ p \in Nat \ {0} /\ e \in Nat /\ L \in Nat
      BY <1>2, <1>3, <1>4
    <3>2. ((p * e) * L) * k = p * ((e * L) * k)
      BY <3>1, <1>5
    <3>3. QED
      BY <1>4, <1>5, <3>1, <3>2
  <2> HIDE DEF w
  <2>2. QED
    BY <1>6, <2>1, DivModUnique
<1>8. Vlmax(t) = Scale(w, t.lmul) /\ VlmaxCluster(t) = Scale(w * C, t.lmul)
  BY <1>7 DEF Vlmax, VlmaxCluster
<1>9. CASE t.lmul >= 0
  <2> DEFINE q == 2 ^ t.lmul
  <2>1. q \in Nat
    <3>1. t.lmul \in 0 .. 3
      BY <1>1, <1>9
    <3>2. q \in {1, 2, 4, 8}
      BY <3>1, PowerLemma
    <3> HIDE DEF q
    <3>3. QED
      BY <3>2
  <2>2. Vlmax(t) = w * q /\ VlmaxCluster(t) = (w * C) * q
    BY <1>8, <1>9 DEF Scale
  <2> HIDE DEF q
  <2>3. ((e * L) * k) * q = L * ((e * k) * q) /\ (((e * L) * k) * C) * q = (C * L) * ((e * k) * q)
    BY <1>3, <1>4, <1>5, <2>1
  <2>4. (e * k) * q \in Nat
    BY <1>4, <1>5, <2>1
  <2>5. QED
    BY <2>2, <2>3, <2>4 DEF Row
<1>10. CASE ~(t.lmul >= 0)
  <2> DEFINE q == 2 ^ (-t.lmul)
  <2>1. q \in {1, 2, 4, 8}
    <3>1. -t.lmul \in 0 .. 3
      BY <1>1, <1>10
    <3>2. QED
      BY <3>1, PowerLemma
  <2>2. Vlmax(t) = w \div q /\ VlmaxCluster(t) = (w * C) \div q /\ ELENB \div q >= p
    BY <1>8, <1>10 DEF Scale, Legal
  <2> HIDE DEF q, p
  <2>3. PICK f \in {1, 2, 4, 8} : e = q * f
    <3>1. \A x, y, z \in {1, 2, 4, 8} :
            (x * y) \div z >= x => \E g \in {1, 2, 4, 8} : y = z * g
      <4>1. ASSUME NEW x \in {1, 2, 4, 8}, NEW y \in {1, 2, 4, 8}, NEW z \in {1, 2, 4, 8},
                   (x * y) \div z >= x
            PROVE  \E g \in {1, 2, 4, 8} : y = z * g
        <5>1. y >= z
          BY <4>1
        <5>2. QED
          BY <5>1
      <4>2. QED
        BY <4>1
    <3>2. QED
      BY <1>2, <1>4, <2>1, <2>2, <3>1
  <2>4. f * k \in Nat /\ q \in Nat \ {0} /\ 0 \in 0 .. q - 1
    BY <1>5, <2>1, <2>3
  <2>5. w = q * (L * (f * k)) + 0 /\ w * C = q * ((C * L) * (f * k)) + 0
    BY <1>3, <1>5, <2>1, <2>3
  <2>6. L * (f * k) \in Nat /\ (C * L) * (f * k) \in Nat
    BY <1>3, <1>5, <2>3
  <2> HIDE DEF w
  <2>7. w \div q = L * (f * k) /\ (w * C) \div q = (C * L) * (f * k)
    BY <2>4, <2>5, <2>6, DivModUnique
  <2>8. QED
    BY <2>2, <2>4, <2>7 DEF Row
<1>11. QED
  BY <1>9, <1>10

\* The number of elements of a vector of n elements in cluster c.
Part(c, n) == WholeRows(n) + Remainder(c, n)

\* The j-th of them.
Element(c, j) == Row * (j \div NrLanes) + (c * NrLanes + (j % NrLanes))

\* Where the parts of a row lie.
LEMMA RowParts ==
  ASSUME NEW c \in Clusters
  PROVE  /\ c \in Nat /\ c * NrLanes \in Nat
         /\ \A b \in 0 .. NrLanes - 1 : c * NrLanes + b \in 0 .. Row - 1
<1>1. NrLanes \in Nat \ {0} /\ NrClusters \in Nat \ {0} /\ c \in 0 .. NrClusters - 1
  BY SizesAssumption DEF Clusters
<1>2. c + 1 <= NrClusters /\ c \in Nat
  BY <1>1
<1>3. (c + 1) * NrLanes <= NrClusters * NrLanes /\ (c + 1) * NrLanes = c * NrLanes + NrLanes
  BY <1>1, <1>2
<1>4. c * NrLanes \in Nat
  BY <1>1, <1>2
<1> DEFINE low == c * NrLanes
<1>5. low \in Nat /\ low + NrLanes <= Row
  BY <1>3, <1>4 DEF Row
<1> HIDE DEF low
<1>6. \A b \in 0 .. NrLanes - 1 : low + b \in 0 .. Row - 1
  BY <1>1, <1>5, RowLemma
<1>7. QED
  BY <1>2, <1>4, <1>6 DEF low

\* An element is where it should be, and tells which one it is.
LEMMA ElementLemma ==
  ASSUME NEW c \in Clusters, NEW j \in Nat
  PROVE  /\ Element(c, j) \in Nat
         /\ Element(c, j) \div Row = j \div NrLanes
         /\ Element(c, j) % Row = c * NrLanes + (j % NrLanes)
         /\ Element(c, j) \div NrLanes = NrClusters * (j \div NrLanes) + c
         /\ (Element(c, j) \div NrLanes) % NrClusters = c
<1> DEFINE a == j \div NrLanes
           b == j % NrLanes
<1>1. NrLanes \in Nat \ {0} /\ NrClusters \in Nat \ {0} /\ Row \in Nat \ {0}
  BY SizesAssumption, RowLemma
<1>2. a \in Nat /\ b \in 0 .. NrLanes - 1
  BY <1>1, DivModParts
<1>3. c * NrLanes + b \in 0 .. Row - 1 /\ c \in 0 .. NrClusters - 1
  BY <1>2, RowParts DEF Clusters
<1>4. Element(c, j) = Row * a + (c * NrLanes + b)
  BY DEF Element
<1> HIDE DEF a, b
<1>5. Element(c, j) \in Nat
  BY <1>1, <1>2, <1>3, <1>4
<1>6. Element(c, j) \div Row = a /\ Element(c, j) % Row = c * NrLanes + b
  <2> DEFINE r == c * NrLanes + b
  <2>1. r \in 0 .. Row - 1 /\ Element(c, j) = Row * a + r
    BY <1>3, <1>4
  <2> HIDE DEF r
  <2>2. Element(c, j) \div Row = a /\ Element(c, j) % Row = r
    BY <1>1, <1>2, <2>1, DivModUnique
  <2>3. QED
    BY <2>2 DEF r
<1>7. Element(c, j) = NrLanes * (NrClusters * a + c) + b /\ NrClusters * a + c \in Nat
  <2>1. (NrClusters * NrLanes) * a + (c * NrLanes + b) = NrLanes * (NrClusters * a + c) + b
    BY <1>1, <1>2, <1>3
  <2>2. QED
    BY <1>1, <1>2, <1>3, <1>4, <2>1 DEF Row
<1>8. Element(c, j) \div NrLanes = NrClusters * a + c
  BY <1>1, <1>2, <1>7, DivModUnique
<1>9. (NrClusters * a + c) % NrClusters = c
  BY <1>1, <1>2, <1>3, DivModUnique
<1>10. QED
  BY <1>5, <1>6, <1>8, <1>9 DEF a, b

\* Which numbers are those of elements below n.
LEMMA PartLemma ==
  ASSUME NEW c \in Clusters, NEW n \in Nat, NEW a \in Nat, NEW b \in 0 .. NrLanes - 1
  PROVE  NrLanes * a + b < Part(c, n) <=> Row * a + (c * NrLanes + b) < n
<1> DEFINE q == n \div Row
           rem == n % Row
           low == c * NrLanes
           m == Remainder(c, n)
<1>1. NrLanes \in Nat \ {0} /\ Row \in Nat \ {0}
  BY SizesAssumption, RowLemma
<1>2. q \in Nat /\ rem \in 0 .. Row - 1 /\ n = Row * q + rem
  BY <1>1, DivModParts
<1>3. low \in Nat /\ low + b \in 0 .. Row - 1 /\ (c + 1) * NrLanes = low + NrLanes
  BY <1>1, RowParts
<1>4. m = IF rem >= low + NrLanes THEN NrLanes ELSE IF rem >= low THEN rem - low ELSE 0
  BY <1>3 DEF Remainder
<1>5. Part(c, n) = q * NrLanes + m
  BY DEF Part, WholeRows
<1> HIDE DEF q, rem, low, m
<1>6. m \in 0 .. NrLanes /\ (b < m <=> low + b < rem)
  BY <1>1, <1>2, <1>3, <1>4
<1>7. CASE a < q
  <2>1. a + 1 <= q
    BY <1>2, <1>7
  <2>2. NrLanes * a + NrLanes <= q * NrLanes /\ Row * a + Row <= Row * q
    <3>1. PICK d \in Nat : q = a + 1 + d
      <4>1. q - (a + 1) \in Nat /\ q = a + 1 + (q - (a + 1))
        BY <1>2, <2>1
      <4>2. QED
        BY <4>1
    <3>2. q * NrLanes = NrLanes * a + NrLanes + NrLanes * d /\ NrLanes * d \in Nat
      BY <1>1, <3>1
    <3>3. Row * q = Row * a + Row + Row * d /\ Row * d \in Nat
      BY <1>1, <3>1
    <3>4. QED
      BY <1>1, <3>2, <3>3
  <2> DEFINE x == NrLanes * a
             y == Row * a
             x2 == q * NrLanes
             y2 == Row * q
  <2>3. x \in Nat /\ y \in Nat /\ x2 \in Nat /\ y2 \in Nat
    BY <1>1, <1>2
  <2>4. x + NrLanes <= x2 /\ y + Row <= y2 /\ n = y2 + rem /\ Part(c, n) = x2 + m
    BY <1>2, <1>5, <2>2
  <2> HIDE DEF x, y, x2, y2
  <2>5. x + b < Part(c, n) /\ y + (low + b) < n
    BY <1>1, <1>2, <1>3, <1>6, <2>3, <2>4
  <2>6. QED
    BY <2>5 DEF x, y, low
<1>8. CASE a = q
  <2> DEFINE x == NrLanes * a
             y == Row * a
  <2>1. x \in Nat /\ y \in Nat
    BY <1>1
  <2>2. n = y + rem /\ Part(c, n) = x + m
    BY <1>1, <1>2, <1>5, <1>8
  <2> HIDE DEF x, y
  <2>3. x + b < Part(c, n) <=> y + (low + b) < n
    BY <1>1, <1>2, <1>3, <1>6, <2>1, <2>2
  <2>4. QED
    BY <2>3 DEF x, y, low
<1>9. CASE q < a
  <2>2. q * NrLanes + NrLanes <= NrLanes * a /\ Row * q + Row <= Row * a
    <3>1. PICK d \in Nat : a = q + 1 + d
      <4>1. a - (q + 1) \in Nat /\ a = q + 1 + (a - (q + 1))
        BY <1>2, <1>9
      <4>2. QED
        BY <4>1
    <3>2. NrLanes * a = q * NrLanes + NrLanes + NrLanes * d /\ NrLanes * d \in Nat
      BY <1>1, <1>2, <3>1
    <3>3. Row * a = Row * q + Row + Row * d /\ Row * d \in Nat
      BY <1>1, <1>2, <3>1
    <3>4. QED
      BY <1>1, <1>2, <3>2, <3>3
  <2> DEFINE x == NrLanes * a
             y == Row * a
             x2 == q * NrLanes
             y2 == Row * q
  <2>3. x \in Nat /\ y \in Nat /\ x2 \in Nat /\ y2 \in Nat
    BY <1>1, <1>2
  <2>4. x2 + NrLanes <= x /\ y2 + Row <= y /\ n = y2 + rem /\ Part(c, n) = x2 + m
    BY <1>2, <1>5, <2>2
  <2> HIDE DEF x, y, x2, y2
  <2>5. ~(x + b < Part(c, n)) /\ ~(y + (low + b) < n)
    BY <1>1, <1>2, <1>3, <1>6, <2>3, <2>4
  <2>6. QED
    BY <2>5 DEF x, y, low
<1>10. QED
  BY <1>2, <1>7, <1>8, <1>9

LEMMA OwnedCount ==
  ASSUME NEW c \in Clusters, NEW n \in Nat
  PROVE  Cardinality(Owned(c, n)) = Part(c, n)
<1> DEFINE K == Part(c, n)
           S == 0 .. K - 1
           f == [j \in S |-> Element(c, j)]
<1>1. NrLanes \in Nat \ {0} /\ NrClusters \in Nat \ {0} /\ Row \in Nat \ {0}
  BY SizesAssumption, RowLemma
<1>2. K \in Nat
  <2>1. WholeRows(n) \in Nat
    <3>1. n \div Row \in Nat
      BY <1>1, DivModParts
    <3>2. QED
      BY <1>1, <3>1 DEF WholeRows
  <2>2. Remainder(c, n) \in Nat
    BY <1>1, RemainderLemma
  <2>3. QED
    BY <2>1, <2>2 DEF Part
<1> HIDE DEF K
<1>3. ASSUME NEW j \in Nat
      PROVE  j < K <=> Element(c, j) < n
  <2>1. j \div NrLanes \in Nat /\ j % NrLanes \in 0 .. NrLanes - 1
        /\ j = NrLanes * (j \div NrLanes) + (j % NrLanes)
    BY <1>1, DivModParts
  <2>2. NrLanes * (j \div NrLanes) + (j % NrLanes) < Part(c, n)
          <=> Row * (j \div NrLanes) + (c * NrLanes + (j % NrLanes)) < n
    BY <2>1, PartLemma
  <2>3. QED
    BY <2>1, <2>2 DEF Element, K
<1>4. f \in [S -> Owned(c, n)]
  <2>1. ASSUME NEW j \in S PROVE Element(c, j) \in Owned(c, n)
    <3>1. j \in Nat /\ j < K
      BY <1>2
    <3>2. /\ Element(c, j) \in Nat /\ Element(c, j) < n
          /\ (Element(c, j) \div NrLanes) % NrClusters = c
      BY <1>3, <3>1, ElementLemma
    <3>3. QED
      BY <3>2 DEF Owned
  <2>2. QED
    BY <2>1
<1>5. ASSUME NEW j \in S, NEW k \in S, f[j] = f[k]
      PROVE  j = k
  <2>1. j \in Nat /\ k \in Nat /\ Element(c, j) = Element(c, k)
    BY <1>2, <1>5
  <2> DEFINE low == c * NrLanes
  <2>2. /\ j \div NrLanes = k \div NrLanes
        /\ low + (j % NrLanes) = low + (k % NrLanes)
    BY <2>1, ElementLemma
  <2>3. /\ j = NrLanes * (j \div NrLanes) + (j % NrLanes)
        /\ k = NrLanes * (k \div NrLanes) + (k % NrLanes)
        /\ j % NrLanes \in Nat /\ k % NrLanes \in Nat
    BY <1>1, <2>1, DivModParts
  <2>4. low \in Nat
    BY RowParts
  <2> HIDE DEF low
  <2>5. j % NrLanes = k % NrLanes
    BY <2>2, <2>3, <2>4
  <2>6. QED
    BY <2>2, <2>3, <2>5
<1>6. ASSUME NEW i \in Owned(c, n)
      PROVE  \E j \in S : f[j] = i
  <2> DEFINE a == (i \div NrLanes) \div NrClusters
             b == i % NrLanes
             j == NrLanes * a + b
  <2>1. i \in Nat /\ i < n /\ (i \div NrLanes) % NrClusters = c
    BY DEF Owned
  <2>2. /\ i \div NrLanes \in Nat /\ b \in 0 .. NrLanes - 1
        /\ i = NrLanes * (i \div NrLanes) + b
    BY <1>1, <2>1, DivModParts
  <2>3. a \in Nat /\ i \div NrLanes = NrClusters * a + c
    BY <1>1, <2>1, <2>2, DivModParts
  <2>4. c \in Nat
    BY RowParts
  <2> HIDE DEF a, b
  <2>5. j \in Nat
    BY <1>1, <2>2, <2>3
  <2>6. j \div NrLanes = a /\ j % NrLanes = b
    BY <1>1, <2>2, <2>3, DivModUnique
  <2>7. Element(c, j) = Row * a + (c * NrLanes + b)
    BY <2>6 DEF Element
  <2>8. i = Row * a + (c * NrLanes + b)
    <3>1. NrLanes * (NrClusters * a + c) + b = (NrClusters * NrLanes) * a + (c * NrLanes + b)
      BY <1>1, <2>2, <2>3, <2>4
    <3>2. QED
      BY <2>2, <2>3, <3>1 DEF Row
  <2> HIDE DEF j
  <2>9. j < K
    BY <1>3, <2>1, <2>5, <2>7, <2>8
  <2>10. QED
    BY <1>2, <2>5, <2>7, <2>8, <2>9
<1>7. ExistsBijection(S, Owned(c, n))
  <2>1. f \in Bijection(S, Owned(c, n))
    <3> HIDE DEF S, f
    <3> QED  BY <1>4, <1>5, <1>6 DEF Bijection, Injection, Surjection, IsInjective
  <2>2. QED
    BY <2>1 DEF ExistsBijection
<1>8. IsFiniteSet(S) /\ Cardinality(S) = K
  <2>1. IsFiniteSet(S) /\ Cardinality(S) = IF 0 > K - 1 THEN 0 ELSE (K - 1) - 0 + 1
    BY <1>2, FS_Interval
  <2>2. QED
    BY <1>2, <2>1
<1>9. Cardinality(Owned(c, n)) = Cardinality(S)
  <2> HIDE DEF S
  <2> QED  BY <1>7, <1>8, FS_Bijection
<1>10. QED
  BY <1>8, <1>9 DEF K

\* The length a supported type with a length of at most VLMAX, or a longer one
\* that fills whole rows, leaves in a cluster.
NoExcess ==
  \A t \in VTypes, avl \in AVLs :
    Legal(t) /\ avl >= VlmaxCluster(t) => avl % Row = 0

LEMMA PartOfRows ==
  ASSUME NEW c \in Clusters, NEW m \in Nat
  PROVE  Part(c, Row * m) = NrLanes * m
<1>1. NrLanes \in Nat \ {0} /\ Row \in Nat \ {0}
  BY SizesAssumption, RowLemma
<1>2. (Row * m + 0) \div Row = m /\ (Row * m + 0) % Row = 0 /\ Row * m + 0 = Row * m
  <2>1. 0 \in 0 .. Row - 1
    BY <1>1
  <2>2. QED
    BY <1>1, <2>1, DivModUnique
<1>3. c * NrLanes \in Nat /\ (c + 1) * NrLanes = c * NrLanes + NrLanes
  BY <1>1, RowParts
<1> DEFINE low == c * NrLanes
<1> HIDE DEF low
<1>4. Remainder(c, Row * m) = IF 0 >= low + NrLanes THEN NrLanes
                              ELSE IF 0 >= low THEN 0 - low ELSE 0
  BY <1>2, <1>3 DEF Remainder, low
<1>5. Remainder(c, Row * m) = 0
  BY <1>1, <1>3, <1>4 DEF low
<1>6. WholeRows(Row * m) = m * NrLanes
  BY <1>2 DEF WholeRows
<1>7. QED
  BY <1>1, <1>5, <1>6 DEF Part

LEMMA ShareIsPart ==
  ASSUME NEW c \in Clusters, NEW t \in VTypes, Legal(t), NEW avl \in Nat,
         avl >= VlmaxCluster(t) => avl % Row = 0
  PROVE  /\ Vlmax(t) = Part(c, VlmaxCluster(t))
         /\ Share(c, t, avl) = Part(c, Total(t, avl))
<1>1. PICK m \in Nat : Vlmax(t) = NrLanes * m /\ VlmaxCluster(t) = Row * m
  BY WholeRowsLemma
<1>2. Vlmax(t) = Part(c, VlmaxCluster(t))
  BY <1>1, PartOfRows
<1>3. CASE avl >= VlmaxCluster(t)
  <2>1. Remainder(c, avl) = 0
    <3> DEFINE low == c * NrLanes
    <3>1. low \in Nat /\ (c + 1) * NrLanes = low + NrLanes /\ NrLanes \in Nat \ {0}
      BY SizesAssumption, RowParts
    <3>2. Remainder(c, avl) = IF 0 >= low + NrLanes THEN NrLanes
                              ELSE IF 0 >= low THEN 0 - low ELSE 0
      BY <1>3, <3>1 DEF Remainder
    <3> HIDE DEF low
    <3>3. QED
      BY <3>1, <3>2
  <2>2. Share(c, t, avl) = Vlmax(t) + 0 /\ Vlmax(t) \in Nat
    BY <1>3, <2>1, VlmaxLemma DEF Share
  <2>3. QED
    BY <1>2, <1>3, <2>2 DEF Total
<1>4. CASE ~(avl >= VlmaxCluster(t))
  BY <1>2, <1>4 DEF Share, Total, Part
<1>5. QED
  BY <1>2, <1>3, <1>4

LEMMA SharesNext ==
  ASSUME NoExcess, TypeOK, SharesAreOwned, [Next]_vars
  PROVE  SharesAreOwned'
<1>1. ASSUME UNCHANGED <<vl, vlCluster>> PROVE SharesAreOwned'
  BY <1>1 DEF SharesAreOwned
<1>2. ASSUME NEW c \in Clusters, Configure(c) PROVE SharesAreOwned'
  <2> DEFINE i == Head(pipe[c])
  <2>1. i \in Insns
    BY <1>2 DEF Configure, TypeOK
  <2>2. /\ vl' = [vl EXCEPT ![c] = NewVl(c, i)]
        /\ vlCluster' = [vlCluster EXCEPT ![c] = NewVlCluster(c, i)]
    BY <1>2 DEF Configure
  <2> HIDE DEF i
  <2>3. i.vtype \in VTypes /\ i.avl \in Nat /\ i.how \in {"avl", "vlmax", "keep"}
    BY <2>1, InsnLemma
  <2>4. vlCluster[c] \in Nat /\ vl[c] = Cardinality(Owned(c, vlCluster[c]))
    BY DEF TypeOK, SharesAreOwned
  <2>5. NewVl(c, i) = Cardinality(Owned(c, NewVlCluster(c, i)))
    <3>1. CASE Keeps(i)
      BY <2>4, <3>1 DEF NewVl, NewVlCluster
    <3>2. CASE ~Keeps(i) /\ ~Legal(i.vtype)
      <4>1. Owned(c, 0) = {}
        BY DEF Owned
      <4>2. QED
        BY <3>2, <4>1, FS_EmptySet DEF NewVl, NewVlCluster
    <3>3. CASE ~Keeps(i) /\ Legal(i.vtype) /\ i.how = "vlmax"
      <4>1. Vlmax(i.vtype) = Part(c, VlmaxCluster(i.vtype)) /\ VlmaxCluster(i.vtype) \in Nat
        <5>1. PICK m \in Nat : /\ Vlmax(i.vtype) = NrLanes * m
                               /\ VlmaxCluster(i.vtype) = Row * m
          BY <2>3, <3>3, WholeRowsLemma
        <5>2. QED
          BY <2>3, <5>1, PartOfRows, VlmaxLemma
      <4>2. QED
        BY <3>3, <4>1, OwnedCount DEF NewVl, NewVlCluster
    <3>4. CASE ~Keeps(i) /\ Legal(i.vtype) /\ i.how # "vlmax"
      <4>1. i.how = "avl"
        BY <2>3, <3>4 DEF Keeps
      <4>2. i.avl \in AVLs
        BY <2>1, <4>1 DEF Insns
      <4>3. i.avl >= VlmaxCluster(i.vtype) => i.avl % Row = 0
        BY <2>3, <3>4, <4>2 DEF NoExcess
      <4>4. Share(c, i.vtype, i.avl) = Part(c, Total(i.vtype, i.avl))
        BY <2>3, <3>4, <4>3, ShareIsPart
      <4>5. Total(i.vtype, i.avl) \in Nat
        BY <2>3, ShareLemma
      <4>6. QED
        BY <3>4, <4>4, <4>5, OwnedCount DEF NewVl, NewVlCluster
    <3>5. QED
      BY <3>1, <3>2, <3>3, <3>4
  <2>6. QED
    BY <2>2, <2>5 DEF SharesAreOwned, TypeOK
<1>3. QED
  BY <1>1, <1>2 DEF Next, Offer, Take, Idle, vars

\* Every cluster works with as many elements as there are elements of the whole
\* vector in it, for every length asked for and its remainder, as long as no
\* length beyond VLMAX leaves a part of a row: the dispatcher adds that part even
\* to a length it has cut (ara_dispatcher.sv:525-544).
THEOREM SharesAlwaysOwned ==
  ASSUME NoExcess
  PROVE  Spec => []SharesAreOwned
<1>1. Init => SharesAreOwned
  <2>1. \A c \in Clusters : Owned(c, 0) = {}
    BY DEF Owned
  <2>2. QED
    BY <2>1, FS_EmptySet DEF Init, SharesAreOwned
<1>2. TypeOK /\ SharesAreOwned /\ [Next]_vars => SharesAreOwned'
  BY NoExcess, SharesNext
<1>3. QED
  BY <1>1, <1>2, TypeInit, TypeNext, PTL DEF Spec
=============================================================================
