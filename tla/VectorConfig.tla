---------------------------- MODULE VectorConfig ----------------------------
(***************************************************************************)
(* How the clusters agree on the vector length.  Every configuration       *)
(* instruction is forked to the dispatchers of all the clusters            *)
(* (req_fork_cut.sv), each of which works out its own share of the vector  *)
(* (ara_dispatcher.sv): element i lives in cluster (i \div NrLanes) modulo *)
(* NrClusters, so a share is a number of whole rows and a part of one.     *)
(* The scalar core gets the answer of cluster 0.                           *)
(*                                                                         *)
(* A dispatcher step is one clock cycle of one cluster.  The registers     *)
(* between the fork and a cluster delay what it sees: the clusters handle  *)
(* the same instructions in the same order, but not at the same time.      *)
(***************************************************************************)
EXTENDS Integers, FiniteSets, Sequences

CONSTANTS
  NrClusters, NrLanes, \* powers of two
  VLENB,               \* bytes of a vector register in one cluster, a power of two
  ELENB,               \* bytes of the widest element
  VTypes,              \* the vtypes asked for: [sew, lmul], both log2
  AVLs,                \* the application vector lengths asked for
  Cuts                 \* bound: instructions between the fork and a cluster

Clusters == 0 .. NrClusters - 1
Row == NrClusters * NrLanes

ASSUME SizesAssumption ==
  /\ NrClusters \in Nat \ {0} /\ NrLanes \in Nat \ {0}
  /\ VLENB \in Nat \ {0} /\ ELENB \in {1, 2, 4, 8} /\ VLENB % (ELENB * NrLanes) = 0
  /\ Cuts \in Nat \ {0}
ASSUME VTypesAssumption == VTypes \subseteq [sew : 0 .. 3, lmul : -3 .. 3]
ASSUME AVLsAssumption == AVLs \subseteq Nat

Vill == [sew |-> 0, lmul |-> 0]

\* A configuration instruction: how it gets the vector length, and its operands.
\* The length is kept only along with the ratio of SEW and LMUL.
Insns ==
  [how : {"avl"}, vtype : VTypes, avl : AVLs] \cup
  [how : {"vlmax", "keep"}, vtype : VTypes, avl : {0}]

VARIABLES
  fork,      \* the instruction at the fork, if any, and the clusters that took it
  pipe,      \* per cluster, the instructions on their way to it
  waitIdle,  \* per cluster, state_q is WAIT_IDLE
  vtype,     \* per cluster, vtype_q
  vl,        \* per cluster, vl_q: the elements in this cluster
  vlCluster  \* per cluster, vl_cluster_q: the elements in all of them

vars == <<fork, pipe, waitIdle, vtype, vl, vlCluster>>

NoInsn == [insn |-> <<>>, taken |-> {}]
Init ==
  /\ fork = NoInsn
  /\ pipe = [c \in Clusters |-> <<>>]
  /\ waitIdle = [c \in Clusters |-> FALSE]
  /\ vtype = [c \in Clusters |-> Vill]
  /\ vl = [c \in Clusters |-> 0]
  /\ vlCluster = [c \in Clusters |-> 0]

-----------------------------------------------------------------------------
(***************************************************************************)
(* The vector length.                                                      *)
(***************************************************************************)
Scale(n, lmul) == IF lmul >= 0 THEN n * 2 ^ lmul ELSE n \div 2 ^ (-lmul)

\* vlmax and vlmax_cluster
Vlmax(t) == Scale(VLENB \div 2 ^ t.sew, t.lmul)
VlmaxCluster(t) == Scale((VLENB \div 2 ^ t.sew) * NrClusters, t.lmul)

\* SEW <= ELEN and LMUL >= SEW / ELEN
Legal(t) == 2 ^ t.sew <= ELENB /\ Scale(ELENB, t.lmul) >= 2 ^ t.sew

\* mutants: a part of a row is given to every cluster, or taken from the later ones
RemainderEverywhere(c, avl) == IF avl % Row > NrLanes THEN NrLanes ELSE avl % Row
RemainderUnchecked(c, avl) ==
  IF avl % Row >= (c + 1) * NrLanes THEN NrLanes ELSE (avl % Row) - c * NrLanes
\* what the part of a row beyond the whole rows adds to cluster c
Remainder(c, avl) ==
  LET rem == avl % Row IN
  IF rem >= (c + 1) * NrLanes THEN NrLanes
  ELSE IF rem >= c * NrLanes THEN rem - c * NrLanes ELSE 0

WholeRows(avl) == (avl \div Row) * NrLanes

\* vl_d.  The remainder is added whether the length was cut to vlmax or not.
Share(c, t, avl) ==
  (IF avl >= VlmaxCluster(t) THEN Vlmax(t) ELSE WholeRows(avl)) + Remainder(c, avl)
\* vl_cluster_d
Total(t, avl) == IF avl >= VlmaxCluster(t) THEN VlmaxCluster(t) ELSE avl

\* Only a supported vtype can keep the length.
Keeps(i) == i.how = "keep" /\ Legal(i.vtype)
NewVl(c, i) ==
  IF Keeps(i) THEN vl[c]
  ELSE IF ~Legal(i.vtype) THEN 0
  ELSE IF i.how = "vlmax" THEN Vlmax(i.vtype) ELSE Share(c, i.vtype, i.avl)
NewVlCluster(c, i) ==
  IF Keeps(i) THEN vlCluster[c]
  ELSE IF ~Legal(i.vtype) THEN 0
  ELSE IF i.how = "vlmax" THEN VlmaxCluster(i.vtype) ELSE Total(i.vtype, i.avl)

\* the backend may use registers of a larger group: wait until it is idle
Shrinks(old, new) == old.lmul >= 0 /\ new.lmul >= 0 /\ new.lmul < old.lmul

-----------------------------------------------------------------------------
(***************************************************************************)
(* Actions.                                                                *)
(***************************************************************************)
\* the scalar core offers an instruction
Offer(i) ==
  /\ fork = NoInsn
  /\ fork' = [insn |-> <<i>>, taken |-> {}]
  /\ UNCHANGED <<pipe, waitIdle, vtype, vl, vlCluster>>

\* mutant: the fork forgets who has taken the instruction
TakesTwice(c) == Len(pipe[c]) < Cuts
CanTake(c) == c \notin fork.taken /\ Len(pipe[c]) < Cuts

\* one output of the fork is handshaken; the last one consumes the instruction
Take(c) ==
  LET taken == fork.taken \cup {c} IN
  /\ fork # NoInsn /\ CanTake(c)
  /\ pipe' = [pipe EXCEPT ![c] = @ \o fork.insn]
  /\ fork' = IF taken = Clusters THEN NoInsn ELSE [fork EXCEPT !.taken = taken]
  /\ UNCHANGED <<waitIdle, vtype, vl, vlCluster>>

\* NORMAL_OPERATION: the configuration takes effect at once
Configure(c) ==
  LET i == Head(pipe[c])
      new == IF Legal(i.vtype) THEN i.vtype ELSE Vill
  IN /\ pipe[c] # <<>> /\ ~waitIdle[c]
     /\ pipe' = [pipe EXCEPT ![c] = Tail(@)]
     /\ vtype' = [vtype EXCEPT ![c] = new]
     /\ vl' = [vl EXCEPT ![c] = NewVl(c, i)]
     /\ vlCluster' = [vlCluster EXCEPT ![c] = NewVlCluster(c, i)]
     /\ waitIdle' = [waitIdle EXCEPT ![c] = Shrinks(vtype[c], new)]
     /\ UNCHANGED fork

\* WAIT_IDLE: the backend of this cluster is idle
Idle(c) ==
  /\ waitIdle[c]
  /\ waitIdle' = [waitIdle EXCEPT ![c] = FALSE]
  /\ UNCHANGED <<fork, pipe, vtype, vl, vlCluster>>

Next ==
  \/ \E i \in Insns : Offer(i)
  \/ \E c \in Clusters : Take(c) \/ Configure(c) \/ Idle(c)

Spec == Init /\ [][Next]_vars
-----------------------------------------------------------------------------
(***************************************************************************)
(* Properties.                                                             *)
(***************************************************************************)
Types == VTypes \cup {Vill}
\* The types of the registers and of what is on the way.
TypeOK ==
  /\ fork \in [insn : {<<>>} \cup {<<i>> : i \in Insns}, taken : SUBSET Clusters]
  /\ fork.taken # Clusters
  /\ pipe \in [Clusters -> Seq(Insns)]
  /\ \A c \in Clusters : Len(pipe[c]) <= Cuts
  /\ waitIdle \in [Clusters -> BOOLEAN]
  /\ vtype \in [Clusters -> Types]
  /\ vl \in [Clusters -> Nat] /\ vlCluster \in [Clusters -> Nat]

\* The elements of a vector of n elements that live in cluster c.
Owned(c, n) == {i \in 0 .. n - 1 : (i \div NrLanes) % NrClusters = c}

\* The length a cluster works with is the number of elements of the whole
\* vector that live in it, whatever the length asked for and its remainder.
SharesAreOwned == \A c \in Clusters : vl[c] = Cardinality(Owned(c, vlCluster[c]))

\* Clusters that have handled the same instructions work on the same vector:
\* their shares add up to the length the scalar core was told.
Handled(c) == Len(pipe[c]) - (IF c \in fork.taken THEN 1 ELSE 0)
LevelClustersAgree ==
  \A c, d \in Clusters : Handled(c) = Handled(d) =>
    vtype[c] = vtype[d] /\ vlCluster[c] = vlCluster[d]

\* "Maximum vector length. VLMAX = LMUL * VLEN / SEW."  No cluster is told to
\* work on more elements than its share of the register group holds.
WithinVlmax == \A c \in Clusters : vl[c] <= Vlmax(vtype[c])
=============================================================================
