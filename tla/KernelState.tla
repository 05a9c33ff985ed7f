----------------------------- MODULE KernelState -----------------------------
(***************************************************************************)
(* What the models of the application kernels (apps/*/kernel and the       *)
(* convolutions) have in common.  The kernels keep rows of a matrix in     *)
(* vector registers whose roles rotate from step to step: the next row is  *)
(* loaded into the register that has just become free, or a result is held *)
(* back while the next one is computed.  What a register, a scalar or a    *)
(* cell of the memory holds is the list of what has gone into it; the      *)
(* arithmetic is left out.                                                 *)
(***************************************************************************)
EXTENDS Integers, Sequences, FiniteSets

CONSTANTS
  Vlmax,     \* elements of a register group (NrLanes, NrClusters, LMUL and VLEN)
  SliceSize, \* SLICE_SIZE of gemv.c and spmv.c
  Jobs       \* the kernels and their sizes

ASSUME SizeAssumption == Vlmax \in Nat \ {0} /\ SliceSize \in Nat \ {0}

VARIABLES
  job,    \* the kernel and its sizes
  at,     \* its loop counters
  reg,    \* what its registers and prefetched scalars hold
  out,    \* what it has stored
  loaded, \* the rows it has loaded
  done

vars == <<job, at, reg, out, loaded, done>>
Lesser(a, b) == IF a < b THEN a ELSE b

Start(kernel, at0, reg0, out0, rows) ==
  /\ job.kernel = kernel
  /\ at = at0 /\ reg = reg0 /\ out = out0 /\ loaded = rows

Running(kernel) == ~done /\ job.kernel = kernel /\ UNCHANGED job
Keeps(S) == loaded' = loaded \cup S
=============================================================================
