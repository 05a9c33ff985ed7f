------------------------------- MODULE Kernels -------------------------------
(***************************************************************************)
(* All the kernels: a behaviour is a run of one of them.                   *)
(***************************************************************************)
EXTENDS VectorKernels, ConvKernels

ASSUME KernelAssumption == \A j \in Jobs : VectorSizes(j) \/ ConvSizes(j)

ConvJob == job.kernel \in {"fconv2d_3x3", "iconv2d_5x5", "fconv2d_7x7", "fconv3d"}

Init == job \in Jobs /\ done = FALSE /\ (VectorStart \/ ConvStart)
Next == VectorNext \/ ConvNext

\* One thread runs the kernel.
Spec == Init /\ [][Next]_vars /\ WF_vars(Next)

Expected == IF ConvJob THEN ConvResult ELSE VectorResult
Rows == IF ConvJob THEN ConvRows ELSE VectorRows

(* When a kernel has ended, each of its results has been stored and is made *)
(* of what the scalar loops say, once and in this order: no register had    *)
(* been overwritten too early, rotated once too often or stored a row late. *)
ResultIsScalarLoops == done => out = Expected

(* The row loaded ahead is a row of the matrix, in the last step too (in    *)
(* jacobi2d of the matrix whose rows are Inc elements apart).               *)
LoadsInsideMatrix == loaded \subseteq 0 .. Rows - 1

(* The unrolled loops, which look at their end once in two or three steps,  *)
(* do not step over it.                                                     *)
KernelEnds == <>done
=============================================================================
