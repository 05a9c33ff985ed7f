------------------------------ MODULE MCKernels ------------------------------
EXTENDS Kernels

Matmuls == {[kernel |-> "fmatmul", N |-> n] : n \in {2, 4, 6}}
JacobiJobs(heights, widths, lanes) ==
  {[kernel |-> "jacobi2d", r |-> r, c |-> c, lanes |-> l] : r \in heights, c \in widths, l \in lanes}
Jacobis == JacobiJobs(3 .. 8, {3, 7, 8, 13}, {4})
Paths == {[kernel |-> "pathfinder", rows |-> r, cols |-> c] : r \in 2 .. 4, c \in {1, 4, 5, 6, 10, 11}}
\* rows - 1 is one, or a multiple of three from six on
Shorts == {[kernel |-> "pathfinder_short", rows |-> r] : r \in {2, 7, 10}}
Gemvs == {[kernel |-> "gemv_small", rows |-> r] : r \in 1 .. 4} \cup
         {[kernel |-> "gemv", rows |-> r, cols |-> c] : r \in 1 .. 7, c \in 4 .. 7}
Sparses == {[kernel |-> "spmv", lens |-> l] : l \in [1 .. 3 -> {0, 1, 3, 4, 7}]}
Convs == {[kernel |-> "fconv2d_3x3", R |-> r, C |-> 1] : r \in {4, 8, 12}} \cup
         {[kernel |-> "iconv2d_5x5", R |-> r, C |-> 1] : r \in {2, 4, 8}} \cup
         {[kernel |-> "fconv2d_7x7", R |-> r, C |-> c] : r \in {8, 10, 12}, c \in {1, 5, 8}} \cup
         {[kernel |-> "fconv3d", R |-> r, C |-> c, CH |-> h] : r \in {8, 12}, c \in {1, 7}, h \in 1 .. 3}
GoodJobs == Convs \cup Matmuls \cup Jacobis \cup Paths \cup Shorts \cup Gemvs \cup Sparses

AnyBuild == JacobiJobs({3, 4}, {3, 7}, {2, 4, 8, 16})
AnyShort == {[kernel |-> "pathfinder_short", rows |-> r] : r \in 2 .. 10}
=============================================================================
