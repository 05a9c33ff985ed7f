---------------------------- MODULE VectorKernels ----------------------------
(***************************************************************************)
(* Products of matrices and vectors, a stencil and a dynamic program, each *)
(* with another rotation of registers.                                     *)
(***************************************************************************)
EXTENDS KernelState

VectorSizes(j) ==
  \/ j.kernel = "fmatmul" /\ j.N \in Nat \ {0} /\ j.N % 2 = 0
  \/ /\ j.kernel = "jacobi2d" /\ j.r \in Nat /\ j.c \in Nat /\ j.r > 2 /\ j.c > 2
     /\ j.lanes \in Nat \ {0} \* NR_LANES * NR_CLUSTERS of the build
  \/ j.kernel = "pathfinder" /\ j.rows \in Nat /\ j.rows > 1 /\ j.cols \in Nat \ {0}
  \/ j.kernel = "pathfinder_short" /\ j.rows \in Nat /\ j.rows > 1
  \/ j.kernel = "gemv_small" /\ j.rows \in Nat \ {0}
  \/ j.kernel = "gemv" /\ j.rows \in Nat \ {0} /\ j.cols \in Nat
  \/ j.kernel = "spmv" /\ j.lens \in Seq(Nat)
-----------------------------------------------------------------------------
(* fmatmul_vec_4x4 (the 8x8 and 16x16 ones have more rows and the same      *)
(* rotation): one of the rows of A of a block.  v16 and v20 take turns to   *)
(* hold a row of B, t is the column of A of the prefetched scalars.         *)

MatmulStart == Start("fmatmul", [n |-> 0, b |-> 1],
  [v16 |-> 0, v20 |-> 0, t |-> 0, acc |-> <<>>], <<>>, {0})

MatmulEven ==
  /\ Running("fmatmul") /\ at.n % 2 = 0 /\ at.n # job.N
  /\ at' = [n |-> at.n + 1, b |-> at.b + 1]
  /\ reg' = [reg EXCEPT !.acc = Append(@, <<reg.t, reg.v16>>), !.v20 = at.b, !.t = at.n + 1]
  /\ Keeps({at.b})
  /\ UNCHANGED <<out, done>>

\* The test for the last column is made after the even step only.
LastColumnSoon(n) == n + 2 = job.N \* mutant: looks one step too far
LastColumn(n) == n + 1 = job.N

MatmulOdd ==
  /\ Running("fmatmul") /\ at.n % 2 = 1 /\ ~LastColumn(at.n)
  /\ at' = [n |-> at.n + 1, b |-> at.b + 1]
  /\ reg' = [reg EXCEPT !.acc = Append(@, <<reg.t, reg.v20>>), !.v16 = at.b, !.t = at.n + 1]
  /\ Keeps({at.b})
  /\ UNCHANGED <<out, done>>

MatmulLast ==
  /\ Running("fmatmul") /\ at.n % 2 = 1 /\ LastColumn(at.n)
  /\ out' = Append(reg.acc, <<reg.t, reg.v20>>)
  /\ done' = TRUE
  /\ UNCHANGED <<at, reg, loaded>>

MatmulResult == [k \in 1 .. job.N |-> <<k - 1, k - 1>>]
-----------------------------------------------------------------------------
(* j2d_kernel_asm_v: strips of columns from left to right; in a strip the   *)
(* three registers are the row above, in the middle and below in turn, and  *)
(* the elements left and right of the strip are fetched one row ahead.  An  *)
(* element of A or B is named by its index, and a register by its row: the  *)
(* pointers into a matrix step by inc from row to row.                      *)

DataBytes == 8
Inc == job.c - 2 + (4 * job.lanes) \div DataBytes
Index(step, i, j) == i * step + j

JacobiStart == Start("jacobi2d", [j |-> 1, i |-> 0, gvl |-> 0],
  [v |-> <<0, 0, 0>>, izq |-> 0, der |-> 0], {}, {})

JacobiStrip ==
  LET gvl == Lesser(Vlmax, job.c - 2 - at.j + 1) IN
  /\ Running("jacobi2d") /\ at.i = 0 /\ at.j <= job.c - 2
  /\ at' = [at EXCEPT !.i = 1, !.gvl = gvl]
  /\ reg' = [v |-> <<0, 1, 2>>,
             izq |-> Index(Inc, 1, at.j - 1), der |-> Index(Inc, 1, at.j + gvl)]
  /\ Keeps({0, 1, 2})
  /\ UNCHANGED <<out, done>>

\* The register that has the given role in row i: 0 above, 1 middle, 2 below.
RoleOf(k, i) == ((i - 1 + k) % 3) + 1

\* Whether the row below the next one is still to be loaded.
RowAheadAlways(i) == i <= job.r - 2 \* mutant: also in the last row
RowAhead(i) == i + 1 <= job.r - 2

JacobiRow ==
  LET i == at.i
      more == RowAhead(i)
      in(k, c) == Index(Inc, reg.v[RoleOf(k, i)], c)
      columns == at.j .. at.j + at.gvl - 1
      uses(c) == {in(0, c), in(1, c), in(2, c),
                  IF c = at.j THEN reg.izq ELSE in(1, c - 1),
                  IF c = at.j + at.gvl - 1 THEN reg.der ELSE in(1, c + 1)}
  IN
  /\ Running("jacobi2d") /\ i > 0
  /\ out' = out \cup {[cell |-> Index(Inc, i, c), from |-> uses(c)] : c \in columns}
  /\ IF more
     THEN /\ reg' = [v |-> [reg.v EXCEPT ![RoleOf(0, i)] = i + 2],
                     izq |-> Index(Inc, i + 1, at.j - 1),
                     der |-> Index(Inc, i + 1, at.j + at.gvl)]
          /\ at' = [at EXCEPT !.i = i + 1]
          /\ Keeps({i + 2})
     ELSE /\ at' = [at EXCEPT !.i = 0, !.j = at.j + at.gvl]
          /\ UNCHANGED <<reg, loaded>>
  /\ done' = (~more /\ at.j + at.gvl > job.c - 2)

\* The stencil in a matrix whose rows are step elements apart.
Stencil(step) ==
  {[cell |-> Index(step, i, j),
    from |-> {Index(step, i, j), Index(step, i, j - 1), Index(step, i, j + 1),
              Index(step, i + 1, j), Index(step, i - 1, j)}] :
     i \in 1 .. job.r - 2, j \in 1 .. job.c - 2}

\* The scalar loops of j2d_s.
JacobiResult == Stencil(job.c)
-----------------------------------------------------------------------------
(* run_vector of pathfinder.c: each row of the wall is added in place to    *)
(* the row of least costs, strip by strip.  A cost is named by its column   *)
(* and row.  aux is the last cost of the strip before, aux2 the first of    *)
(* the next one.                                                            *)

Cost(c, t) == [col |-> c, row |-> t]
NoCost == [col |-> -1, row |-> -1]

PathStart == Start("pathfinder", [t |-> 0, n |-> 0], [aux |-> NoCost],
  [c \in 0 .. job.cols - 1 |-> Cost(c, 0)], {0})

\* The cost in row t + 1 is right when it is that of the least of three.
Neighbours(c, t) == {Cost(k, t) : k \in {c - 1, c, c + 1} \cap 0 .. job.cols - 1}
NextCost(c, t, three) == IF three = Neighbours(c, t) THEN Cost(c, t + 1) ELSE NoCost

PathStrip ==
  LET gvl == Lesser(job.cols - at.n, Vlmax)
      last == at.n + gvl - 1
      aux == IF at.n = 0 THEN out[0] ELSE reg.aux
      aux2 == IF at.n + gvl >= job.cols THEN out[last] ELSE out[last + 1]
      up(c) == IF c = at.n THEN aux ELSE out[c - 1]
      down(c) == IF c = last THEN aux2 ELSE out[c + 1]
  IN
  /\ Running("pathfinder")
  /\ out' = [c \in 0 .. job.cols - 1 |->
       IF c \in at.n .. last THEN NextCost(c, at.t, {out[c], up(c), down(c)}) ELSE out[c]]
  /\ reg' = [aux |-> out[last]]
  /\ Keeps({at.t + 1})
  /\ at' = IF at.n + gvl < job.cols THEN [at EXCEPT !.n = @ + gvl] ELSE [t |-> at.t + 1, n |-> 0]
  /\ done' = (at'.t = job.rows - 1)

PathResult == [c \in 0 .. job.cols - 1 |-> Cost(c, job.rows - 1)]

(* run_vector_short_m4: a row fits a register and three registers take      *)
(* turns, three rows of the wall in a step; the result is stored after each *)
(* step.  A register holds the rows added up in it.                         *)

ShortStart == Start("pathfinder_short", [t |-> 0],
  [v0 |-> <<>>, v4 |-> <<>>, v16 |-> <<0>>], <<>>, {0})

\* uint32_t: a number below zero is larger than any number of rows.
Minus(a, b, rows) == IF a < b THEN rows + b ELSE a - b

ShortStored(t, last, v) ==
  IF Minus(t, 2, last) >= last THEN v.v0
  ELSE IF Minus(t, 1, last) < last THEN v.v16
  ELSE v.v4

ShortStep ==
  LET t == at.t
      last == job.rows - 1
      v0 == Append(reg.v16, t + 1)
      v4 == IF t + 1 < last THEN Append(v0, t + 2) ELSE reg.v4
      v16 == IF t + 2 < last THEN Append(v4, t + 3) ELSE reg.v16
  IN
  /\ Running("pathfinder_short")
  /\ reg' = [v0 |-> v0, v4 |-> v4, v16 |-> v16]
  /\ out' = ShortStored(t, last, reg')
  /\ Keeps(t + 1 .. Lesser(t + 3, last))
  /\ at' = [t |-> t + 3]
  /\ done' = (t + 3 >= last)

ShortResult == [k \in 1 .. job.rows |-> k - 1]
-----------------------------------------------------------------------------
(* gemv_rowwise_small_than_slice: even rows are summed up in v16, odd ones  *)
(* in v24, and a sum is stored while the next row is being summed up.       *)

NoSums(rows) == [i \in 0 .. rows - 1 |-> <<>>]
SmallStart == Start("gemv_small", [i |-> 0], [v16 |-> <<>>, v24 |-> <<>>], NoSums(job.rows), {})

SmallEven ==
  /\ Running("gemv_small") /\ at.i < job.rows /\ at.i % 2 = 0
  /\ IF at.i = 0
     THEN /\ reg' = [reg EXCEPT !.v16 = Append(@, at.i)]
          /\ UNCHANGED out
     ELSE /\ reg' = [v16 |-> Append(reg.v16, at.i), v24 |-> <<>>]
          /\ out' = [out EXCEPT ![at.i - 1] = reg.v24]
  /\ at' = [i |-> at.i + 1] /\ Keeps({at.i})
  /\ UNCHANGED done

SmallOdd ==
  /\ Running("gemv_small") /\ at.i < job.rows /\ at.i % 2 = 1
  /\ reg' = [v16 |-> <<>>, v24 |-> Append(reg.v24, at.i)]
  /\ out' = [out EXCEPT ![at.i - 1] = reg.v16]
  /\ at' = [i |-> at.i + 1] /\ Keeps({at.i})
  /\ UNCHANGED done

SmallLast ==
  /\ Running("gemv_small") /\ at.i = job.rows
  /\ out' = [out EXCEPT ![job.rows - 1] = IF job.rows % 2 = 0 THEN reg.v24 ELSE reg.v16]
  /\ done' = TRUE
  /\ UNCHANGED <<at, reg, loaded>>

SmallResult == [i \in 0 .. job.rows - 1 |-> <<i>>]
-----------------------------------------------------------------------------
(* gemv_rowwise: the matrix is cut into slices of SliceSize rows and        *)
(* columns.  A register holds the sums of all the rows of a slice; for each *)
(* row it is rotated by one into the other register, so that the sum of     *)
(* this row is in element 0, where vfredsum adds to it.                     *)

Height(b) == Lesser(SliceSize, job.rows - b * SliceSize)
Slices == (job.cols + SliceSize - 1) \div SliceSize
NoElements == [k \in 0 .. SliceSize - 1 |-> <<>>]
SliceStart == Start("gemv", [b |-> 0, s |-> 0, i |-> 0],
  [v16 |-> NoElements, v24 |-> NoElements], NoSums(job.rows), {})

RotatedTwice(from, to, h) == [k \in 0 .. SliceSize - 1 |-> \* mutant: by two elements
  IF k < h THEN from[(k + 2) % h] ELSE to[k]]
\* vfslide1down with element 0 shifted in at the end; what is above stays.
Rotated(from, to, h) == [k \in 0 .. SliceSize - 1 |->
  IF k < h - 1 THEN from[k + 1] ELSE IF k = h - 1 THEN from[0] ELSE to[k]]

SliceRow ==
  LET h == Height(at.b)
      part == <<at.b * SliceSize + at.i, at.s>>
      v16 == [Rotated(reg.v24, reg.v16, h) EXCEPT ![0] = Append(@, part)]
      v24 == [Rotated(reg.v16, reg.v24, h) EXCEPT ![0] = Append(@, part)]
  IN
  /\ Running("gemv") /\ at.s < Slices /\ at.i < h
  /\ reg' = IF at.i % 2 = 0 THEN [reg EXCEPT !.v16 = v16] ELSE [reg EXCEPT !.v24 = v24]
  /\ at' = [at EXCEPT !.i = @ + 1] /\ Keeps({at.b * SliceSize + at.i})
  /\ UNCHANGED <<out, done>>

SliceEnd ==
  /\ Running("gemv") /\ at.s < Slices /\ at.i = Height(at.b)
  /\ reg' = IF at.i % 2 = 1 THEN [reg EXCEPT !.v24 = reg.v16] ELSE reg
  /\ at' = [at EXCEPT !.s = @ + 1, !.i = 0]
  /\ UNCHANGED <<out, loaded, done>>

SliceStore ==
  LET h == Height(at.b)
      sums == Rotated(reg.v24, reg.v16, h)
  IN
  /\ Running("gemv") /\ at.s = Slices
  /\ out' = [i \in 0 .. job.rows - 1 |->
       IF i \div SliceSize = at.b THEN sums[i % SliceSize] ELSE out[i]]
  /\ reg' = [v16 |-> NoElements, v24 |-> NoElements]
  /\ at' = [b |-> at.b + 1, s |-> 0, i |-> 0]
  /\ done' = ((at.b + 1) * SliceSize >= job.rows)
  /\ UNCHANGED loaded

SliceResult == [i \in 0 .. job.rows - 1 |-> [s \in 1 .. Slices |-> <<i, s - 1>>]]
-----------------------------------------------------------------------------
(* spmv_csr_idx32: the entries of a sparse row in chunks of SliceSize; like *)
(* above, rows alternate between two registers and a result is stored one   *)
(* row later.                                                               *)

SparseStart == Start("spmv", [i |-> 0, e |-> 0],
  [v16 |-> <<>>, v24 |-> <<>>], NoSums(Len(job.lens)), {})

SparseReg(i) == IF i % 2 = 0 THEN "v16" ELSE "v24"
Entries(i, from, count) == [k \in 1 .. count |-> <<i, from + k - 1>>]

SparseChunk ==
  LET left == job.lens[at.i + 1] - at.e IN
  /\ Running("spmv") /\ at.i < Len(job.lens) /\ left > SliceSize
  /\ reg' = [reg EXCEPT ![SparseReg(at.i)] =
       (IF at.e = 0 THEN <<>> ELSE @) \o Entries(at.i, at.e, SliceSize)]
  /\ at' = [at EXCEPT !.e = @ + SliceSize] /\ Keeps({at.i})
  /\ UNCHANGED <<out, done>>

SparseRowEnd ==
  LET left == job.lens[at.i + 1] - at.e IN
  /\ Running("spmv") /\ at.i < Len(job.lens) /\ left <= SliceSize
  /\ reg' = [reg EXCEPT ![SparseReg(at.i)] =
       (IF at.e = 0 THEN <<>> ELSE @) \o Entries(at.i, at.e, left)]
  /\ out' = IF at.i = 0 THEN out ELSE [out EXCEPT ![at.i - 1] = reg[SparseReg(at.i - 1)]]
  /\ at' = [i |-> at.i + 1, e |-> 0] /\ Keeps({at.i})
  /\ UNCHANGED done

SparseLast ==
  /\ Running("spmv") /\ at.i = Len(job.lens)
  /\ out' = [out EXCEPT ![at.i - 1] = IF at.i % 2 = 0 THEN reg.v24 ELSE reg.v16]
  /\ done' = TRUE
  /\ UNCHANGED <<at, reg, loaded>>

SparseResult == [i \in 0 .. Len(job.lens) - 1 |-> Entries(i, 0, job.lens[i + 1])]
-----------------------------------------------------------------------------
VectorStart ==
  \/ MatmulStart \/ JacobiStart \/ PathStart \/ ShortStart \/ SmallStart \/ SliceStart
  \/ SparseStart

VectorNext ==
  \/ MatmulEven \/ MatmulOdd \/ MatmulLast
  \/ JacobiStrip \/ JacobiRow
  \/ PathStrip \/ ShortStep
  \/ SmallEven \/ SmallOdd \/ SmallLast
  \/ SliceRow \/ SliceEnd \/ SliceStore
  \/ SparseChunk \/ SparseRowEnd \/ SparseLast

VectorResult ==
  CASE job.kernel = "fmatmul" -> MatmulResult
    [] job.kernel = "jacobi2d" -> JacobiResult
    [] job.kernel = "pathfinder" -> PathResult
    [] job.kernel = "pathfinder_short" -> ShortResult
    [] job.kernel = "gemv_small" -> SmallResult
    [] job.kernel = "gemv" -> SliceResult
    [] job.kernel = "spmv" -> SparseResult

VectorRows ==
  CASE job.kernel = "fmatmul" -> job.N
    [] job.kernel = "jacobi2d" -> job.r
    [] job.kernel = "spmv" -> Len(job.lens)
    [] OTHER -> job.rows
=============================================================================
