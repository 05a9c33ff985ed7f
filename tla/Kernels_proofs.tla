--------------------------- MODULE Kernels_proofs ---------------------------
(***************************************************************************)
(* What holds of the kernels for every size they accept, every length of   *)
(* the vector registers and every slice.                                   *)
(***************************************************************************)
EXTENDS Kernels, DivModLemmas, SequenceTheorems

-----------------------------------------------------------------------------
(***************************************************************************)
(* Only the kernel of the job runs.                                        *)
(***************************************************************************)
MatmulNext == MatmulEven \/ MatmulOdd \/ MatmulLast
JacobiNext == JacobiStrip \/ JacobiRow
SmallNext == SmallEven \/ SmallOdd \/ SmallLast
SliceNext == SliceRow \/ SliceEnd \/ SliceStore
SparseNext == SparseChunk \/ SparseRowEnd \/ SparseLast
Next7x7 == Head4 \/ Head3 \/ Unroll0 \/ Unroll1 \/ Tail4 \/ Tail3
Next3d == \/ Head4Channel \/ Head3Channel \/ Unroll0Channel \/ Unroll1Channel
          \/ Tail4Channel \/ Tail3Channel

\* The step is one of the kernel, whose invariant it may rely on.
StepOf(kernel, A) == job.kernel = kernel => A

LEMMA OwnSteps ==
  ASSUME Next
  PROVE  /\ job' = job /\ done = FALSE
         /\ StepOf("fmatmul", MatmulNext) /\ StepOf("jacobi2d", JacobiNext)
         /\ StepOf("pathfinder", PathStrip) /\ StepOf("pathfinder_short", ShortStep)
         /\ StepOf("gemv_small", SmallNext) /\ StepOf("gemv", SliceNext)
         /\ StepOf("spmv", SparseNext)
         /\ StepOf("fconv2d_3x3", Block3x3) /\ StepOf("iconv2d_5x5", Block5x5)
         /\ StepOf("fconv2d_7x7", Next7x7) /\ StepOf("fconv3d", Next3d)
<1>1. CASE VectorNext
  <2>1. MatmulNext => Running("fmatmul")
    BY DEF MatmulNext, MatmulEven, MatmulOdd, MatmulLast
  <2>2. JacobiNext => Running("jacobi2d")
    BY DEF JacobiNext, JacobiStrip, JacobiRow
  <2>3. PathStrip => Running("pathfinder")
    BY DEF PathStrip
  <2>4. ShortStep => Running("pathfinder_short")
    BY DEF ShortStep
  <2>5. SmallNext => Running("gemv_small")
    BY DEF SmallNext, SmallEven, SmallOdd, SmallLast
  <2>6. SliceNext => Running("gemv")
    BY DEF SliceNext, SliceRow, SliceEnd, SliceStore
  <2>7. SparseNext => Running("spmv")
    BY DEF SparseNext, SparseChunk, SparseRowEnd, SparseLast
  <2>8. \/ MatmulNext \/ JacobiNext \/ PathStrip \/ ShortStep \/ SmallNext \/ SliceNext
        \/ SparseNext
    BY <1>1 DEF VectorNext, MatmulNext, JacobiNext, SmallNext, SliceNext, SparseNext
  <2>9. QED
    BY <2>1, <2>2, <2>3, <2>4, <2>5, <2>6, <2>7, <2>8 DEF Running, StepOf
<1>2. CASE ConvNext
  <2>1. Block3x3 => Running("fconv2d_3x3")
    BY DEF Block3x3, WindowBlock
  <2>2. Block5x5 => Running("iconv2d_5x5")
    BY DEF Block5x5, WindowBlock
  <2>3. Next7x7 => Running("fconv2d_7x7")
    BY DEF Next7x7, Head4, Head3, Unroll0, Unroll1, Tail4, Tail3, At7
  <2>4. Next3d => Running("fconv3d")
    BY DEF Next3d, Head4Channel, Head3Channel, Unroll0Channel, Unroll1Channel, Tail4Channel,
         Tail3Channel, At3
  <2>5. Block3x3 \/ Block5x5 \/ Next7x7 \/ Next3d
    BY <1>2 DEF ConvNext, Next7x7, Next3d
  <2>6. QED
    BY <2>1, <2>2, <2>3, <2>4, <2>5 DEF Running, StepOf
<1>3. QED
  BY <1>1, <1>2 DEF Next

LEMMA JobStays == Spec => [](job \in Jobs)
<1>1. Init => job \in Jobs
  BY DEF Init
<1>2. job \in Jobs /\ [Next]_vars => (job \in Jobs)'
  BY OwnSteps DEF vars
<1>3. QED
  BY <1>1, <1>2, PTL DEF Spec

LEMMA OwnStart ==
  ASSUME Init
  PROVE  /\ job \in Jobs /\ done = FALSE
         /\ StepOf("fmatmul", MatmulStart) /\ StepOf("jacobi2d", JacobiStart)
         /\ StepOf("pathfinder", PathStart) /\ StepOf("pathfinder_short", ShortStart)
         /\ StepOf("gemv_small", SmallStart) /\ StepOf("gemv", SliceStart)
         /\ StepOf("spmv", SparseStart)
         /\ StepOf("fconv2d_3x3", Start3x3) /\ StepOf("iconv2d_5x5", Start5x5)
         /\ StepOf("fconv2d_7x7", Start7x7) /\ StepOf("fconv3d", Start3d)
<1>1. CASE VectorStart
  BY <1>1 DEF Init, VectorStart, MatmulStart, JacobiStart, PathStart, ShortStart, SmallStart,
       SliceStart, SparseStart, Start, StepOf
<1>2. CASE ConvStart
  BY <1>2 DEF Init, ConvStart, Start3x3, Start5x5, WindowStart, Start7x7, Start3d, Start, StepOf
<1>3. QED
  BY <1>1, <1>2 DEF Init

\* The results and rows of each kernel.
LEMMA OwnResult ==
  /\ StepOf("fmatmul", Expected = MatmulResult /\ Rows = job.N)
  /\ StepOf("jacobi2d", Expected = JacobiResult /\ Rows = job.r)
  /\ StepOf("pathfinder", Expected = PathResult /\ Rows = job.rows)
  /\ StepOf("pathfinder_short", Expected = ShortResult /\ Rows = job.rows)
  /\ StepOf("gemv_small", Expected = SmallResult /\ Rows = job.rows)
  /\ StepOf("gemv", Expected = SliceResult /\ Rows = job.rows)
  /\ StepOf("spmv", Expected = SparseResult /\ Rows = Len(job.lens))
  /\ StepOf("fconv2d_3x3", Expected = WindowResult(3) /\ Rows = job.R + 2)
  /\ StepOf("iconv2d_5x5", Expected = WindowResult(5) /\ Rows = job.R + 4)
  /\ StepOf("fconv2d_7x7", Expected = Result7x7 /\ Rows = job.R + 6)
  /\ StepOf("fconv3d", Expected = Result3d /\ Rows = job.R + 6)
<1> DEFINE k == job.kernel
<1>1. k = "fmatmul" => Expected = MatmulResult /\ Rows = job.N
  BY DEF Expected, Rows, ConvJob, VectorResult, VectorRows
<1>2. k = "jacobi2d" => Expected = JacobiResult /\ Rows = job.r
  BY DEF Expected, Rows, ConvJob, VectorResult, VectorRows
<1>3. k = "pathfinder" => Expected = PathResult /\ Rows = job.rows
  BY DEF Expected, Rows, ConvJob, VectorResult, VectorRows
<1>4. k = "pathfinder_short" => Expected = ShortResult /\ Rows = job.rows
  BY DEF Expected, Rows, ConvJob, VectorResult, VectorRows
<1>5. k = "gemv_small" => Expected = SmallResult /\ Rows = job.rows
  BY DEF Expected, Rows, ConvJob, VectorResult, VectorRows
<1>6. k = "gemv" => Expected = SliceResult /\ Rows = job.rows
  BY DEF Expected, Rows, ConvJob, VectorResult, VectorRows
<1>7. k = "spmv" => Expected = SparseResult /\ Rows = Len(job.lens)
  BY DEF Expected, Rows, ConvJob, VectorResult, VectorRows
<1>8. k = "fconv2d_3x3" => Expected = WindowResult(3) /\ Rows = job.R + 2
  BY DEF Expected, Rows, ConvJob, ConvResult, ConvRows
<1>9. k = "iconv2d_5x5" => Expected = WindowResult(5) /\ Rows = job.R + 4
  BY DEF Expected, Rows, ConvJob, ConvResult, ConvRows
<1>10. k = "fconv2d_7x7" => Expected = Result7x7 /\ Rows = job.R + 6
  BY DEF Expected, Rows, ConvJob, ConvResult, ConvRows
<1>11. k = "fconv3d" => Expected = Result3d /\ Rows = job.R + 6
  BY DEF Expected, Rows, ConvJob, ConvResult, ConvRows
<1>12. QED
  BY <1>1, <1>2, <1>3, <1>4, <1>5, <1>6, <1>7, <1>8, <1>9, <1>10, <1>11 DEF StepOf

\* A sequence as a function, and what is appended to it.
LEMMA SeqIsFunction ==
  ASSUME NEW S, NEW s \in Seq(S)
  PROVE  s = [k \in 1 .. Len(s) |-> s[k]] /\ Len(s) \in Nat /\ \A k \in 1 .. Len(s) : s[k] \in S
<1>1. s \in [1 .. Len(s) -> S] /\ Len(s) \in Nat
  BY LenProperties
<1>2. QED
  BY <1>1

LEMMA Appended ==
  ASSUME NEW S, NEW n \in Nat, NEW s \in [1 .. n -> S], NEW e \in S
  PROVE  Append(s, e) = [k \in 1 .. n + 1 |-> IF k = n + 1 THEN e ELSE s[k]]
<1>1. s \in Seq(S) /\ Len(s) = n
  <2>1. s \in Seq(S)
    OBVIOUS
  <2>2. DOMAIN s = 1 .. n
    OBVIOUS
  <2>3. QED
    BY <2>1, <2>2, LenProperties
<1>2. /\ Append(s, e) \in Seq(S) /\ Len(Append(s, e)) = n + 1
      /\ \A i \in 1 .. n : Append(s, e)[i] = s[i]
      /\ Append(s, e)[n + 1] = e
  BY <1>1, AppendProperties
<1>3. Append(s, e) = [k \in 1 .. n + 1 |-> Append(s, e)[k]]
  BY <1>2, SeqIsFunction
<1>4. \A k \in 1 .. n + 1 : Append(s, e)[k] = IF k = n + 1 THEN e ELSE s[k]
  BY <1>2
<1>5. QED
  BY <1>3, <1>4
-----------------------------------------------------------------------------
(***************************************************************************)
(* fmatmul: before step n the register of this step's parity holds row n   *)
(* of B, and the scalars column n of A.                                    *)
(***************************************************************************)
MatmulSums(n) == [k \in 1 .. n |-> <<k - 1, k - 1>>]

MatmulInv ==
  /\ at \in [n : Nat, b : Nat] /\ at.b = at.n + 1
  /\ reg \in [v16 : Nat, v20 : Nat, t : Nat, acc : {reg.acc}]
  /\ ~done => /\ at.n < job.N /\ reg.t = at.n /\ reg.acc = MatmulSums(at.n)
              /\ at.n % 2 = 0 => reg.v16 = at.n
              /\ at.n % 2 = 1 => reg.v20 = at.n
  /\ loaded \subseteq 0 .. job.N - 1
  /\ done => out = MatmulSums(job.N)

LEMMA MatmulSize ==
  ASSUME job \in Jobs, job.kernel = "fmatmul"
  PROVE  job.N \in Nat \ {0} /\ job.N % 2 = 0
BY KernelAssumption DEF VectorSizes, ConvSizes

LEMMA MatmulGrows ==
  ASSUME NEW n \in Nat
  PROVE  Append(MatmulSums(n), <<n, n>>) = MatmulSums(n + 1)
<1>1. MatmulSums(n) \in [1 .. n -> Nat \X Nat] /\ <<n, n>> \in Nat \X Nat
  BY DEF MatmulSums
<1>2. Append(MatmulSums(n), <<n, n>>)
        = [k \in 1 .. n + 1 |-> IF k = n + 1 THEN <<n, n>> ELSE MatmulSums(n)[k]]
  BY <1>1, Appended
<1>3. \A k \in 1 .. n + 1 :
        (IF k = n + 1 THEN <<n, n>> ELSE MatmulSums(n)[k]) = <<k - 1, k - 1>>
  BY DEF MatmulSums
<1>4. QED
  BY <1>2, <1>3 DEF MatmulSums

LEMMA MatmulBegins ==
  ASSUME job \in Jobs, job.kernel = "fmatmul", done = FALSE, MatmulStart
  PROVE  MatmulInv
<1>1. at = [n |-> 0, b |-> 1] /\ reg = [v16 |-> 0, v20 |-> 0, t |-> 0, acc |-> <<>>] /\ loaded = {0}
  BY DEF MatmulStart, Start
<1>2. <<>> = MatmulSums(0)
  BY DEF MatmulSums
<1>3. job.N \in Nat \ {0}
  BY MatmulSize
<1>4. QED
  BY <1>1, <1>2, <1>3 DEF MatmulInv

LEMMA MatmulStep ==
  ASSUME job \in Jobs, job.kernel = "fmatmul", done = FALSE, job' = job, MatmulInv, MatmulNext
  PROVE  MatmulInv'
<1> DEFINE n == at.n
           N == job.N
<1>1. /\ N \in Nat \ {0} /\ N % 2 = 0 /\ n \in Nat /\ n < N /\ at.b = n + 1 /\ at \in [n : Nat, b : Nat]
      /\ reg.t = n /\ reg.acc = MatmulSums(n) /\ (n % 2 = 0 => reg.v16 = n) /\ (n % 2 = 1 => reg.v20 = n)
      /\ loaded \subseteq 0 .. N - 1
  BY MatmulSize DEF MatmulInv
<1>2. reg \in [v16 : Nat, v20 : Nat, t : Nat, acc : {reg.acc}]
  BY DEF MatmulInv
<1>3. Append(MatmulSums(n), <<n, n>>) = MatmulSums(n + 1)
  BY <1>1, MatmulGrows
<1> HIDE DEF N
<1>4. CASE MatmulEven
  <2>1. /\ n % 2 = 0 /\ n # N /\ at' = [n |-> n + 1, b |-> n + 2] /\ loaded' = loaded \cup {n + 1} /\ done' = FALSE
    BY <1>1, <1>4 DEF MatmulEven, Keeps, N
  <2>2. reg' = [reg EXCEPT !.acc = MatmulSums(n + 1), !.v20 = n + 1, !.t = n + 1]
    BY <1>1, <1>3, <1>4, <2>1 DEF MatmulEven
  <2>3. n + 1 < N /\ (n + 1) % 2 = 1
    BY <1>1, <2>1
  <2>4. reg'.t = n + 1 /\ reg'.acc = MatmulSums(n + 1) /\ reg'.v20 = n + 1
        /\ reg' \in [v16 : Nat, v20 : Nat, t : Nat, acc : {reg'.acc}]
    BY <1>1, <1>2, <2>2
  <2>5. loaded' \subseteq 0 .. N - 1
    <3>1. n + 1 \in 0 .. N - 1
      BY <1>1, <2>3
    <3>2. loaded' = loaded \cup {n + 1} /\ loaded \subseteq 0 .. N - 1
      BY <1>1, <2>1
    <3> HIDE DEF n
    <3>3. QED
      BY <3>1, <3>2
  <2>6. (n + 1) % 2 # 0
    BY <2>3
  <2>7. at' \in [n : Nat, b : Nat] /\ at'.b = at'.n + 1 /\ at'.n = n + 1
    BY <1>1, <2>1
  <2> HIDE DEF n
  <2>8. QED
    BY <2>1, <2>3, <2>4, <2>5, <2>6, <2>7 DEF MatmulInv, N
<1>5. CASE MatmulOdd
  <2>1. /\ n % 2 = 1 /\ n + 1 # N /\ at' = [n |-> n + 1, b |-> n + 2] /\ loaded' = loaded \cup {n + 1} /\ done' = FALSE
    BY <1>1, <1>5 DEF MatmulOdd, Keeps, LastColumn, N
  <2>2. reg' = [reg EXCEPT !.acc = MatmulSums(n + 1), !.v16 = n + 1, !.t = n + 1]
    BY <1>1, <1>3, <1>5, <2>1 DEF MatmulOdd
  <2>3. n + 1 < N /\ (n + 1) % 2 = 0
    BY <1>1, <2>1
  <2>4. reg'.t = n + 1 /\ reg'.acc = MatmulSums(n + 1) /\ reg'.v16 = n + 1
        /\ reg' \in [v16 : Nat, v20 : Nat, t : Nat, acc : {reg'.acc}]
    BY <1>1, <1>2, <2>2
  <2>5. loaded' \subseteq 0 .. N - 1
    <3>1. n + 1 \in 0 .. N - 1
      BY <1>1, <2>3
    <3>2. loaded' = loaded \cup {n + 1} /\ loaded \subseteq 0 .. N - 1
      BY <1>1, <2>1
    <3> HIDE DEF n
    <3>3. QED
      BY <3>1, <3>2
  <2>6. (n + 1) % 2 # 1
    BY <2>3
  <2>7. at' \in [n : Nat, b : Nat] /\ at'.b = at'.n + 1 /\ at'.n = n + 1
    BY <1>1, <2>1
  <2> HIDE DEF n
  <2>8. QED
    BY <2>1, <2>3, <2>4, <2>5, <2>6, <2>7 DEF MatmulInv, N
<1>6. CASE MatmulLast
  <2>1. n % 2 = 1 /\ n + 1 = N /\ done' = TRUE /\ UNCHANGED <<at, reg, loaded>>
    BY <1>1, <1>6 DEF MatmulLast, LastColumn, N
  <2>2. out' = MatmulSums(n + 1)
    BY <1>1, <1>3, <1>6, <2>1 DEF MatmulLast
  <2> HIDE DEF n
  <2>3. QED
    BY <1>1, <1>2, <2>1, <2>2 DEF MatmulInv, N
<1>7. QED
  BY <1>4, <1>5, <1>6 DEF MatmulNext
-----------------------------------------------------------------------------
(***************************************************************************)
(* pathfinder for rows that fit a register: before step t register v16     *)
(* holds the sum of the rows up to t.                                      *)
(***************************************************************************)
RowsTo(n) == [k \in 1 .. n |-> k - 1]

\* The sizes for which the register to store is chosen right.
ShortFits(rows) == rows = 2 \/ (rows >= 7 /\ (rows - 1) % 3 = 0)

ShortInv ==
  /\ at \in [t : Nat]
  /\ ~done => at.t % 3 = 0 /\ at.t < job.rows - 1 /\ reg.v16 = RowsTo(at.t + 1)
  /\ loaded \subseteq 0 .. job.rows - 1
  /\ done /\ ShortFits(job.rows) => out = RowsTo(job.rows)

LEMMA ShortSize ==
  ASSUME job \in Jobs, job.kernel = "pathfinder_short"
  PROVE  job.rows \in Nat /\ job.rows > 1
BY KernelAssumption DEF VectorSizes, ConvSizes

LEMMA RowsGrow ==
  ASSUME NEW n \in Nat
  PROVE  Append(RowsTo(n), n) = RowsTo(n + 1)
<1>1. RowsTo(n) \in [1 .. n -> Nat]
  BY DEF RowsTo
<1>2. Append(RowsTo(n), n) = [k \in 1 .. n + 1 |-> IF k = n + 1 THEN n ELSE RowsTo(n)[k]]
  <2>1. \A e \in Nat : Append(RowsTo(n), e)
                         = [k \in 1 .. n + 1 |-> IF k = n + 1 THEN e ELSE RowsTo(n)[k]]
    BY <1>1, Appended
  <2>2. QED
    BY <2>1
<1>3. \A k \in 1 .. n + 1 : (IF k = n + 1 THEN n ELSE RowsTo(n)[k]) = k - 1
  BY DEF RowsTo
<1>4. QED
  BY <1>2, <1>3 DEF RowsTo

LEMMA ShortBegins ==
  ASSUME job \in Jobs, job.kernel = "pathfinder_short", done = FALSE, ShortStart
  PROVE  ShortInv
<1>1. at = [t |-> 0] /\ reg.v16 = <<0>> /\ loaded = {0}
  BY DEF ShortStart, Start
<1>2. <<0>> = RowsTo(0 + 1)
  BY DEF RowsTo
<1>3. job.rows \in Nat /\ job.rows > 1
  BY ShortSize
<1>4. QED
  BY <1>1, <1>2, <1>3 DEF ShortInv

LEMMA ShortMoves ==
  ASSUME job \in Jobs, job.kernel = "pathfinder_short", done = FALSE, job' = job, ShortInv, ShortStep
  PROVE  ShortInv'
<1> DEFINE t == at.t
           last == job.rows - 1
           v0 == Append(reg.v16, t + 1)
           v4 == IF t + 1 < last THEN Append(v0, t + 2) ELSE reg.v4
           v16 == IF t + 2 < last THEN Append(v4, t + 3) ELSE reg.v16
<1>1. /\ job.rows \in Nat /\ last \in Nat \ {0} /\ t \in Nat /\ t % 3 = 0 /\ t < last
      /\ reg.v16 = RowsTo(t + 1) /\ loaded \subseteq 0 .. last
  BY ShortSize DEF ShortInv
<1>2. /\ reg' = [v0 |-> v0, v4 |-> v4, v16 |-> v16]
      /\ out' = ShortStored(t, last, reg')
      /\ loaded' = loaded \cup (t + 1 .. Lesser(t + 3, last))
      /\ at' = [t |-> t + 3] /\ done' = (t + 3 >= last)
  BY DEF ShortStep, Keeps
<1>3. /\ Append(RowsTo(t + 1), t + 1) = RowsTo(t + 2)
      /\ Append(RowsTo(t + 2), t + 2) = RowsTo(t + 3)
      /\ Append(RowsTo(t + 3), t + 3) = RowsTo(t + 4)
  <2>1. t + 1 \in Nat /\ t + 2 \in Nat /\ t + 3 \in Nat
        /\ (t + 1) + 1 = t + 2 /\ (t + 2) + 1 = t + 3 /\ (t + 3) + 1 = t + 4
    BY <1>1
  <2> HIDE DEF t
  <2>2. QED
    BY <2>1, RowsGrow
<1>4. v0 = RowsTo(t + 2)
  BY <1>1, <1>3
<1>5. t + 2 < last => v16 = RowsTo(t + 4)
  <2>1. t + 2 < last => t + 1 < last
    BY <1>1
  <2>2. t + 1 < last => v4 = RowsTo(t + 3)
    BY <1>3, <1>4
  <2>3. QED
    BY <1>3, <2>1, <2>2
<1>6. reg'.v0 = v0 /\ reg'.v4 = v4 /\ reg'.v16 = v16
  BY <1>2
<1> HIDE DEF t, last, v0, v4, v16
<1>7. at' \in [t : Nat] /\ at'.t = t + 3
  BY <1>1, <1>2
<1>8. loaded' \subseteq 0 .. last
  <2>1. t + 1 .. Lesser(t + 3, last) \subseteq 0 .. last
    BY <1>1 DEF Lesser
  <2>2. QED
    BY <1>1, <1>2, <2>1
<1>9. ASSUME ~done'
      PROVE  (t + 3) % 3 = 0 /\ t + 3 < last /\ reg'.v16 = RowsTo((t + 3) + 1)
  <2>1. ~(t + 3 >= last)
    BY <1>2, <1>9
  <2>2. (t + 3) % 3 = 0 /\ t + 3 < last /\ t + 2 < last /\ (t + 3) + 1 = t + 4
    BY <1>1, <2>1
  <2>3. QED
    BY <1>5, <1>6, <2>2
<1>10. ASSUME done', ShortFits(job.rows)
       PROVE  out' = RowsTo(job.rows)
  <2>1. t + 3 >= last /\ (last = 1 \/ (last >= 6 /\ last % 3 = 0))
    <3>1. t + 3 >= last
      BY <1>2, <1>10
    <3>2. job.rows = 2 \/ (job.rows >= 7 /\ (job.rows - 1) % 3 = 0)
      BY <1>10 DEF ShortFits
    <3>3. QED
      BY <1>1, <3>1, <3>2 DEF last
  <2>2. CASE last = 1
    <3>1. t = 0 /\ Minus(t, 2, last) = 3 /\ 3 >= last
      BY <1>1, <2>2 DEF Minus
    <3>2. out' = v0
      BY <1>2, <1>6, <3>1 DEF ShortStored
    <3>3. t + 2 = job.rows
      BY <1>1, <2>2, <3>1 DEF last
    <3>4. QED
      BY <1>4, <3>2, <3>3
  <2>3. CASE last # 1
    <3>1. t + 3 = last /\ t >= 3
      BY <1>1, <2>1, <2>3
    <3>2. Minus(t, 2, last) = t - 2 /\ ~(t - 2 >= last) /\ Minus(t, 1, last) = t - 1 /\ t - 1 < last
          /\ t + 2 < last
      BY <1>1, <3>1 DEF Minus
    <3>3. out' = v16
      BY <1>2, <1>6, <3>2 DEF ShortStored
    <3>4. t + 4 = job.rows
      BY <1>1, <3>1 DEF last
    <3>5. QED
      BY <1>5, <3>2, <3>3, <3>4
  <2>4. QED
    BY <2>2, <2>3
<1>11. QED
  BY <1>7, <1>8, <1>9, <1>10 DEF ShortInv, last
-----------------------------------------------------------------------------
(***************************************************************************)
(* gemv within a slice: before row i the register of the row before holds  *)
(* its sum, the other one nothing, and the sums before it are stored.      *)
(***************************************************************************)
SmallSums(m, rows) == [k \in 0 .. rows - 1 |-> IF k < m THEN <<k>> ELSE <<>>]

SmallInv ==
  /\ at \in [i : Nat] /\ reg \in [v16 : {reg.v16}, v24 : {reg.v24}]
  /\ ~done => /\ at.i <= job.rows /\ out = SmallSums(at.i - 1, job.rows)
              /\ reg.v16 = IF at.i % 2 = 1 THEN <<at.i - 1>> ELSE <<>>
              /\ reg.v24 = IF at.i % 2 = 0 /\ at.i > 0 THEN <<at.i - 1>> ELSE <<>>
  /\ loaded \subseteq 0 .. job.rows - 1
  /\ done => out = SmallSums(job.rows, job.rows)

LEMMA SmallSize ==
  ASSUME job \in Jobs, job.kernel = "gemv_small"
  PROVE  job.rows \in Nat \ {0}
BY KernelAssumption DEF VectorSizes, ConvSizes

LEMMA SmallGrows ==
  ASSUME NEW rows \in Nat, NEW i \in 1 .. rows
  PROVE  [SmallSums(i - 1, rows) EXCEPT ![i - 1] = <<i - 1>>] = SmallSums(i, rows)
<1>1. i - 1 \in 0 .. rows - 1
  OBVIOUS
<1>2. ASSUME NEW k \in 0 .. rows - 1
      PROVE  [SmallSums(i - 1, rows) EXCEPT ![i - 1] = <<i - 1>>][k] = SmallSums(i, rows)[k]
  <2>1. CASE k = i - 1
    <3>1. k < i
      BY <2>1
    <3>2. QED
      BY <1>1, <2>1, <3>1 DEF SmallSums
  <2>2. CASE k # i - 1
    <3>1. k < i <=> k < i - 1
      BY <2>2
    <3>2. QED
      BY <1>1, <2>2, <3>1 DEF SmallSums
  <2>3. QED
    BY <2>1, <2>2
<1>3. QED
  BY <1>2 DEF SmallSums

LEMMA SmallBegins ==
  ASSUME job \in Jobs, job.kernel = "gemv_small", done = FALSE, SmallStart
  PROVE  SmallInv
<1>1. at = [i |-> 0] /\ reg = [v16 |-> <<>>, v24 |-> <<>>] /\ loaded = {} /\ out = NoSums(job.rows)
  BY DEF SmallStart, Start
<1>2. job.rows \in Nat \ {0}
  BY SmallSize
<1>3. NoSums(job.rows) = SmallSums(0 - 1, job.rows)
  BY <1>2 DEF NoSums, SmallSums
<1>4. QED
  BY <1>1, <1>2, <1>3 DEF SmallInv

LEMMA SmallStep ==
  ASSUME job \in Jobs, job.kernel = "gemv_small", done = FALSE, job' = job, SmallInv, SmallNext
  PROVE  SmallInv'
<1> DEFINE i == at.i
           rows == job.rows
<1>1. /\ rows \in Nat \ {0} /\ i \in Nat /\ i <= rows /\ out = SmallSums(i - 1, rows)
      /\ loaded \subseteq 0 .. rows - 1
      /\ reg.v16 = IF i % 2 = 1 THEN <<i - 1>> ELSE <<>>
      /\ reg.v24 = IF i % 2 = 0 /\ i > 0 THEN <<i - 1>> ELSE <<>>
  BY SmallSize DEF SmallInv
<1>2. at \in [i : Nat] /\ reg \in [v16 : {reg.v16}, v24 : {reg.v24}]
  BY DEF SmallInv
<1>3. i > 0 => [SmallSums(i - 1, rows) EXCEPT ![i - 1] = <<i - 1>>] = SmallSums(i, rows)
  <2>1. i > 0 => i \in 1 .. rows
    BY <1>1
  <2> HIDE DEF i, rows
  <2>2. QED
    BY <1>1, <2>1, SmallGrows
<1>4. \A x : Append(<<>>, x) = <<x>>
  OBVIOUS
<1>5. (i + 1) - 1 = i
  BY <1>1
<1>6. ASSUME i < rows, at' = [i |-> i + 1], loaded' = loaded \cup {i}
      PROVE  at' \in [i : Nat] /\ at'.i = i + 1 /\ i + 1 <= rows /\ loaded' \subseteq 0 .. rows - 1
  <2>1. i \in 0 .. rows - 1 /\ i + 1 <= rows /\ i + 1 \in Nat
    BY <1>1, <1>6
  <2> HIDE DEF i
  <2>2. QED
    BY <1>1, <1>6, <2>1
<1>7. CASE SmallEven
  <2>1. i < rows /\ i % 2 = 0 /\ at' = [i |-> i + 1] /\ loaded' = loaded \cup {i} /\ done' = FALSE
    BY <1>7 DEF SmallEven, Keeps
  <2>2. (i + 1) % 2 = 1 /\ ~((i + 1) % 2 = 0)
    BY <1>1, <2>1
  <2>3. reg.v16 = <<>>
    BY <1>1, <2>1
  <2>4. reg' = [v16 |-> <<i>>, v24 |-> <<>>] /\ out' = SmallSums(i, rows)
    <3>1. CASE i = 0
      <4>1. reg' = [reg EXCEPT !.v16 = Append(@, i)] /\ out' = out
        BY <1>7, <3>1 DEF SmallEven
      <4>2. reg.v24 = <<>> /\ Append(reg.v16, i) = <<i>>
        BY <1>1, <1>4, <2>3, <3>1
      <4>3. reg' = [v16 |-> <<i>>, v24 |-> <<>>]
        BY <1>2, <4>1, <4>2
      <4>4. SmallSums(i - 1, rows) = SmallSums(i, rows)
        BY <3>1, <1>1 DEF SmallSums
      <4>5. QED
        BY <1>1, <4>1, <4>3, <4>4
    <3>2. CASE i # 0
      <4>1. i > 0
        BY <1>1, <3>2
      <4>2. reg' = [v16 |-> Append(reg.v16, i), v24 |-> <<>>] /\ out' = [out EXCEPT ![i - 1] = reg.v24]
        BY <1>7, <3>2 DEF SmallEven
      <4>3. reg.v24 = <<i - 1>> /\ Append(reg.v16, i) = <<i>>
        BY <1>1, <1>4, <2>1, <2>3, <4>1
      <4>4. QED
        BY <1>1, <1>3, <4>1, <4>2, <4>3
    <3>3. QED
      BY <3>1, <3>2
  <2> HIDE DEF i, rows
  <2>5. QED
    BY <1>5, <1>6, <2>1, <2>2, <2>4 DEF SmallInv, rows
<1>8. CASE SmallOdd
  <2>1. i < rows /\ i % 2 = 1 /\ at' = [i |-> i + 1] /\ loaded' = loaded \cup {i} /\ done' = FALSE
    BY <1>8 DEF SmallOdd, Keeps
  <2>2. (i + 1) % 2 = 0 /\ ~((i + 1) % 2 = 1) /\ i > 0 /\ i + 1 > 0
    BY <1>1, <2>1
  <2>3. reg.v24 = <<>> /\ reg.v16 = <<i - 1>>
    BY <1>1, <2>1
  <2>4. reg' = [v16 |-> <<>>, v24 |-> <<i>>] /\ out' = SmallSums(i, rows)
    <3>1. reg' = [v16 |-> <<>>, v24 |-> Append(reg.v24, i)] /\ out' = [out EXCEPT ![i - 1] = reg.v16]
      BY <1>8 DEF SmallOdd
    <3>2. Append(reg.v24, i) = <<i>>
      BY <1>4, <2>3
    <3>3. QED
      BY <1>1, <1>3, <2>2, <2>3, <3>1, <3>2
  <2> HIDE DEF i, rows
  <2>5. QED
    BY <1>5, <1>6, <2>1, <2>2, <2>4 DEF SmallInv, rows
<1>9. CASE SmallLast
  <2>1. i = rows /\ done' = TRUE /\ UNCHANGED <<at, reg, loaded>>
        /\ out' = [out EXCEPT ![rows - 1] = IF rows % 2 = 0 THEN reg.v24 ELSE reg.v16]
    BY <1>9 DEF SmallLast
  <2>2. (IF rows % 2 = 0 THEN reg.v24 ELSE reg.v16) = <<i - 1>>
    <3>1. i > 0 /\ (i % 2 = 0 \/ i % 2 = 1)
      BY <1>1, <2>1
    <3>2. QED
      BY <1>1, <2>1, <3>1
  <2>3. out' = SmallSums(rows, rows)
    <3>1. i > 0
      BY <1>1, <2>1
    <3>2. QED
      BY <1>1, <1>3, <2>1, <2>2, <3>1
  <2> HIDE DEF i, rows
  <2>4. QED
    BY <1>1, <1>2, <2>1, <2>3 DEF SmallInv, rows
<1>10. QED
  BY <1>7, <1>8, <1>9 DEF SmallNext
-----------------------------------------------------------------------------
(***************************************************************************)
(* The 3x3 and 5x5 convolutions: before block r the window holds the first *)
(* F - 1 rows of the block and the rows below r of the result are stored.  *)
(***************************************************************************)
WindowRow(F, r) == [row |-> r, n |-> 0, len |-> job.C,
                    from |-> Window([f \in 1 .. F |-> r + f - 1], F)]

WindowInv(B, F) ==
  /\ at \in [r : Nat] /\ at.r % B = 0
  /\ ~done => /\ at.r < job.R
              /\ reg.win = [k \in 1 .. F - 1 |-> at.r + k - 1] /\ reg.i = at.r + F - 1
  /\ done => at.r = job.R
  /\ out = {WindowRow(F, r) : r \in 0 .. at.r - 1}
  /\ loaded \subseteq 0 .. job.R + F - 2

LEMMA WindowSize ==
  ASSUME job \in Jobs
  PROVE  /\ StepOf("fconv2d_3x3", job.R \in Positive /\ job.R % 4 = 0)
         /\ StepOf("iconv2d_5x5", job.R \in Positive /\ job.R % 2 = 0)
BY KernelAssumption DEF VectorSizes, ConvSizes, StepOf

LEMMA WindowBegins ==
  ASSUME NEW kernel, NEW B \in {2, 4}, NEW F \in {3, 5}, job.R \in Positive, done = FALSE,
         WindowStart(kernel, F)
  PROVE  WindowInv(B, F)
<1>1. /\ at = [r |-> 0] /\ reg.win = [k \in 1 .. F - 1 |-> k - 1] /\ reg.i = F - 1
      /\ out = {} /\ loaded = 0 .. F - 2
  BY DEF WindowStart, Start
<1>2. [k \in 1 .. F - 1 |-> k - 1] = [k \in 1 .. F - 1 |-> 0 + k - 1] /\ F - 1 = 0 + F - 1
  OBVIOUS
<1>3. 0 % B = 0 /\ 0 < job.R
  BY DEF Positive
<1>4. {WindowRow(F, r) : r \in 0 .. 0 - 1} = {}
  OBVIOUS
<1>5. 0 .. F - 2 \subseteq 0 .. job.R + F - 2
  BY DEF Positive
<1>6. at \in [r : Nat] /\ at.r = 0
  BY <1>1
<1>7. QED
  BY <1>1, <1>2, <1>3, <1>4, <1>5, <1>6 DEF WindowInv

LEMMA WindowMoves ==
  ASSUME NEW kernel, NEW B \in {2, 4}, NEW F \in {3, 5}, job.R \in Positive, job.R % B = 0,
         done = FALSE, job' = job, WindowInv(B, F), WindowBlock(kernel, B, F)
  PROVE  WindowInv(B, F)'
<1> DEFINE r == at.r
           R == job.R
           C == job.C
           w == [k \in 1 .. B + F - 1 |-> IF k < F THEN reg.win[k] ELSE reg.i + k - F]
           new == {[row |-> r + b, n |-> 0, len |-> C,
                    from |-> Window([f \in 1 .. F |-> w[b + f]], F)] : b \in 0 .. B - 1}
<1>1. /\ r \in Nat /\ r % B = 0 /\ r < R /\ R \in Nat /\ reg.i = r + F - 1
      /\ reg.win = [k \in 1 .. F - 1 |-> r + k - 1]
      /\ out = {WindowRow(F, q) : q \in 0 .. r - 1} /\ loaded \subseteq 0 .. R + F - 2
  BY DEF WindowInv, Positive
<1>2. /\ out' = out \cup new /\ loaded' = loaded \cup (reg.i .. reg.i + B - 1)
      /\ reg' = [win |-> [k \in 1 .. F - 1 |-> w[k + B]], i |-> r + B + F - 1]
      /\ at' = [r |-> r + B] /\ done' = (r + B >= R)
  BY DEF WindowBlock, Stores, Keeps, Moved
<1>0. r \in Nat /\ R \in Nat /\ r % B = 0 /\ R % B = 0 /\ r < R /\ B \in Nat /\ F \in Nat
  BY <1>1
<1> HIDE DEF r, R, C, w, new
<1>3. (r + B) % B = 0 /\ r + B <= R
  <2>1. CASE B = 2
    BY <1>0, <2>1
  <2>2. CASE B = 4
    BY <1>0, <2>2
  <2>3. QED
    BY <2>1, <2>2
<1>4. \A k \in 1 .. B + F - 1 : w[k] = r + k - 1
  <2>1. ASSUME NEW k \in 1 .. B + F - 1
        PROVE  w[k] = r + k - 1
    <3>1. w[k] = IF k < F THEN reg.win[k] ELSE reg.i + k - F
      BY DEF w
    <3>2. k < F => k \in 1 .. F - 1
      OBVIOUS
    <3>3. k < F => reg.win[k] = r + k - 1
      BY <1>1, <3>2
    <3>4. reg.i + k - F = r + k - 1
      BY <1>0, <1>1
    <3>5. QED
      BY <3>1, <3>3, <3>4
  <2>2. QED
    BY <2>1
<1>5. [k \in 1 .. F - 1 |-> w[k + B]] = [k \in 1 .. F - 1 |-> (r + B) + k - 1]
  <2>1. \A k \in 1 .. F - 1 : k + B \in 1 .. B + F - 1 /\ r + (k + B) - 1 = (r + B) + k - 1
    BY <1>0
  <2>2. QED
    BY <1>4, <2>1
<1>6. new = {WindowRow(F, q) : q \in r .. r + B - 1}
  <2>1. \A b \in 0 .. B - 1 : [f \in 1 .. F |-> w[b + f]] = [f \in 1 .. F |-> (r + b) + f - 1]
    <3>1. \A b \in 0 .. B - 1 : \A f \in 1 .. F :
            b + f \in 1 .. B + F - 1 /\ r + (b + f) - 1 = (r + b) + f - 1
      BY <1>0
    <3>2. \A b \in 0 .. B - 1 : \A f \in 1 .. F : w[b + f] = (r + b) + f - 1
      BY <1>4, <3>1
    <3>3. QED
      BY <3>2
  <2>2. \A b \in 0 .. B - 1 : [row |-> r + b, n |-> 0, len |-> C,
           from |-> Window([f \in 1 .. F |-> w[b + f]], F)] = WindowRow(F, r + b)
    BY <2>1 DEF WindowRow, C
  <2>3. new = {WindowRow(F, r + b) : b \in 0 .. B - 1}
    BY <2>2 DEF new
  <2>4. \A b \in 0 .. B - 1 : r + b \in r .. r + B - 1
    BY <1>0
  <2>5. \A q \in r .. r + B - 1 : q - r \in 0 .. B - 1 /\ q = r + (q - r)
    BY <1>0
  <2>6. QED
    BY <2>3, <2>4, <2>5
<1>7. out' = {WindowRow(F, q) : q \in 0 .. (r + B) - 1}
  <2>1. \A q : q \in 0 .. (r + B) - 1 <=> q \in 0 .. r - 1 \/ q \in r .. r + B - 1
    BY <1>0
  <2>2. QED
    BY <1>1, <1>2, <1>6, <2>1
<1>8. loaded' \subseteq 0 .. R + F - 2
  <2>1. reg.i .. reg.i + B - 1 \subseteq 0 .. R + F - 2
    <3>1. reg.i = r + F - 1
      BY <1>1
    <3>2. (r + F - 1) .. (r + F - 1) + B - 1 \subseteq 0 .. R + F - 2
      BY <1>0, <1>3
    <3>3. QED
      BY <3>1, <3>2
  <2>2. QED
    BY <1>1, <1>2, <2>1
<1>9. at' \in [r : Nat] /\ at'.r = r + B
  <2>1. r + B \in Nat
    BY <1>0
  <2>2. QED
    BY <1>2, <2>1
<1>10. reg'.win = [k \in 1 .. F - 1 |-> (r + B) + k - 1] /\ reg'.i = (r + B) + F - 1
  BY <1>2, <1>5
<1>11. (~done' => r + B < R) /\ (done' => r + B = R)
  <2>1. IF r + B >= R THEN r + B = R ELSE r + B < R
    BY <1>0, <1>3
  <2>2. QED
    BY <1>2, <2>1
<1>12. \A q : WindowRow(F, q)' = WindowRow(F, q)
  BY DEF WindowRow
<1>13. /\ at' \in [r : Nat] /\ at'.r % B = 0
       /\ out' = {WindowRow(F, q)' : q \in 0 .. at'.r - 1}
  BY <1>3, <1>7, <1>9, <1>12
<1>14. /\ loaded' \subseteq 0 .. job'.R + F - 2
       /\ done' => at'.r = job'.R
       /\ ~done' => at'.r < job'.R
  BY <1>8, <1>9, <1>11 DEF R
<1>15. reg'.win = [k \in 1 .. F - 1 |-> at'.r + k - 1] /\ reg'.i = at'.r + F - 1
  BY <1>9, <1>10
<1>16. QED
  BY <1>13, <1>14, <1>15 DEF WindowInv
-----------------------------------------------------------------------------
(***************************************************************************)
(* pathfinder: in row t the columns below n are those of the next row, and *)
(* aux is the cost that the last of them had before.                       *)
(***************************************************************************)
Costs(n, t, cols) == [c \in 0 .. cols - 1 |-> IF c < n THEN Cost(c, t + 1) ELSE Cost(c, t)]

PathInv ==
  /\ at \in [t : Nat, n : Nat] /\ at.t < job.rows
  /\ ~done => /\ at.t < job.rows - 1 /\ at.n < job.cols
              /\ at.n > 0 => reg.aux = Cost(at.n - 1, at.t)
              /\ out = Costs(at.n, at.t, job.cols)
  /\ loaded \subseteq 0 .. job.rows - 1
  /\ done => out = Costs(0, job.rows - 1, job.cols)

LEMMA PathSize ==
  ASSUME job \in Jobs, job.kernel = "pathfinder"
  PROVE  job.rows \in Nat /\ job.rows > 1 /\ job.cols \in Nat \ {0}
BY KernelAssumption DEF VectorSizes, ConvSizes

LEMMA PathBegins ==
  ASSUME job \in Jobs, job.kernel = "pathfinder", done = FALSE, PathStart
  PROVE  PathInv
<1>1. at = [t |-> 0, n |-> 0] /\ loaded = {0} /\ out = [c \in 0 .. job.cols - 1 |-> Cost(c, 0)]
  BY DEF PathStart, Start
<1>2. job.rows \in Nat /\ job.rows > 1 /\ job.cols \in Nat \ {0}
  BY PathSize
<1>3. out = Costs(0, 0, job.cols)
  <2>1. \A c \in 0 .. job.cols - 1 : ~(c < 0)
    BY <1>2
  <2>2. QED
    BY <1>1, <2>1 DEF Costs
<1>4. 0 < job.rows - 1 /\ 0 < job.rows /\ 0 < job.cols /\ 0 \in 0 .. job.rows - 1
  BY <1>2
<1>5. at \in [t : Nat, n : Nat] /\ at.t = 0 /\ at.n = 0 /\ ~(0 > 0)
  BY <1>1
<1>6. QED
  BY <1>1, <1>3, <1>4, <1>5 DEF PathInv

\* At the border a column is its own neighbour.
LEMMA ThreeNeighbours ==
  ASSUME job.cols \in Nat \ {0}, NEW c \in 0 .. job.cols - 1, NEW t
  PROVE  {Cost(c, t), Cost(IF c = 0 THEN 0 ELSE c - 1, t),
          Cost(IF c = job.cols - 1 THEN c ELSE c + 1, t)} = Neighbours(c, t)
<1> DEFINE l == IF c = 0 THEN 0 ELSE c - 1
           r == IF c = job.cols - 1 THEN c ELSE c + 1
           near == {c - 1, c, c + 1} \cap 0 .. job.cols - 1
<1>1. near = {c, l, r}
  OBVIOUS
<1>2. Neighbours(c, t) = {Cost(k, t) : k \in near}
  BY DEF Neighbours
<1> HIDE DEF l, r, near
<1>3. {Cost(k, t) : k \in {c, l, r}} = {Cost(c, t), Cost(l, t), Cost(r, t)}
  OBVIOUS
<1>4. QED
  BY <1>1, <1>2, <1>3 DEF l, r

LEMMA PathMoves ==
  ASSUME job \in Jobs, job.kernel = "pathfinder", done = FALSE, job' = job, PathInv, PathStrip
  PROVE  PathInv'
<1> DEFINE t == at.t
           n == at.n
           cols == job.cols
           rows == job.rows
           gvl == Lesser(cols - n, Vlmax)
           last == n + gvl - 1
           aux == IF n = 0 THEN out[0] ELSE reg.aux
           aux2 == IF n + gvl >= cols THEN out[last] ELSE out[last + 1]
           up(c) == IF c = n THEN aux ELSE out[c - 1]
           down(c) == IF c = last THEN aux2 ELSE out[c + 1]
<1>1. /\ t < rows - 1 /\ n < cols /\ t \in Nat /\ n \in Nat /\ rows \in Nat /\ cols \in Nat \ {0}
      /\ n > 0 => reg.aux = Cost(n - 1, t)
      /\ out = Costs(n, t, cols)
      /\ loaded \subseteq 0 .. rows - 1
  BY PathSize DEF PathInv
<1>2. /\ out' = [c \in 0 .. cols - 1 |->
           IF c \in n .. last THEN NextCost(c, t, {out[c], up(c), down(c)}) ELSE out[c]]
      /\ reg'.aux = out[last] /\ loaded' = loaded \cup {t + 1}
      /\ at' = IF n + gvl < cols THEN [at EXCEPT !.n = n + gvl] ELSE [t |-> t + 1, n |-> 0]
      /\ done' = (at'.t = rows - 1)
  BY DEF PathStrip, Keeps
<1>3. at \in [t : Nat, n : Nat]
  BY DEF PathInv
<1>0. /\ t \in Nat /\ n \in Nat /\ rows \in Nat /\ cols \in Nat \ {0} /\ t < rows - 1 /\ n < cols
      /\ job.cols = cols
  BY <1>1
<1> HIDE DEF t, n, cols, rows
<1>4. gvl \in Nat \ {0} /\ n + gvl <= cols
  BY <1>0, SizeAssumption DEF Lesser
<1> HIDE DEF gvl
<1>5. last \in n .. cols - 1 /\ last + 1 = n + gvl /\ last \in Nat
  BY <1>0, <1>4
<1> HIDE DEF last, aux, aux2, up, down
<1>6. \A c \in n .. cols - 1 : c \in 0 .. cols - 1 /\ ~(c < n)
  BY <1>0
<1>7. \A c \in n .. cols - 1 : out[c] = Cost(c, t)
  BY <1>1, <1>6 DEF Costs
<1>8. aux = Cost(IF n = 0 THEN 0 ELSE n - 1, t)
  <2>1. n = 0 => out[0] = Cost(0, t)
    <3>1. n = 0 => 0 \in n .. cols - 1
      BY <1>0
    <3>2. QED
      BY <1>7, <3>1
  <2>2. n # 0 => n > 0
    BY <1>0
  <2>3. QED
    BY <1>1, <2>1, <2>2 DEF aux
<1>9. aux2 = Cost(IF last = cols - 1 THEN last ELSE last + 1, t)
  <2>1. n + gvl >= cols <=> last = cols - 1
    BY <1>0, <1>4, <1>5
  <2>2. last # cols - 1 => last + 1 \in n .. cols - 1
    BY <1>0, <1>5
  <2>3. out[last] = Cost(last, t)
    BY <1>5, <1>7
  <2>4. last # cols - 1 => out[last + 1] = Cost(last + 1, t)
    BY <1>7, <2>2
  <2>5. QED
    BY <2>1, <2>3, <2>4 DEF aux2
<1>10. ASSUME NEW c \in n .. last
       PROVE  NextCost(c, t, {out[c], up(c), down(c)}) = Cost(c, t + 1)
  <2>1. c \in n .. cols - 1 /\ c \in 0 .. cols - 1
    BY <1>0, <1>5
  <2>2. out[c] = Cost(c, t)
    BY <1>7, <2>1
  <2>3. up(c) = Cost(IF c = 0 THEN 0 ELSE c - 1, t)
    <3>1. CASE c = n
      BY <1>8, <3>1 DEF up
    <3>2. CASE c # n
      <4>1. c - 1 \in n .. cols - 1 /\ c # 0
        BY <1>0, <2>1, <3>2
      <4>2. out[c - 1] = Cost(c - 1, t)
        BY <1>7, <4>1
      <4>3. QED
        BY <3>2, <4>1, <4>2 DEF up
    <3>3. QED
      BY <3>1, <3>2
  <2>4. down(c) = Cost(IF c = cols - 1 THEN c ELSE c + 1, t)
    <3>1. CASE c = last
      BY <1>9, <3>1 DEF down
    <3>2. CASE c # last
      <4>1. c + 1 \in n .. cols - 1 /\ c # cols - 1
        BY <1>0, <1>5, <2>1, <3>2
      <4>2. out[c + 1] = Cost(c + 1, t)
        BY <1>7, <4>1
      <4>3. QED
        BY <3>2, <4>1, <4>2 DEF down
    <3>3. QED
      BY <3>1, <3>2
  <2>5. c \in 0 .. job.cols - 1 /\ job.cols \in Nat \ {0}
    BY <1>0, <2>1
  <2>6. {out[c], up(c), down(c)} = {Cost(c, t), Cost(IF c = 0 THEN 0 ELSE c - 1, t),
          Cost(IF c = job.cols - 1 THEN c ELSE c + 1, t)}
    BY <1>0, <2>2, <2>3, <2>4
  <2>7. {out[c], up(c), down(c)} = Neighbours(c, t)
    BY <2>5, <2>6, ThreeNeighbours
  <2>8. QED
    BY <2>7 DEF NextCost
<1>11. out' = Costs(n + gvl, t, cols)
  <2>1. ASSUME NEW c \in 0 .. cols - 1
        PROVE  out'[c] = IF c < n + gvl THEN Cost(c, t + 1) ELSE Cost(c, t)
    <3>1. out[c] = IF c < n THEN Cost(c, t + 1) ELSE Cost(c, t)
      BY <1>1 DEF Costs
    <3>2. c \in n .. last <=> ~(c < n) /\ c < n + gvl
      BY <1>0, <1>4, <1>5
    <3>3. c < n => c < n + gvl
      BY <1>0, <1>4
    <3>4. out'[c] = IF c \in n .. last THEN Cost(c, t + 1) ELSE out[c]
      BY <1>2, <1>10
    <3>5. QED
      BY <3>1, <3>2, <3>3, <3>4
  <2>2. QED
    BY <1>2, <2>1 DEF Costs
<1>12. n + gvl >= cols => out' = Costs(0, t + 1, cols)
  <2>1. ASSUME n + gvl >= cols
        PROVE  Costs(n + gvl, t, cols) = Costs(0, t + 1, cols)
    <3>1. \A c \in 0 .. cols - 1 : c < n + gvl /\ ~(c < 0)
      BY <1>0, <1>4, <2>1
    <3>2. QED
      BY <3>1 DEF Costs
  <2>2. QED
    BY <1>11, <2>1
<1>13. loaded' \subseteq 0 .. rows - 1
  <2>1. t + 1 \in 0 .. rows - 1
    BY <1>0
  <2>2. QED
    BY <1>1, <1>2, <2>1
<1>14. reg'.aux = Cost((n + gvl) - 1, t)
  <2>1. (n + gvl) - 1 = last
    BY <1>0, <1>4 DEF last
  <2>2. QED
    BY <1>2, <1>5, <1>7, <2>1
<1>15. CASE n + gvl < cols
  <2>1. at' \in [t : Nat, n : Nat] /\ at'.t = t /\ at'.n = n + gvl
    <3>1. n + gvl \in Nat
      BY <1>0, <1>4
    <3>2. at' = [at EXCEPT !.n = n + gvl]
      BY <1>2, <1>15
    <3>3. at.t = t
      BY DEF t
    <3>4. QED
      BY <1>3, <3>1, <3>2, <3>3
  <2>2. t # rows - 1 /\ t < rows
    BY <1>0
  <2>3. ~done'
    BY <1>2, <2>1, <2>2
  <2>4. QED
    BY <1>0, <1>11, <1>13, <1>14, <1>15, <2>1, <2>2, <2>3 DEF PathInv, cols, rows
<1>16. CASE ~(n + gvl < cols)
  <2>1. at' \in [t : Nat, n : Nat] /\ at'.t = t + 1 /\ at'.n = 0
    <3>1. t + 1 \in Nat
      BY <1>0
    <3>2. QED
      BY <1>2, <1>16, <3>1
  <2>2. t + 1 < rows /\ (t + 1 # rows - 1 => t + 1 < rows - 1) /\ 0 < cols /\ ~(0 > 0)
    BY <1>0
  <2>3. out' = Costs(0, t + 1, cols)
    <3>1. n + gvl >= cols
      BY <1>0, <1>4, <1>16
    <3>2. QED
      BY <1>12, <3>1
  <2>4. done' <=> t + 1 = rows - 1
    BY <1>2, <2>1
  <2>5. QED
    BY <1>13, <2>1, <2>2, <2>3, <2>4 DEF PathInv, cols, rows
<1>17. QED
  BY <1>15, <1>16
-----------------------------------------------------------------------------
(***************************************************************************)
(* spmv: the register of the row holds its entries below e, the other one  *)
(* the whole row before, and the rows before that are stored.              *)
(***************************************************************************)
SparseSums(m, lens) ==
  [k \in 0 .. Len(lens) - 1 |-> IF k < m THEN Entries(k, 0, lens[k + 1]) ELSE <<>>]

SparseInv ==
  /\ at \in [i : Nat, e : Nat] /\ reg \in [v16 : Seq(Nat \X Nat), v24 : Seq(Nat \X Nat)]
  /\ ~done => /\ at.i <= Len(job.lens)
              /\ at.i < Len(job.lens) => at.e <= job.lens[at.i + 1]
              /\ at.i = Len(job.lens) => at.e = 0
              /\ at.e > 0 => reg[SparseReg(at.i)] = Entries(at.i, 0, at.e)
              /\ at.i > 0 => reg[SparseReg(at.i - 1)] = Entries(at.i - 1, 0, job.lens[at.i])
              /\ out = SparseSums(at.i - 1, job.lens)
  /\ loaded \subseteq 0 .. Len(job.lens) - 1
  /\ done => out = SparseSums(Len(job.lens), job.lens)

LEMMA SparseSize ==
  ASSUME job \in Jobs, job.kernel = "spmv"
  PROVE  job.lens \in Seq(Nat)
BY KernelAssumption DEF VectorSizes, ConvSizes

LEMMA EntriesType ==
  ASSUME NEW i \in Nat, NEW from \in Nat, NEW n \in Nat
  PROVE  /\ Entries(i, from, n) \in Seq(Nat \X Nat) /\ Len(Entries(i, from, n)) = n
         /\ \A k \in 1 .. n : Entries(i, from, n)[k] = <<i, from + k - 1>>
<1>1. \A k \in 1 .. n : <<i, from + k - 1>> \in Nat \X Nat
  OBVIOUS
<1>2. Entries(i, from, n) \in [1 .. n -> Nat \X Nat]
  BY <1>1 DEF Entries
<1>3. Entries(i, from, n) \in Seq(Nat \X Nat) /\ DOMAIN Entries(i, from, n) = 1 .. n
  BY <1>2
<1>4. QED
  BY <1>3, LenProperties DEF Entries

LEMMA NoEntries ==
  ASSUME NEW i
  PROVE  Entries(i, 0, 0) = <<>>
BY DEF Entries

LEMMA EntriesJoin ==
  ASSUME NEW i \in Nat, NEW m \in Nat, NEW n \in Nat
  PROVE  Entries(i, 0, m) \o Entries(i, m, n) = Entries(i, 0, m + n)
<1> DEFINE a == Entries(i, 0, m)
           b == Entries(i, m, n)
           S == Nat \X Nat
<1>1. a \in Seq(S) /\ Len(a) = m /\ \A k \in 1 .. m : a[k] = <<i, 0 + k - 1>>
  BY EntriesType
<1>2. b \in Seq(S) /\ Len(b) = n /\ \A k \in 1 .. n : b[k] = <<i, m + k - 1>>
  BY EntriesType
<1> HIDE DEF a, b, S
<1>3. /\ a \o b \in Seq(S) /\ Len(a \o b) = m + n
      /\ \A k \in 1 .. m + n : (a \o b)[k] = IF k <= m THEN a[k] ELSE b[k - m]
  BY <1>1, <1>2, ConcatProperties
<1>4. a \o b = [k \in 1 .. m + n |-> (a \o b)[k]]
  BY <1>3, SeqIsFunction
<1>5. \A k \in 1 .. m + n : (a \o b)[k] = <<i, 0 + k - 1>>
  <2>1. ASSUME NEW k \in 1 .. m + n
        PROVE  (a \o b)[k] = <<i, 0 + k - 1>>
    <3>1. CASE k <= m
      <4>1. k \in 1 .. m
        BY <3>1
      <4>2. QED
        BY <1>1, <1>3, <3>1, <4>1
    <3>2. CASE ~(k <= m)
      <4>1. k - m \in 1 .. n /\ m + (k - m) - 1 = 0 + k - 1
        BY <3>2
      <4>2. b[k - m] = <<i, m + (k - m) - 1>>
        BY <1>2, <4>1
      <4>3. QED
        BY <1>3, <3>2, <4>1, <4>2
    <3>3. QED
      BY <3>1, <3>2
  <2>2. QED
    BY <2>1
<1>6. QED
  BY <1>4, <1>5 DEF a, b, Entries

LEMMA SparseGrows ==
  ASSUME NEW lens \in Seq(Nat), NEW i \in 1 .. Len(lens)
  PROVE  [SparseSums(i - 1, lens) EXCEPT ![i - 1] = Entries(i - 1, 0, lens[i])] = SparseSums(i, lens)
<1>1. Len(lens) \in Nat
  BY LenProperties
<1> DEFINE L == Len(lens)
           old == SparseSums(i - 1, lens)
           row == Entries(i - 1, 0, lens[i])
<1>2. L \in Nat /\ i \in 1 .. L /\ i - 1 \in 0 .. L - 1 /\ (i - 1) + 1 = i
  BY <1>1
<1>3. /\ old = [k \in 0 .. L - 1 |-> IF k < i - 1 THEN Entries(k, 0, lens[k + 1]) ELSE <<>>]
      /\ SparseSums(i, lens) = [k \in 0 .. L - 1 |-> IF k < i THEN Entries(k, 0, lens[k + 1]) ELSE <<>>]
  BY DEF SparseSums
<1> HIDE DEF L, old
<1>4. ASSUME NEW k \in 0 .. L - 1
      PROVE  [old EXCEPT ![i - 1] = row][k] = SparseSums(i, lens)[k]
  <2>1. CASE k = i - 1
    <3>1. k < i /\ k + 1 = i
      BY <1>2, <2>1
    <3>2. SparseSums(i, lens)[k] = row
      BY <1>3, <2>1, <3>1
    <3>3. QED
      BY <1>2, <1>3, <2>1, <3>2
  <2>2. CASE k # i - 1
    <3>1. k < i <=> k < i - 1
      BY <1>2, <2>2
    <3>2. QED
      BY <1>3, <2>2, <3>1
  <2>3. QED
    BY <2>1, <2>2
<1>5. DOMAIN [old EXCEPT ![i - 1] = row] = 0 .. L - 1 /\ DOMAIN SparseSums(i, lens) = 0 .. L - 1
  BY <1>3
<1>6. [old EXCEPT ![i - 1] = row] = SparseSums(i, lens)
  BY <1>3, <1>4, <1>5
<1>7. QED
  BY <1>6 DEF old

LEMMA SparseBegins ==
  ASSUME job \in Jobs, job.kernel = "spmv", done = FALSE, SparseStart
  PROVE  SparseInv
<1>1. /\ at = [i |-> 0, e |-> 0] /\ reg = [v16 |-> <<>>, v24 |-> <<>>] /\ loaded = {}
      /\ out = NoSums(Len(job.lens))
  BY DEF SparseStart, Start
<1>2. job.lens \in Seq(Nat) /\ Len(job.lens) \in Nat
  BY SparseSize, LenProperties
<1>3. out = SparseSums(0 - 1, job.lens)
  <2>1. \A k \in 0 .. Len(job.lens) - 1 : ~(k < 0 - 1)
    BY <1>2
  <2>2. QED
    BY <1>1, <2>1 DEF SparseSums, NoSums
<1>4. <<>> \in Seq(Nat \X Nat)
  OBVIOUS
<1>5. reg \in [v16 : Seq(Nat \X Nat), v24 : Seq(Nat \X Nat)]
  BY <1>1, <1>4
<1>6. 0 <= Len(job.lens) /\ (0 < Len(job.lens) => 0 <= job.lens[0 + 1])
  <2>1. \A n \in 1 .. Len(job.lens) : job.lens[n] \in Nat
    BY <1>2, SeqIsFunction
  <2>2. 0 < Len(job.lens) => 0 + 1 \in 1 .. Len(job.lens)
    BY <1>2
  <2>3. QED
    BY <1>2, <2>1, <2>2
<1>7. at \in [i : Nat, e : Nat] /\ at.i = 0 /\ at.e = 0
  BY <1>1
<1>8. QED
  BY <1>1, <1>3, <1>5, <1>6, <1>7 DEF SparseInv

\* A write of the register of this row leaves that of the row before alone.
WritesOwn(S, old, i, x) ==
  /\ [old EXCEPT ![SparseReg(i)] = x] \in [v16 : S, v24 : S]
  /\ [old EXCEPT ![SparseReg(i)] = x][SparseReg(i)] = x
  /\ i > 0 => [old EXCEPT ![SparseReg(i)] = x][SparseReg(i - 1)] = old[SparseReg(i - 1)]

LEMMA SparseWrites ==
  ASSUME NEW S, NEW old \in [v16 : S, v24 : S], NEW i \in Nat, NEW x \in S
  PROVE  WritesOwn(S, old, i, x)
<1>1. CASE i % 2 = 0
  <2>1. i > 0 => (i - 1) % 2 # 0
    BY <1>1
  <2>2. SparseReg(i) = "v16" /\ (i > 0 => SparseReg(i - 1) = "v24")
    BY <1>1, <2>1 DEF SparseReg
  <2>3. /\ [old EXCEPT !["v16"] = x] \in [v16 : S, v24 : S]
        /\ [old EXCEPT !["v16"] = x]["v16"] = x
        /\ [old EXCEPT !["v16"] = x]["v24"] = old["v24"]
    OBVIOUS
  <2>4. QED
    BY <2>2, <2>3 DEF WritesOwn
<1>2. CASE i % 2 # 0
  <2>1. i > 0 => (i - 1) % 2 = 0
    BY <1>2
  <2>2. SparseReg(i) = "v24" /\ (i > 0 => SparseReg(i - 1) = "v16")
    BY <1>2, <2>1 DEF SparseReg
  <2>3. /\ [old EXCEPT !["v24"] = x] \in [v16 : S, v24 : S]
        /\ [old EXCEPT !["v24"] = x]["v24"] = x
        /\ [old EXCEPT !["v24"] = x]["v16"] = old["v16"]
    OBVIOUS
  <2>4. QED
    BY <2>2, <2>3 DEF WritesOwn
<1>3. QED
  BY <1>1, <1>2

LEMMA SparseStep ==
  ASSUME job \in Jobs, job.kernel = "spmv", done = FALSE, job' = job, SparseInv, SparseNext
  PROVE  SparseInv'
<1> DEFINE i == at.i
           e == at.e
           lens == job.lens
           L == Len(lens)
           S == Seq(Nat \X Nat)
           own == SparseReg(i)
           prev == SparseReg(i - 1)
           held == IF e = 0 THEN <<>> ELSE reg[own]
<1>1. /\ lens \in Seq(Nat) /\ i \in Nat /\ e \in Nat /\ i <= L
      /\ i < L => e <= lens[i + 1]
      /\ i = L => e = 0
      /\ e > 0 => reg[own] = Entries(i, 0, e)
      /\ i > 0 => reg[prev] = Entries(i - 1, 0, lens[i])
      /\ out = SparseSums(i - 1, lens)
      /\ loaded \subseteq 0 .. L - 1
  BY SparseSize DEF SparseInv
<1>2. at \in [i : Nat, e : Nat] /\ reg \in [v16 : S, v24 : S]
  BY DEF SparseInv
<1>3. L \in Nat /\ \A n \in 1 .. L : lens[n] \in Nat
  BY <1>1, SeqIsFunction
<1>4. job.lens = lens /\ job'.lens = lens
  OBVIOUS
<1>5. SparseInv' =
        /\ at' \in [i : Nat, e : Nat] /\ reg' \in [v16 : S, v24 : S]
        /\ ~done' => /\ at'.i <= Len(job'.lens)
                     /\ at'.i < Len(job'.lens) => at'.e <= job'.lens[at'.i + 1]
                     /\ at'.i = Len(job'.lens) => at'.e = 0
                     /\ at'.e > 0 => reg'[SparseReg(at'.i)] = Entries(at'.i, 0, at'.e)
                     /\ at'.i > 0 => reg'[SparseReg(at'.i - 1)] = Entries(at'.i - 1, 0, job'.lens[at'.i])
                     /\ out' = SparseSums(at'.i - 1, job'.lens)
        /\ loaded' \subseteq 0 .. Len(job'.lens) - 1
        /\ done' => out' = SparseSums(Len(job'.lens), job'.lens)
  BY DEF SparseInv
<1>6. held = Entries(i, 0, e)
  <2>1. e = 0 \/ e > 0
    BY <1>1
  <2>2. QED
    BY <1>1, <2>1, NoEntries
<1>7. i > 0 => [out EXCEPT ![i - 1] = reg[prev]] = SparseSums(i, lens)
  <2>1. i > 0 => i \in 1 .. L
    BY <1>1, <1>3
  <2>2. lens \in Seq(Nat)
    BY <1>1
  <2> HIDE DEF i, lens
  <2>3. i > 0 => [SparseSums(i - 1, lens) EXCEPT ![i - 1] = Entries(i - 1, 0, lens[i])] = SparseSums(i, lens)
    BY <2>1, <2>2, SparseGrows
  <2>4. QED
    BY <1>1, <2>3
<1>8. ASSUME loaded' = loaded \cup {i}, i < L
      PROVE  loaded' \subseteq 0 .. L - 1
  <2>1. i \in 0 .. L - 1
    BY <1>1, <1>3, <1>8
  <2> HIDE DEF i, L
  <2>2. QED
    BY <1>1, <1>8, <2>1
<1>9. ASSUME NEW n \in Nat, i < L
      PROVE  /\ [reg EXCEPT ![own] = held \o Entries(i, e, n)] \in [v16 : S, v24 : S]
             /\ [reg EXCEPT ![own] = held \o Entries(i, e, n)][own] = Entries(i, 0, e + n)
             /\ i > 0 => [reg EXCEPT ![own] = held \o Entries(i, e, n)][prev] = reg[prev]
  <2>1. held \o Entries(i, e, n) = Entries(i, 0, e + n)
    <3>1. i \in Nat /\ e \in Nat
      BY <1>1
    <3> HIDE DEF i, e, held
    <3>2. Entries(i, 0, e) \o Entries(i, e, n) = Entries(i, 0, e + n)
      BY <3>1, EntriesJoin
    <3>3. QED
      BY <1>6, <3>2
  <2>2. Entries(i, 0, e + n) \in S
    <3>1. e + n \in Nat
      BY <1>1
    <3>2. QED
      BY <1>1, <3>1, EntriesType
  <2>3. i \in Nat
    BY <1>1
  <2> HIDE DEF i, e, held, S
  <2>4. reg \in [v16 : S, v24 : S]
    BY <1>2
  <2>5. WritesOwn(S, reg, i, Entries(i, 0, e + n))
    BY <2>2, <2>3, <2>4, SparseWrites
  <2>6. QED
    BY <2>1, <2>5 DEF WritesOwn
<1>10. CASE SparseChunk
  <2>1. /\ i < L /\ lens[i + 1] - e > SliceSize
        /\ reg' = [reg EXCEPT ![own] = held \o Entries(i, e, SliceSize)]
        /\ at' = [at EXCEPT !.e = e + SliceSize] /\ loaded' = loaded \cup {i}
        /\ out' = out /\ done' = FALSE
    BY <1>10 DEF SparseChunk, Keeps
  <2>2. lens[i + 1] \in Nat
    <3>1. i + 1 \in 1 .. L
      BY <1>1, <1>3, <2>1
    <3>2. QED
      BY <1>3, <3>1
  <2>3. e + SliceSize <= lens[i + 1] /\ e + SliceSize \in Nat /\ SliceSize \in Nat
    BY <1>1, <2>1, <2>2, SizeAssumption
  <2>4. at' \in [i : Nat, e : Nat] /\ at'.i = i /\ at'.e = e + SliceSize
    BY <1>2, <2>1, <2>3
  <2>5. /\ reg' \in [v16 : S, v24 : S] /\ reg'[own] = Entries(i, 0, e + SliceSize)
        /\ i > 0 => reg'[prev] = reg[prev]
    BY <1>9, <2>1, <2>3
  <2>6. loaded' \subseteq 0 .. L - 1
    BY <1>8, <2>1
  <2>7. i <= L /\ i # L
    BY <1>1, <1>3, <2>1
  <2>8. i > 0 => reg'[SparseReg(i - 1)] = Entries(i - 1, 0, lens[i])
    BY <1>1, <2>5
  <2>9. out' = SparseSums(i - 1, lens) /\ ~done'
    BY <1>1, <2>1
  <2>10. reg'[SparseReg(i)] = Entries(i, 0, e + SliceSize)
    BY <2>5
  <2> HIDE DEF i, e, lens, L, S, own, prev
  <2>11. QED
    BY <1>4, <1>5, <2>3, <2>4, <2>5, <2>6, <2>7, <2>8, <2>9, <2>10 DEF L
<1>11. CASE SparseRowEnd
  <2> DEFINE n == lens[i + 1] - e
  <2>1. /\ i < L /\ n <= SliceSize
        /\ reg' = [reg EXCEPT ![own] = held \o Entries(i, e, n)]
        /\ at' = [i |-> i + 1, e |-> 0] /\ loaded' = loaded \cup {i}
        /\ out' = IF i = 0 THEN out ELSE [out EXCEPT ![i - 1] = reg[prev]]
        /\ done' = FALSE
    BY <1>11 DEF SparseRowEnd, Keeps
  <2>2. i + 1 \in 1 .. L
    BY <1>1, <1>3, <2>1
  <2>3. lens[i + 1] \in Nat
    BY <1>3, <2>2
  <2>4. n \in Nat /\ e + n = lens[i + 1]
    <3>1. \A a \in Nat, b \in Nat : b <= a => a - b \in Nat /\ b + (a - b) = a
      OBVIOUS
    <3>2. e \in Nat /\ e <= lens[i + 1]
      BY <1>1, <2>1
    <3> HIDE DEF i, e, lens
    <3>3. QED
      BY <2>3, <3>1, <3>2
  <2> HIDE DEF n
  <2>5. reg' \in [v16 : S, v24 : S] /\ reg'[own] = Entries(i, 0, lens[i + 1])
    BY <1>9, <2>1, <2>4
  <2>6. out' = SparseSums(i, lens)
    <3>1. CASE i = 0
      <4>1. \A k \in 0 .. L - 1 : ~(k < 0 - 1) /\ ~(k < 0)
        BY <1>3
      <4>2. SparseSums(0 - 1, lens) = SparseSums(0, lens)
        BY <4>1 DEF SparseSums
      <4>3. QED
        BY <1>1, <2>1, <3>1, <4>2
    <3>2. CASE i # 0
      <4>1. i > 0
        BY <1>1, <3>2
      <4>2. QED
        BY <1>7, <2>1, <3>2, <4>1
    <3>3. QED
      BY <3>1, <3>2
  <2>7. at' \in [i : Nat, e : Nat] /\ at'.i = i + 1 /\ at'.e = 0
    <3>1. i + 1 \in Nat
      BY <1>1
    <3>2. QED
      BY <2>1, <3>1
  <2>8. loaded' \subseteq 0 .. L - 1
    BY <1>8, <2>1
  <2>9. i + 1 <= L /\ (i + 1) - 1 = i /\ ~(0 > 0)
    BY <1>1, <2>2
  <2>10. i + 1 < L => 0 <= lens[(i + 1) + 1]
    <3>1. i + 1 < L => (i + 1) + 1 \in 1 .. L
      BY <1>1, <1>3
    <3>2. \A n1 \in 1 .. L : 0 <= lens[n1]
      BY <1>3
    <3>3. QED
      BY <3>1, <3>2
  <2>11. reg'[SparseReg(i)] = Entries(i, 0, lens[i + 1]) /\ ~done'
    BY <2>1, <2>5
  <2> HIDE DEF i, e, lens, L, S, own, prev
  <2>12. QED
    BY <1>4, <1>5, <2>5, <2>6, <2>7, <2>8, <2>9, <2>10, <2>11 DEF L
<1>12. CASE SparseLast
  <2>1. i = L /\ done' = TRUE /\ at' = at /\ reg' = reg /\ loaded' = loaded
        /\ out' = [out EXCEPT ![i - 1] = IF i % 2 = 0 THEN reg.v24 ELSE reg.v16]
    BY <1>12 DEF SparseLast
  <2>2. out' = SparseSums(L, lens)
    <3>1. CASE i = 0
      <4>1. 0 .. L - 1 = {}
        BY <2>1, <3>1
      <4>2. DOMAIN out = {} /\ SparseSums(L, lens) = [k \in {} |-> <<>>]
        BY <1>1, <4>1 DEF SparseSums
      <4>3. DOMAIN out' = {}
        BY <2>1, <4>2
      <4>4. out' = [k \in {} |-> out'[k]]
        BY <2>1, <4>3
      <4>5. QED
        BY <4>2, <4>4
    <3>2. CASE i # 0
      <4>1. i > 0
        BY <1>1, <3>2
      <4>2. reg[prev] = IF i % 2 = 0 THEN reg.v24 ELSE reg.v16
        <5>1. i % 2 = 0 <=> (i - 1) % 2 # 0
          <6>1. i \in Nat
            BY <1>1
          <6> HIDE DEF i
          <6>2. QED
            BY <4>1, <6>1
        <5>2. QED
          BY <5>1 DEF SparseReg
      <4>3. QED
        BY <1>7, <2>1, <4>1, <4>2
    <3>3. QED
      BY <3>1, <3>2
  <2>3. loaded' \subseteq 0 .. L - 1 /\ at' \in [i : Nat, e : Nat] /\ reg' \in [v16 : S, v24 : S]
    BY <1>1, <1>2, <2>1
  <2> HIDE DEF i, e, lens, L, S, own, prev
  <2>4. QED
    BY <1>4, <1>5, <2>1, <2>2, <2>3 DEF L
<1>13. QED
  BY <1>10, <1>11, <1>12 DEF SparseNext
-----------------------------------------------------------------------------
(***************************************************************************)
(* jacobi2d: the strips left of column j are stored, and of the strip at j *)
(* the rows below i; the registers hold the rows around i by their roles.  *)
(***************************************************************************)
Cell(s, x, y) ==
  [cell |-> Index(s, x, y),
   from |-> {Index(s, x, y), Index(s, x, y - 1), Index(s, x, y + 1),
             Index(s, x + 1, y), Index(s, x - 1, y)}]
Cells(s, P) == {Cell(s, p[1], p[2]) : p \in P}
Region(i, j, gvl, r) == ((1 .. r - 2) \X (1 .. j - 1)) \cup ((1 .. i - 1) \X (j .. j + gvl - 1))

Around(v, i) == v[RoleOf(0, i)] = i - 1 /\ v[RoleOf(1, i)] = i /\ v[RoleOf(2, i)] = i + 1

JacobiInv ==
  /\ at \in [j : Nat, i : Nat, gvl : Nat] /\ at.j >= 1
  /\ ~done => /\ at.j <= job.c - 2 /\ at.i <= job.r - 2
              /\ at.i > 0 => /\ at.gvl = Lesser(Vlmax, job.c - 2 - at.j + 1)
                             /\ reg.v \in [1 .. 3 -> Nat] /\ Around(reg.v, at.i)
                             /\ reg.izq = Index(Inc, at.i, at.j - 1) /\ reg.der = Index(Inc, at.i, at.j + at.gvl)
              /\ out = Cells(Inc, Region(at.i, at.j, at.gvl, job.r))
  /\ loaded \subseteq 0 .. job.r - 1
  /\ done => out = Cells(Inc, (1 .. job.r - 2) \X (1 .. job.c - 2))

LEMMA JacobiSize ==
  ASSUME job \in Jobs, job.kernel = "jacobi2d"
  PROVE  job.r \in Nat /\ job.c \in Nat /\ job.r > 2 /\ job.c > 2
BY KernelAssumption DEF VectorSizes, ConvSizes

LEMMA JacobiCells ==
  ASSUME NEW s
  PROVE  Stencil(s) = Cells(s, (1 .. job.r - 2) \X (1 .. job.c - 2))
<1> DEFINE I == 1 .. job.r - 2
           J == 1 .. job.c - 2
<1>1. Stencil(s) = {Cell(s, i, j) : i \in I, j \in J}
  BY DEF Stencil, Cell
<1> HIDE DEF I, J
<1>2. \A i \in I, j \in J : /\ <<i, j>> \in I \X J
                            /\ <<i, j>>[1] = i /\ <<i, j>>[2] = j
  OBVIOUS
<1>3. \A p \in I \X J : p[1] \in I /\ p[2] \in J
  OBVIOUS
<1> DEFINE A == {Cell(s, i, j) : i \in I, j \in J}
           B == Cells(s, I \X J)
<1>4. \A x : x \in A <=> \E i \in I, j \in J : x = Cell(s, i, j)
  OBVIOUS
<1>5. \A x : x \in B <=> \E p \in I \X J : x = Cell(s, p[1], p[2])
  BY DEF Cells
<1> HIDE DEF A, B
<1>6. ASSUME NEW x \in A
      PROVE  x \in B
  <2>1. PICK i \in I, j \in J : x = Cell(s, i, j)
    BY <1>4, Zenon
  <2>2. <<i, j>> \in I \X J /\ x = Cell(s, <<i, j>>[1], <<i, j>>[2])
    BY <1>2, <2>1
  <2>3. QED
    BY <1>5, <2>2, Zenon
<1>7. ASSUME NEW x \in B
      PROVE  x \in A
  <2>1. PICK p \in I \X J : x = Cell(s, p[1], p[2])
    BY <1>5, Zenon
  <2>2. QED
    BY <1>3, <1>4, <2>1, Zenon
<1>8. A = B
  BY <1>6, <1>7
<1>9. QED
  BY <1>1, <1>8 DEF A, B, I, J

LEMMA JacobiBegins ==
  ASSUME job \in Jobs, job.kernel = "jacobi2d", done = FALSE, JacobiStart
  PROVE  JacobiInv
<1>1. at = [j |-> 1, i |-> 0, gvl |-> 0] /\ out = {} /\ loaded = {}
  BY DEF JacobiStart, Start
<1>2. 1 <= job.c - 2 /\ 0 <= job.r - 2
  BY JacobiSize
<1>3. Cells(Inc, Region(0, 1, 0, job.r)) = {}
  <2>1. 1 .. 1 - 1 = {} /\ 1 .. 0 - 1 = {}
    OBVIOUS
  <2>2. \A A, B : A \X {} = {} /\ {} \X B = {}
    OBVIOUS
  <2>3. Region(0, 1, 0, job.r) = {}
    BY <2>1, <2>2 DEF Region
  <2>4. QED
    BY <2>3 DEF Cells
<1>4. at \in [j : Nat, i : Nat, gvl : Nat] /\ at.j = 1 /\ at.i = 0 /\ at.gvl = 0 /\ 1 >= 1 /\ ~(0 > 0)
  BY <1>1
<1>5. QED
  BY <1>1, <1>2, <1>3, <1>4 DEF JacobiInv

\* The register above is the one to load the row after the next one into.
LEMMA RolesRotate ==
  ASSUME NEW i \in Nat \ {0}, NEW v \in [1 .. 3 -> Nat], Around(v, i)
  PROVE  /\ [v EXCEPT ![RoleOf(0, i)] = i + 2] \in [1 .. 3 -> Nat]
         /\ Around([v EXCEPT ![RoleOf(0, i)] = i + 2], i + 1)
<1> DEFINE a == RoleOf(0, i)
           b == RoleOf(1, i)
           c == RoleOf(2, i)
<1>1. /\ a \in 1 .. 3 /\ b \in 1 .. 3 /\ c \in 1 .. 3 /\ a # b /\ a # c
      /\ RoleOf(0, i + 1) = b /\ RoleOf(1, i + 1) = c /\ RoleOf(2, i + 1) = a
  BY DEF RoleOf
<1>2. v[b] = i /\ v[c] = i + 1
  BY DEF Around
<1>3. (i + 1) - 1 = i /\ (i + 1) + 1 = i + 2 /\ i + 2 \in Nat
  OBVIOUS
<1> HIDE DEF a, b, c
<1> DEFINE w == [v EXCEPT ![a] = i + 2]
<1>4. w \in [1 .. 3 -> Nat] /\ w[b] = i /\ w[c] = i + 1 /\ w[a] = i + 2
  BY <1>1, <1>2, <1>3
<1> HIDE DEF w
<1>5. Around(w, i + 1)
  BY <1>1, <1>3, <1>4 DEF Around
<1>6. QED
  BY <1>4, <1>5 DEF w, a

LEMMA CellsJoin ==
  ASSUME NEW s, NEW P, NEW Q
  PROVE  Cells(s, P \cup Q) = Cells(s, P) \cup Cells(s, Q)
BY DEF Cells

LastRowOfStrip(i, j, gvl, r) ==
  i = r - 2 => /\ Region(i + 1, j, gvl, r) = Region(0, j + gvl, gvl, r)
               /\ Region(i + 1, j, gvl, r) = (1 .. r - 2) \X (1 .. j + gvl - 1)

LEMMA RegionGrows ==
  ASSUME NEW i \in Nat \ {0}, NEW j \in Nat \ {0}, NEW gvl \in Nat, NEW r \in Nat, i <= r - 2
  PROVE  /\ Region(i, j, gvl, r) \cup ({i} \X (j .. j + gvl - 1)) = Region(i + 1, j, gvl, r)
         /\ LastRowOfStrip(i, j, gvl, r)
<1> DEFINE A == 1 .. r - 2
           B == 1 .. j - 1
           C == j .. j + gvl - 1
<1>1. (1 .. i - 1) \cup {i} = 1 .. (i + 1) - 1 /\ B \cup C = 1 .. (j + gvl) - 1
      /\ 1 .. 0 - 1 = {} /\ (i = r - 2 => 1 .. (i + 1) - 1 = A)
  OBVIOUS
<1>2. \A P, Q, S : ((P \X S) \cup (Q \X S)) = (P \cup Q) \X S /\ ((S \X P) \cup (S \X Q)) = S \X (P \cup Q)
                   /\ {} \X S = {}
  OBVIOUS
<1> HIDE DEF A, B, C
<1>3. \A P, Q, S : (P \cup Q) \cup S = P \cup (Q \cup S)
  OBVIOUS
<1>4. Region(i, j, gvl, r) \cup ({i} \X C) = Region(i + 1, j, gvl, r)
  <2>1. ((1 .. i - 1) \X C) \cup ({i} \X C) = (1 .. (i + 1) - 1) \X C
    BY <1>1, <1>2
  <2>2. Region(i, j, gvl, r) = (A \X B) \cup ((1 .. i - 1) \X C)
        /\ Region(i + 1, j, gvl, r) = (A \X B) \cup ((1 .. (i + 1) - 1) \X C)
    BY DEF Region, A, B, C
  <2>3. QED
    BY <1>3, <2>1, <2>2
<1>5. ASSUME i = r - 2
      PROVE  /\ Region(i + 1, j, gvl, r) = A \X (1 .. (j + gvl) - 1)
             /\ Region(0, j + gvl, gvl, r) = A \X (1 .. (j + gvl) - 1)
  <2>1. Region(i + 1, j, gvl, r) = (A \X B) \cup (A \X C)
    BY <1>1, <1>5 DEF Region, A, B, C
  <2>2. (A \X B) \cup (A \X C) = A \X (B \cup C)
    BY <1>2
  <2>3. Region(0, j + gvl, gvl, r)
          = (A \X (1 .. (j + gvl) - 1)) \cup ({} \X (j + gvl .. (j + gvl) + gvl - 1))
    BY <1>1 DEF Region, A
  <2>4. QED
    BY <1>1, <1>2, <2>1, <2>2, <2>3
<1>6. QED
  BY <1>4, <1>5 DEF A, C, LastRowOfStrip

LEMMA JacobiMoves ==
  ASSUME job \in Jobs, job.kernel = "jacobi2d", done = FALSE, job' = job, JacobiInv, JacobiNext
  PROVE  JacobiInv'
<1> DEFINE i == at.i
           j == at.j
           gvl == at.gvl
           r == job.r
           c == job.c
           v == reg.v
<1>1. /\ i \in Nat /\ j \in Nat /\ gvl \in Nat /\ r \in Nat /\ c \in Nat /\ r > 2 /\ c > 2
      /\ j >= 1 /\ j <= c - 2 /\ i <= r - 2
  BY JacobiSize DEF JacobiInv
<1>2. /\ at \in [j : Nat, i : Nat, gvl : Nat]
      /\ i > 0 => /\ gvl = Lesser(Vlmax, c - 2 - j + 1) /\ v \in [1 .. 3 -> Nat] /\ Around(v, i)
                  /\ reg.izq = Index(Inc, i, j - 1) /\ reg.der = Index(Inc, i, j + gvl)
      /\ out = Cells(Inc, Region(i, j, gvl, r)) /\ loaded \subseteq 0 .. r - 1
  BY DEF JacobiInv
<1>3. JacobiInv' =
        /\ at' \in [j : Nat, i : Nat, gvl : Nat] /\ at'.j >= 1
        /\ ~done' => /\ at'.j <= job'.c - 2 /\ at'.i <= job'.r - 2
                     /\ at'.i > 0 => /\ at'.gvl = Lesser(Vlmax, job'.c - 2 - at'.j + 1)
                                     /\ reg'.v \in [1 .. 3 -> Nat] /\ Around(reg'.v, at'.i)
                                     /\ reg'.izq = Index(Inc, at'.i, at'.j - 1)
                                     /\ reg'.der = Index(Inc, at'.i, at'.j + at'.gvl)
                     /\ out' = Cells(Inc, Region(at'.i, at'.j, at'.gvl, job'.r))
        /\ loaded' \subseteq 0 .. job'.r - 1
        /\ done' => out' = Cells(Inc, (1 .. job'.r - 2) \X (1 .. job'.c - 2))
  <2>1. Inc' = Inc
    BY DEF Inc
  <2>2. QED
    BY <2>1 DEF JacobiInv
<1>4. job'.r = r /\ job'.c = c
  OBVIOUS
<1>5. Lesser(Vlmax, c - 2 - j + 1) \in Nat \ {0} /\ j + Lesser(Vlmax, c - 2 - j + 1) <= c - 1
  <2>1. Vlmax \in Nat \ {0} /\ c - 2 - j + 1 \in Nat \ {0} /\ j + (c - 2 - j + 1) = c - 1 /\ j \in Nat
    BY <1>1, SizeAssumption
  <2>2. \A a, b \in Nat : j + a <= j + b <=> a <= b
    BY <2>1
  <2>3. QED
    BY <1>1, SizeAssumption DEF Lesser
<1>6. CASE JacobiStrip
  <2> DEFINE g == Lesser(Vlmax, c - 2 - j + 1)
  <2>1. /\ i = 0 /\ at' = [at EXCEPT !.i = 1, !.gvl = g]
        /\ reg' = [v |-> <<0, 1, 2>>, izq |-> Index(Inc, 1, j - 1), der |-> Index(Inc, 1, j + g)]
        /\ loaded' = loaded \cup {0, 1, 2} /\ out' = out /\ done' = FALSE
    BY <1>6 DEF JacobiStrip, Keeps
  <2>2. g \in Nat
    BY <1>5
  <2> HIDE DEF g
  <2>3. at' \in [j : Nat, i : Nat, gvl : Nat] /\ at'.i = 1 /\ at'.j = j /\ at'.gvl = g
    BY <1>2, <2>1, <2>2
  <2>4. reg'.v \in [1 .. 3 -> Nat] /\ Around(reg'.v, 1)
    <3>1. RoleOf(0, 1) = 1 /\ RoleOf(1, 1) = 2 /\ RoleOf(2, 1) = 3
      BY DEF RoleOf
    <3>2. <<0, 1, 2>> \in [1 .. 3 -> Nat] /\ <<0, 1, 2>>[1] = 0 /\ <<0, 1, 2>>[2] = 1 /\ <<0, 1, 2>>[3] = 2
      OBVIOUS
    <3>3. 1 - 1 = 0 /\ 1 + 1 = 2
      OBVIOUS
    <3>4. QED
      BY <2>1, <3>1, <3>2, <3>3 DEF Around
  <2>5. reg'.izq = Index(Inc, 1, j - 1) /\ reg'.der = Index(Inc, 1, j + g)
    BY <2>1
  <2>6. loaded' \subseteq 0 .. r - 1
    <3>1. 0 \in 0 .. r - 1 /\ 1 \in 0 .. r - 1 /\ 2 \in 0 .. r - 1
      BY <1>1
    <3>2. loaded' = loaded \cup {0, 1, 2} /\ loaded \subseteq 0 .. r - 1
      BY <1>2, <2>1
    <3> HIDE DEF r
    <3>3. QED
      BY <3>1, <3>2
  <2>7. Region(1, j, g, r) = Region(i, j, gvl, r)
    <3>1. 1 .. 1 - 1 = {} /\ 1 .. 0 - 1 = {}
      OBVIOUS
    <3>2. \A S : {} \X S = {}
      OBVIOUS
    <3>3. Region(1, j, g, r) = ((1 .. r - 2) \X (1 .. j - 1)) \cup {}
      BY <3>1, <3>2 DEF Region
    <3>4. Region(0, j, gvl, r) = ((1 .. r - 2) \X (1 .. j - 1)) \cup {}
      BY <3>1, <3>2 DEF Region
    <3>5. QED
      BY <2>1, <3>3, <3>4
  <2>8. out' = Cells(Inc, Region(1, j, g, r))
    BY <1>2, <2>1, <2>7
  <2>9. j >= 1 /\ j <= c - 2 /\ 1 <= r - 2
    BY <1>1
  <2>10. g = Lesser(Vlmax, c - 2 - j + 1) /\ ~done'
    BY <2>1 DEF g
  <2> HIDE DEF i, j, gvl, r, c, v
  <2>11. QED
    BY <1>3, <1>4, <2>3, <2>4, <2>5, <2>6, <2>8, <2>9, <2>10
<1>7. CASE JacobiRow
  <2> DEFINE row(k) == v[RoleOf(k, i)]
             columns == j .. j + gvl - 1
             uses(y) == {Index(Inc, row(0), y), Index(Inc, row(1), y), Index(Inc, row(2), y),
                         IF y = j THEN reg.izq ELSE Index(Inc, row(1), y - 1),
                         IF y = j + gvl - 1 THEN reg.der ELSE Index(Inc, row(1), y + 1)}
  <2>1. /\ i > 0
        /\ out' = out \cup {[cell |-> Index(Inc, i, y), from |-> uses(y)] : y \in columns}
        /\ RowAhead(i) => /\ reg' = [v |-> [v EXCEPT ![RoleOf(0, i)] = i + 2],
                                     izq |-> Index(Inc, i + 1, j - 1), der |-> Index(Inc, i + 1, j + gvl)]
                          /\ at' = [at EXCEPT !.i = i + 1]
                          /\ loaded' = loaded \cup {i + 2}
        /\ ~RowAhead(i) => at' = [at EXCEPT !.i = 0, !.j = j + gvl] /\ loaded' = loaded
        /\ done' = (~RowAhead(i) /\ j + gvl > c - 2)
    BY <1>7 DEF JacobiRow, Keeps
  <2>2. RowAhead(i) <=> i + 1 <= r - 2
    BY DEF RowAhead
  <2>3. /\ gvl = Lesser(Vlmax, c - 2 - j + 1) /\ v \in [1 .. 3 -> Nat] /\ Around(v, i)
        /\ reg.izq = Index(Inc, i, j - 1) /\ reg.der = Index(Inc, i, j + gvl)
    BY <1>2, <2>1
  <2>4. gvl \in Nat \ {0} /\ j + gvl <= c - 1
    BY <1>5, <2>3
  <2>5. /\ i \in Nat \ {0} /\ j \in Nat \ {0} /\ gvl \in Nat \ {0} /\ r \in Nat /\ c \in Nat
        /\ r > 2 /\ c > 2 /\ j <= c - 2 /\ i <= r - 2
    BY <1>1, <2>1, <2>4
  <2>6. row(0) = i - 1 /\ row(1) = i /\ row(2) = i + 1
    BY <2>3 DEF Around
  <2> HIDE DEF i, j, gvl, r, c, v, row
  <2>7. ASSUME NEW y \in columns
        PROVE  [cell |-> Index(Inc, i, y), from |-> uses(y)] = Cell(Inc, i, y)
    <3>1. (IF y = j THEN reg.izq ELSE Index(Inc, row(1), y - 1)) = Index(Inc, i, y - 1)
      BY <2>3, <2>6
    <3>2. (IF y = j + gvl - 1 THEN reg.der ELSE Index(Inc, row(1), y + 1)) = Index(Inc, i, y + 1)
      <4>1. y = j + gvl - 1 => j + gvl = y + 1
        BY <2>5
      <4>2. QED
        BY <2>3, <2>6, <4>1
    <3>3. uses(y) = {Index(Inc, i, y), Index(Inc, i, y - 1), Index(Inc, i, y + 1),
                      Index(Inc, i + 1, y), Index(Inc, i - 1, y)}
      BY <2>6, <3>1, <3>2
    <3>4. QED
      BY <3>3 DEF Cell
  <2> HIDE DEF uses
  <2>8. {[cell |-> Index(Inc, i, y), from |-> uses(y)] : y \in columns} = Cells(Inc, {i} \X columns)
    <3>1. {[cell |-> Index(Inc, i, y), from |-> uses(y)] : y \in columns} = {Cell(Inc, i, y) : y \in columns}
      BY <2>7
    <3> HIDE DEF columns
    <3>2. {Cell(Inc, i, y) : y \in columns} = Cells(Inc, {i} \X columns)
      <4>1. \A y \in columns : /\ <<i, y>> \in {i} \X columns
                              /\ <<i, y>>[1] = i /\ <<i, y>>[2] = y
        OBVIOUS
      <4>2. \A p \in {i} \X columns : p[1] = i /\ p[2] \in columns
        OBVIOUS
      <4>3. QED
        BY <4>1, <4>2 DEF Cells
    <3>3. QED
      BY <3>1, <3>2
  <2>9. out' = Cells(Inc, Region(i + 1, j, gvl, r))
    <3>1. Region(i, j, gvl, r) \cup ({i} \X columns) = Region(i + 1, j, gvl, r)
      BY <2>5, RegionGrows
    <3> HIDE DEF columns
    <3>2. out' = Cells(Inc, Region(i, j, gvl, r)) \cup Cells(Inc, {i} \X columns)
      BY <1>2, <2>1, <2>8
    <3>3. QED
      BY <3>1, <3>2, CellsJoin
  <2>10. CASE RowAhead(i)
    <3>1. i + 1 <= r - 2 /\ i + 1 \in Nat
      BY <2>2, <2>5, <2>10
    <3>2. at' \in [j : Nat, i : Nat, gvl : Nat] /\ at'.i = i + 1 /\ at'.j = j /\ at'.gvl = gvl
      <4>1. at' = [at EXCEPT !.i = i + 1] /\ at.j = j /\ at.gvl = gvl
        BY <2>1, <2>10 DEF j, gvl
      <4>2. QED
        BY <1>2, <3>1, <4>1
    <3>3. reg'.v \in [1 .. 3 -> Nat] /\ Around(reg'.v, i + 1)
      <4>1. /\ [v EXCEPT ![RoleOf(0, i)] = i + 2] \in [1 .. 3 -> Nat]
            /\ Around([v EXCEPT ![RoleOf(0, i)] = i + 2], i + 1)
        BY <2>3, <2>5, RolesRotate
      <4>2. reg'.v = [v EXCEPT ![RoleOf(0, i)] = i + 2]
        BY <2>1, <2>10
      <4>3. QED
        BY <4>1, <4>2
    <3>4. reg'.izq = Index(Inc, i + 1, j - 1) /\ reg'.der = Index(Inc, i + 1, j + gvl)
      BY <2>1, <2>10
    <3>5. loaded' \subseteq 0 .. r - 1
      <4>1. i + 2 \in 0 .. r - 1
        BY <2>5, <3>1
      <4>2. QED
        BY <1>2, <2>1, <2>10, <4>1
    <3>6. ~done' /\ j >= 1 /\ j <= c - 2
      <4>1. ~done'
        BY <2>1, <2>10
      <4>2. j >= 1 /\ j <= c - 2
        BY <2>5
      <4>3. QED
        BY <4>1, <4>2
    <3>7. QED
      BY <1>3, <1>4, <2>3, <2>9, <3>1, <3>2, <3>3, <3>4, <3>5, <3>6
  <2>11. CASE ~RowAhead(i)
    <3>1. i = r - 2 /\ j + gvl \in Nat /\ j + gvl >= 1 /\ 0 <= r - 2 /\ ~(0 > 0)
      BY <2>2, <2>5, <2>11
    <3>2. at' \in [j : Nat, i : Nat, gvl : Nat] /\ at'.i = 0 /\ at'.j = j + gvl /\ at'.gvl = gvl
      <4>1. at' = [at EXCEPT !.i = 0, !.j = j + gvl] /\ at.gvl = gvl
        BY <2>1, <2>11 DEF gvl
      <4>2. QED
        BY <1>2, <3>1, <4>1
    <3>3. loaded' \subseteq 0 .. r - 1
      BY <1>2, <2>1, <2>11
    <3>4. /\ Region(i + 1, j, gvl, r) = Region(0, j + gvl, gvl, r)
          /\ Region(i + 1, j, gvl, r) = (1 .. r - 2) \X (1 .. j + gvl - 1)
      <4>1. i \in Nat \ {0} /\ j \in Nat \ {0} /\ gvl \in Nat /\ r \in Nat /\ i <= r - 2
        BY <2>5
      <4>2. i = r - 2
        BY <3>1
      <4>3. LastRowOfStrip(i, j, gvl, r)
        BY <4>1, RegionGrows
      <4>4. QED
        BY <4>2, <4>3 DEF LastRowOfStrip
    <3>5. done' <=> j + gvl > c - 2
      BY <2>1, <2>11
    <3>6. IF j + gvl > c - 2 THEN j + gvl - 1 = c - 2 ELSE j + gvl <= c - 2
      BY <2>4, <2>5
    <3>7. out' = Cells(Inc, Region(0, j + gvl, gvl, r)) /\ out' = Cells(Inc, (1 .. r - 2) \X (1 .. j + gvl - 1))
      BY <2>9, <3>4
    <3>8. ~done' => j + gvl <= c - 2
      BY <3>5, <3>6
    <3>9. done' => out' = Cells(Inc, (1 .. r - 2) \X (1 .. c - 2))
      BY <3>5, <3>6, <3>7
    <3>10. QED
      BY <1>3, <1>4, <3>1, <3>2, <3>3, <3>7, <3>8, <3>9
  <2>12. QED
    BY <2>10, <2>11
<1>8. QED
  BY <1>6, <1>7 DEF JacobiNext
-----------------------------------------------------------------------------
(***************************************************************************)
(* gemv: after i rows of slice s the register written last holds the sums  *)
(* of the rows of the block rotated by i - 1, and the rows up to i have    *)
(* one part more.                                                          *)
(***************************************************************************)
Parts(r, n) == [q \in 1 .. n |-> <<r, q - 1>>]

\* The row of the block whose sum is in element k.
RowAt(i, k, h) ==
  IF i - 1 + k < 0 THEN h - 1 ELSE IF i - 1 + k < h THEN i - 1 + k ELSE i - 1 + k - h

Holds(v, i, s, base, h) ==
  \A k \in 0 .. h - 1 :
    v[k] = Parts(base + RowAt(i, k, h), IF RowAt(i, k, h) < i THEN s + 1 ELSE s)

WrittenLast(regs, i) == IF i % 2 = 1 THEN regs.v16 ELSE regs.v24

SliceSums(b, rows, n) ==
  [r \in 0 .. rows - 1 |-> IF r \div SliceSize < b THEN Parts(r, n) ELSE <<>>]

SliceInv ==
  /\ at \in [b : Nat, s : Nat, i : Nat] /\ reg \in [v16 : {reg.v16}, v24 : {reg.v24}]
  /\ ~done => /\ at.b * SliceSize < job.rows /\ at.s <= Slices /\ at.i <= Height(at.b)
              /\ at.s = Slices => at.i = 0
              /\ Holds(WrittenLast(reg, at.i), at.i, at.s, at.b * SliceSize, Height(at.b))
              /\ out = SliceSums(at.b, job.rows, Slices)
  /\ loaded \subseteq 0 .. job.rows - 1
  /\ done => out = SliceResult

LEMMA SliceSize1 ==
  ASSUME job \in Jobs, job.kernel = "gemv"
  PROVE  job.rows \in Nat \ {0} /\ job.cols \in Nat
BY KernelAssumption DEF VectorSizes, ConvSizes

LEMMA PartsGrow ==
  ASSUME NEW r \in Nat, NEW n \in Nat
  PROVE  Append(Parts(r, n), <<r, n>>) = Parts(r, n + 1)
<1>1. Parts(r, n) \in [1 .. n -> Nat \X Nat] /\ <<r, n>> \in Nat \X Nat
  BY DEF Parts
<1>2. Append(Parts(r, n), <<r, n>>)
        = [k \in 1 .. n + 1 |-> IF k = n + 1 THEN <<r, n>> ELSE Parts(r, n)[k]]
  BY <1>1, Appended
<1>3. \A k \in 1 .. n + 1 : (IF k = n + 1 THEN <<r, n>> ELSE Parts(r, n)[k]) = <<r, k - 1>>
  BY DEF Parts
<1>4. QED
  BY <1>2, <1>3 DEF Parts

LEMMA RowsRotate ==
  ASSUME NEW h \in Nat \ {0}, NEW i \in 0 .. h - 1
  PROVE  \A k \in 0 .. h - 1 :
           RowAt(i + 1, k, h) = IF k < h - 1 THEN RowAt(i, k + 1, h) ELSE RowAt(i, 0, h)
BY DEF RowAt

\* The next row of a slice: rotated by one, a part is added to element 0.
AddPart(from, to, i, s, base, h) ==
  [Rotated(from, to, h) EXCEPT ![0] = Append(@, <<base + i, s>>)]

LEMMA HoldsNext ==
  ASSUME NEW from, NEW to, NEW s \in Nat, NEW base \in Nat, NEW h \in 1 .. SliceSize,
         NEW i \in 0 .. h - 1, Holds(from, i, s, base, h)
  PROVE  Holds(AddPart(from, to, i, s, base, h), i + 1, s, base, h)
<1> DEFINE rot == Rotated(from, to, h)
<1>1. SliceSize \in Nat \ {0} /\ h \in Nat \ {0} /\ h <= SliceSize
  BY SizeAssumption
<1>2. \A k \in 0 .. h - 1 : rot[k] = IF k < h - 1 THEN from[k + 1] ELSE from[0]
  <2>1. ASSUME NEW k \in 0 .. h - 1
        PROVE  rot[k] = IF k < h - 1 THEN from[k + 1] ELSE from[0]
    <3>1. k \in 0 .. SliceSize - 1 /\ (~(k < h - 1) => k = h - 1)
      BY <1>1
    <3>2. QED
      BY <3>1 DEF Rotated
  <2>2. QED
    BY <2>1
<1>3. ASSUME NEW k \in 0 .. h - 1
      PROVE  rot[k] = Parts(base + RowAt(i + 1, k, h), IF RowAt(i + 1, k, h) < i THEN s + 1 ELSE s)
  <2>1. RowAt(i + 1, k, h) = IF k < h - 1 THEN RowAt(i, k + 1, h) ELSE RowAt(i, 0, h)
    BY <1>1, RowsRotate
  <2>2. CASE k < h - 1
    <3>1. k + 1 \in 0 .. h - 1
      BY <1>1, <2>2
    <3>2. from[k + 1] = Parts(base + RowAt(i, k + 1, h), IF RowAt(i, k + 1, h) < i THEN s + 1 ELSE s)
      BY <3>1 DEF Holds
    <3>3. rot[k] = from[k + 1] /\ RowAt(i + 1, k, h) = RowAt(i, k + 1, h)
      BY <1>2, <2>1, <2>2
    <3> HIDE DEF rot
    <3>4. QED
      BY <3>2, <3>3
  <2>3. CASE ~(k < h - 1)
    <3>1. 0 \in 0 .. h - 1
      BY <1>1
    <3>2. from[0] = Parts(base + RowAt(i, 0, h), IF RowAt(i, 0, h) < i THEN s + 1 ELSE s)
      BY <3>1 DEF Holds
    <3>3. rot[k] = from[0] /\ RowAt(i + 1, k, h) = RowAt(i, 0, h)
      BY <1>2, <2>1, <2>3
    <3> HIDE DEF rot
    <3>4. QED
      BY <3>2, <3>3
  <2>4. QED
    BY <2>2, <2>3
<1>4. 0 \in DOMAIN rot /\ \A k \in 0 .. h - 1 : k \in DOMAIN rot
  <2>1. DOMAIN rot = 0 .. SliceSize - 1
    BY DEF Rotated
  <2>2. 0 \in 0 .. SliceSize - 1 /\ \A k \in 0 .. h - 1 : k \in 0 .. SliceSize - 1
    BY <1>1
  <2> HIDE DEF rot
  <2>3. QED
    BY <2>1, <2>2
<1> DEFINE new == AddPart(from, to, i, s, base, h)
<1>5. new = [rot EXCEPT ![0] = Append(rot[0], <<base + i, s>>)]
  BY DEF AddPart
<1> HIDE DEF rot, new
<1>6. ASSUME NEW k \in 0 .. h - 1
      PROVE  new[k] = Parts(base + RowAt(i + 1, k, h), IF RowAt(i + 1, k, h) < i + 1 THEN s + 1 ELSE s)
  <2>1. RowAt(i + 1, k, h) \in 0 .. h - 1 /\ (RowAt(i + 1, k, h) = i <=> k = 0)
    BY <1>1 DEF RowAt
  <2>2. CASE k = 0
    <3>1. RowAt(i + 1, k, h) = i
      BY <2>1, <2>2
    <3>2. ~(i < i) /\ i < i + 1
      OBVIOUS
    <3>3. rot[0] = Parts(base + i, s)
      BY <1>3, <2>2, <3>1, <3>2
    <3>4. base + i \in Nat
      BY <1>1
    <3>5. Append(Parts(base + i, s), <<base + i, s>>) = Parts(base + i, s + 1)
      BY <3>4, PartsGrow
    <3>6. new[k] = Append(rot[0], <<base + i, s>>)
      BY <1>4, <1>5, <2>2
    <3>7. QED
      BY <3>1, <3>2, <3>3, <3>5, <3>6
  <2>3. CASE k # 0
    <3>1. RowAt(i + 1, k, h) < i <=> RowAt(i + 1, k, h) < i + 1
      <4>1. RowAt(i + 1, k, h) # i
        BY <2>1, <2>3
      <4>2. QED
        BY <2>1, <4>1
    <3>2. new[k] = rot[k]
      BY <1>4, <1>5, <2>3
    <3>3. QED
      BY <1>3, <3>1, <3>2
  <2>4. QED
    BY <2>2, <2>3
<1>7. Holds(new, i + 1, s, base, h)
  BY <1>6 DEF Holds
<1>8. QED
  BY <1>7 DEF new

\* The end of a slice: all the rows have one part more.
LEMMA HoldsEnd ==
  ASSUME NEW v, NEW s \in Nat, NEW base \in Nat, NEW h \in Nat \ {0}, Holds(v, h, s, base, h)
  PROVE  Holds(v, 0, s + 1, base, h)
<1>1. \A k \in 0 .. h - 1 : RowAt(h, k, h) = RowAt(0, k, h) /\ RowAt(h, k, h) < h /\ ~(RowAt(0, k, h) < 0)
  BY DEF RowAt
<1>2. QED
  BY <1>1 DEF Holds

\* An empty register holds no part of any row.
LEMMA HoldsNothing ==
  ASSUME NEW base \in Nat, NEW h \in 0 .. SliceSize
  PROVE  Holds(NoElements, 0, 0, base, h)
<1>1. \A k \in 0 .. h - 1 : k \in 0 .. SliceSize - 1 /\ ~(RowAt(0, k, h) < 0)
  BY SizeAssumption DEF RowAt
<1>2. \A r : Parts(r, 0) = <<>>
  BY DEF Parts
<1>3. \A k \in 0 .. h - 1 : NoElements[k] = <<>>
  BY <1>1 DEF NoElements
<1>4. QED
  BY <1>1, <1>2, <1>3 DEF Holds

\* Rotated once more, the sums are in the order of the rows.
LEMMA SumsInOrder ==
  ASSUME NEW v, NEW to, NEW s \in Nat, NEW base \in Nat, NEW h \in 1 .. SliceSize, Holds(v, 0, s, base, h)
  PROVE  \A k \in 0 .. h - 1 : Rotated(v, to, h)[k] = Parts(base + k, s)
<1>1. SliceSize \in Nat \ {0} /\ h \in Nat \ {0} /\ h <= SliceSize
  BY SizeAssumption
<1>2. ASSUME NEW k \in 0 .. h - 1
      PROVE  Rotated(v, to, h)[k] = Parts(base + k, s)
  <2>1. k \in 0 .. SliceSize - 1 /\ (~(k < h - 1) => k = h - 1) /\ 0 \in 0 .. h - 1
        /\ (k < h - 1 => k + 1 \in 0 .. h - 1)
    BY <1>1
  <2>2. Rotated(v, to, h)[k] = IF k < h - 1 THEN v[k + 1] ELSE v[0]
    BY <2>1 DEF Rotated
  <2>3. \A x \in 0 .. h - 1 : RowAt(0, x, h) = (IF x = 0 THEN h - 1 ELSE x - 1) /\ ~(RowAt(0, x, h) < 0)
    BY <1>1 DEF RowAt
  <2>4. \A x \in 0 .. h - 1 : v[x] = Parts(base + (IF x = 0 THEN h - 1 ELSE x - 1), s)
    BY <2>3 DEF Holds
  <2>5. CASE k < h - 1
    <3>1. k + 1 # 0 /\ (k + 1) - 1 = k
      OBVIOUS
    <3>2. v[k + 1] = Parts(base + k, s)
      BY <2>1, <2>4, <2>5, <3>1
    <3>3. QED
      BY <2>2, <2>5, <3>2
  <2>6. CASE ~(k < h - 1)
    <3>1. v[0] = Parts(base + (h - 1), s) /\ k = h - 1
      BY <2>1, <2>4, <2>6
    <3>2. QED
      BY <2>2, <2>6, <3>1
  <2>7. QED
    BY <2>5, <2>6
<1>3. QED
  BY <1>2

LEMMA SliceBegins ==
  ASSUME job \in Jobs, job.kernel = "gemv", done = FALSE, SliceStart
  PROVE  SliceInv
<1>1. /\ at = [b |-> 0, s |-> 0, i |-> 0] /\ reg = [v16 |-> NoElements, v24 |-> NoElements]
      /\ loaded = {} /\ out = NoSums(job.rows)
  BY DEF SliceStart, Start
<1>2. job.rows \in Nat \ {0} /\ job.cols \in Nat /\ SliceSize \in Nat \ {0}
  BY SliceSize1, SizeAssumption
<1>3. 0 * SliceSize = 0 /\ 0 < job.rows
  BY <1>2
<1>4. Slices \in Nat
  <2>1. job.cols + SliceSize - 1 \in Nat
    BY <1>2
  <2>2. QED
    BY <1>2, <2>1, DivModParts DEF Slices
<1>5. Height(0) \in 0 .. SliceSize
  BY <1>2, <1>3 DEF Height, Lesser
<1>6. Holds(NoElements, 0, 0, 0, Height(0))
  BY <1>5, HoldsNothing
<1>7. out = SliceSums(0, job.rows, Slices)
  <2>1. \A r \in 0 .. job.rows - 1 : ~(r \div SliceSize < 0)
    <3>1. \A r \in Nat : r \div SliceSize \in Nat
      BY <1>2, DivModParts
    <3>2. \A r \in 0 .. job.rows - 1 : r \in Nat
      BY <1>2
    <3>3. \A q \in Nat : ~(q < 0)
      OBVIOUS
    <3>4. QED
      BY <3>1, <3>2, <3>3
  <2>2. QED
    BY <1>1, <2>1 DEF SliceSums, NoSums
<1>8. WrittenLast(reg, 0) = NoElements /\ reg \in [v16 : {reg.v16}, v24 : {reg.v24}]
  BY <1>1 DEF WrittenLast
<1>9. at \in [b : Nat, s : Nat, i : Nat] /\ at.b = 0 /\ at.s = 0 /\ at.i = 0
  BY <1>1
<1>10. 0 <= Slices /\ 0 <= Height(0)
  BY <1>4, <1>5
<1>11. /\ at.b * SliceSize < job.rows /\ at.b * SliceSize = 0
       /\ at.s <= Slices /\ at.i <= Height(at.b) /\ at.i = 0
  BY <1>3, <1>9, <1>10
<1>12. Holds(WrittenLast(reg, at.i), at.i, at.s, at.b * SliceSize, Height(at.b))
  BY <1>6, <1>8, <1>9, <1>11
<1>13. out = SliceSums(at.b, job.rows, Slices) /\ loaded \subseteq 0 .. job.rows - 1
  BY <1>1, <1>7, <1>9
<1>14. at \in [b : Nat, s : Nat, i : Nat] /\ reg \in [v16 : {reg.v16}, v24 : {reg.v24}]
  BY <1>8, <1>9
<1>15. at.s = Slices => at.i = 0
  BY <1>11
<1>16. at.b * SliceSize < job.rows /\ at.s <= Slices /\ at.i <= Height(at.b)
  BY <1>11
<1>17. QED
  BY <1>12, <1>13, <1>14, <1>15, <1>16 DEF SliceInv

\* The block a row is in.
LEMMA BlockOfRow ==
  ASSUME NEW S \in Nat \ {0}, NEW r \in Nat
  PROVE  /\ r \div S \in Nat /\ r % S \in 0 .. S - 1
         /\ \A b \in Nat : r \div S = b => r = b * S + (r % S)
         /\ \A b \in Nat : (b + 1) * S > r => r \div S <= b
<1>1. r \div S \in Nat /\ r % S \in 0 .. S - 1 /\ r = S * (r \div S) + (r % S)
  BY DivModParts
<1>2. ASSUME NEW b \in Nat, r \div S = b
      PROVE  r = b * S + (r % S)
  <2>1. r = S * b + (r % S)
    BY <1>1, <1>2
  <2>2. S * b = b * S
    OBVIOUS
  <2>3. QED
    BY <2>1, <2>2
<1>3. ASSUME NEW b \in Nat, (b + 1) * S > r
      PROVE  r \div S <= b
  <2>1. S - 1 \in 0 .. S - 1 /\ S * b + (S - 1) \in Nat /\ r <= S * b + (S - 1)
    BY <1>3
  <2>2. (S * b + (S - 1)) \div S = b
    BY <2>1, DivModUnique
  <2>3. r \div S <= (S * b + (S - 1)) \div S
    BY <2>1, DivMonotonic
  <2>4. QED
    BY <2>2, <2>3
<1>4. QED
  BY <1>1, <1>2, <1>3

LEMMA SliceMoves ==
  ASSUME job \in Jobs, job.kernel = "gemv", done = FALSE, job' = job, SliceInv, SliceNext
  PROVE  SliceInv'
<1> DEFINE b == at.b
           s == at.s
           i == at.i
           rows == job.rows
           base == b * SliceSize
           h == Height(b)
           n == Slices
           H(x) == Lesser(SliceSize, rows - x * SliceSize)
<1>1. /\ b \in Nat /\ s \in Nat /\ i \in Nat /\ rows \in Nat \ {0} /\ job.cols \in Nat
      /\ base < rows /\ s <= n /\ i <= h
      /\ s = n => i = 0
  BY SliceSize1 DEF SliceInv
<1>2. /\ Holds(WrittenLast(reg, i), i, s, base, h)
      /\ out = SliceSums(b, rows, n)
      /\ loaded \subseteq 0 .. rows - 1
      /\ at \in [b : Nat, s : Nat, i : Nat] /\ reg \in [v16 : {reg.v16}, v24 : {reg.v24}]
  BY DEF SliceInv
<1>3. SliceInv' =
        /\ at' \in [b : Nat, s : Nat, i : Nat] /\ reg' \in [v16 : {reg'.v16}, v24 : {reg'.v24}]
        /\ ~done' => /\ at'.b * SliceSize < rows /\ at'.s <= n /\ at'.i <= H(at'.b)
                     /\ at'.s = n => at'.i = 0
                     /\ Holds(WrittenLast(reg', at'.i), at'.i, at'.s, at'.b * SliceSize, H(at'.b))
                     /\ out' = SliceSums(at'.b, rows, n)
        /\ loaded' \subseteq 0 .. rows - 1
        /\ done' => out' = SliceResult'
  BY DEF SliceInv, Height, Slices
<1>4. SliceResult' = SliceResult
  BY DEF SliceResult, Slices
<1>5. h = H(b)
  BY DEF Height
<1>6. SliceSize \in Nat \ {0} /\ base \in Nat
  BY <1>1, SizeAssumption
<1>7. n \in Nat
  <2>1. job.cols + SliceSize - 1 \in Nat
    BY <1>1, <1>6
  <2>2. QED
    BY <1>6, <2>1, DivModParts DEF Slices
<1>8. h \in 1 .. SliceSize /\ base + h <= rows /\ (h < SliceSize => base + h = rows)
  <2>1. rows - base \in Nat \ {0} /\ base + (rows - base) = rows
    BY <1>1, <1>6
  <2>2. h = Lesser(SliceSize, rows - base)
    BY DEF Height
  <2> HIDE DEF h, rows, base
  <2>3. QED
    BY <1>1, <1>6, <2>1, <2>2 DEF Lesser
<1>9. s \in Nat /\ b \in Nat /\ i \in Nat
  BY <1>1
<1> HIDE DEF n
<1>10. CASE SliceRow
  <2> DEFINE from == WrittenLast(reg, i)
             to == WrittenLast(reg, i + 1)
  <2>1. /\ s < n /\ i < h /\ at' = [at EXCEPT !.i = i + 1] /\ loaded' = loaded \cup {base + i}
        /\ out' = out /\ done' = FALSE
    BY <1>10 DEF SliceRow, Keeps, n
  <2>2. i % 2 = 0 \/ i % 2 = 1
    BY <1>9
  <2>3. WrittenLast(reg', i + 1) = AddPart(from, to, i, s, base, h) /\ reg' \in [v16 : {reg'.v16}, v24 : {reg'.v24}]
    <3>1. CASE i % 2 = 0
      <4>1. (i + 1) % 2 = 1 /\ ~(i % 2 = 1)
        BY <1>9, <3>1
      <4>2. from = reg.v24 /\ to = reg.v16
        BY <4>1 DEF WrittenLast
      <4>3. reg' = [reg EXCEPT !.v16 = AddPart(reg.v24, reg.v16, i, s, base, h)]
        BY <1>10, <3>1 DEF SliceRow, AddPart
      <4>4. reg'.v16 = AddPart(reg.v24, reg.v16, i, s, base, h) /\ reg' \in [v16 : {reg'.v16}, v24 : {reg'.v24}]
        BY <1>2, <4>3
      <4>5. QED
        BY <4>1, <4>2, <4>4 DEF WrittenLast
    <3>2. CASE i % 2 = 1
      <4>1. ~((i + 1) % 2 = 1) /\ ~(i % 2 = 0)
        BY <1>9, <3>2
      <4>2. from = reg.v16 /\ to = reg.v24
        BY <3>2, <4>1 DEF WrittenLast
      <4>3. reg' = [reg EXCEPT !.v24 = AddPart(reg.v16, reg.v24, i, s, base, h)]
        BY <1>10, <4>1 DEF SliceRow, AddPart
      <4>4. reg'.v24 = AddPart(reg.v16, reg.v24, i, s, base, h) /\ reg' \in [v16 : {reg'.v16}, v24 : {reg'.v24}]
        BY <1>2, <4>3
      <4>5. QED
        BY <4>1, <4>2, <4>4 DEF WrittenLast
    <3>3. QED
      BY <2>2, <3>1, <3>2
  <2>4. i \in 0 .. h - 1 /\ i + 1 <= h /\ i + 1 \in Nat
    BY <1>8, <1>9, <2>1
  <2>5. at' \in [b : Nat, s : Nat, i : Nat] /\ at'.b = b /\ at'.s = s /\ at'.i = i + 1
    BY <1>2, <2>1, <2>4
  <2>6. loaded' \subseteq 0 .. rows - 1
    <3>1. base + i \in 0 .. rows - 1
      BY <1>1, <1>6, <1>8, <2>4
    <3>2. loaded' = loaded \cup {base + i} /\ loaded \subseteq 0 .. rows - 1
      BY <1>2, <2>1
    <3> HIDE DEF base, i, rows
    <3>3. QED
      BY <3>1, <3>2
  <2> HIDE DEF from, to
  <2>7. Holds(from, i, s, base, h)
    BY <1>2 DEF from
  <2> HIDE DEF b, s, i, rows, base, h, H
  <2>8. Holds(AddPart(from, to, i, s, base, h), i + 1, s, base, h)
    BY <1>6, <1>8, <1>9, <2>4, <2>7, HoldsNext
  <2>9. b * SliceSize = base /\ H(b) = h
    BY <1>5 DEF base
  <2>10. s # n /\ s <= n /\ base < rows
    BY <1>1, <1>7, <1>9, <2>1
  <2>11. out' = SliceSums(b, rows, n) /\ ~done'
    BY <1>2, <2>1
  <2>12. QED
    BY <1>3, <2>3, <2>4, <2>5, <2>6, <2>8, <2>9, <2>10, <2>11
<1>11. CASE SliceEnd
  <2>1. /\ s < n /\ i = h /\ at' = [at EXCEPT !.s = s + 1, !.i = 0]
        /\ reg' = IF i % 2 = 1 THEN [reg EXCEPT !.v24 = reg.v16] ELSE reg
        /\ out' = out /\ loaded' = loaded /\ done' = FALSE
    BY <1>11 DEF SliceEnd, n
  <2>2. reg'.v24 = WrittenLast(reg, i) /\ reg' \in [v16 : {reg'.v16}, v24 : {reg'.v24}]
    BY <1>2, <2>1 DEF WrittenLast
  <2>3. WrittenLast(reg', 0) = reg'.v24
    BY DEF WrittenLast
  <2>4. s + 1 \in Nat /\ s + 1 <= n
    BY <1>7, <1>9, <2>1
  <2>5. at' \in [b : Nat, s : Nat, i : Nat] /\ at'.b = b /\ at'.s = s + 1 /\ at'.i = 0
    BY <1>2, <2>1, <2>4
  <2> HIDE DEF b, s, i, rows, base, h, H
  <2>6. Holds(WrittenLast(reg, i), h, s, base, h)
    BY <1>2, <2>1
  <2>7. h \in Nat \ {0} /\ 0 <= h
    BY <1>6, <1>8
  <2>8. Holds(WrittenLast(reg, i), 0, s + 1, base, h)
    BY <1>6, <1>9, <2>6, <2>7, HoldsEnd
  <2>9. b * SliceSize = base /\ H(b) = h
    BY <1>5 DEF base
  <2>10. out' = SliceSums(b, rows, n) /\ ~done' /\ loaded' \subseteq 0 .. rows - 1
    BY <1>2, <2>1
  <2>11. QED
    BY <1>1, <1>3, <2>2, <2>3, <2>4, <2>5, <2>7, <2>8, <2>9, <2>10
<1>12. CASE SliceStore
  <2> DEFINE sums == Rotated(reg.v24, reg.v16, h)
  <2>1. /\ s = n
        /\ out' = [r \in 0 .. rows - 1 |-> IF r \div SliceSize = b THEN sums[r % SliceSize] ELSE out[r]]
        /\ reg' = [v16 |-> NoElements, v24 |-> NoElements]
        /\ at' = [b |-> b + 1, s |-> 0, i |-> 0] /\ loaded' = loaded
        /\ done' = ((b + 1) * SliceSize >= rows)
    BY <1>12 DEF SliceStore, n
  <2>2. i = 0
    BY <1>1, <2>1
  <2>3. Holds(reg.v24, 0, n, base, h)
    BY <1>2, <2>1, <2>2 DEF WrittenLast
  <2>4. at' \in [b : Nat, s : Nat, i : Nat] /\ at'.b = b + 1 /\ at'.s = 0 /\ at'.i = 0
    BY <1>9, <2>1
  <2>5. reg' \in [v16 : {reg'.v16}, v24 : {reg'.v24}] /\ WrittenLast(reg', 0) = NoElements
    BY <2>1 DEF WrittenLast
  <2>0. rows \in Nat \ {0} /\ base = b * SliceSize
    BY <1>1
  <2> HIDE DEF b, s, i, rows, base, h, H, sums
  <2>6. \A k \in 0 .. h - 1 : sums[k] = Parts(base + k, n)
    BY <1>6, <1>7, <1>8, <2>3, SumsInOrder DEF sums
  <2>7. out' = SliceSums(b + 1, rows, n)
    <3>1. ASSUME NEW r \in 0 .. rows - 1
          PROVE  out'[r] = IF r \div SliceSize < b + 1 THEN Parts(r, n) ELSE <<>>
      <4>1. r \in Nat
        BY <2>0
      <4>2. r \div SliceSize \in Nat /\ r % SliceSize \in 0 .. SliceSize - 1
            /\ (r \div SliceSize = b => r = base + (r % SliceSize))
        BY <1>6, <1>9, <2>0, <4>1, BlockOfRow
      <4>3. out[r] = IF r \div SliceSize < b THEN Parts(r, n) ELSE <<>>
        BY <1>2 DEF SliceSums
      <4>4. out'[r] = IF r \div SliceSize = b THEN sums[r % SliceSize] ELSE out[r]
        BY <2>1
      <4>5. CASE r \div SliceSize = b
        <5>1. r = base + (r % SliceSize) /\ r % SliceSize \in 0 .. SliceSize - 1
          BY <4>2, <4>5
        <5>2. r % SliceSize \in 0 .. h - 1
          <6> DEFINE k == r % SliceSize
          <6>1. r = base + k /\ k \in 0 .. SliceSize - 1
            BY <5>1
          <6> HIDE DEF k
          <6>2. k \in 0 .. h - 1
            BY <1>6, <1>8, <2>0, <6>1
          <6>3. QED
            BY <6>2 DEF k
        <5>3. sums[r % SliceSize] = Parts(r, n)
          BY <2>6, <5>1, <5>2
        <5>4. b < b + 1
          BY <1>9
        <5>5. QED
          BY <4>4, <4>5, <5>3, <5>4
      <4>6. CASE r \div SliceSize # b
        <5>1. \A q \in Nat : q # b => (q < b <=> q < b + 1)
          BY <1>9
        <5>2. r \div SliceSize < b <=> r \div SliceSize < b + 1
          BY <4>2, <4>6, <5>1
        <5>3. QED
          BY <4>3, <4>4, <4>6, <5>2
      <4>7. QED
        BY <4>5, <4>6
    <3>2. QED
      BY <2>1, <3>1 DEF SliceSums
  <2>8. ASSUME done'
        PROVE  out' = SliceResult
    <3>1. ASSUME NEW r \in 0 .. rows - 1
          PROVE  r \div SliceSize < b + 1
      <4>1. (b + 1) * SliceSize > r /\ r \in Nat
        <5>1. (b + 1) * SliceSize >= rows
          BY <2>1, <2>8
        <5>2. (b + 1) * SliceSize \in Nat
          BY <1>6, <1>9
        <5> DEFINE m == (b + 1) * SliceSize
        <5> HIDE DEF m
        <5>3. m >= rows /\ m \in Nat
          BY <5>1, <5>2 DEF m
        <5>4. m > r /\ r \in Nat
          BY <2>0, <5>3
        <5>5. QED
          BY <5>4 DEF m
      <4>2. r \div SliceSize \in Nat /\ r \div SliceSize <= b
        BY <1>6, <1>9, <4>1, BlockOfRow
      <4>3. \A q \in Nat : q <= b => q < b + 1
        BY <1>9
      <4>4. QED
        BY <4>2, <4>3
    <3>2. SliceSums(b + 1, rows, n) = [r \in 0 .. rows - 1 |-> Parts(r, n)]
      BY <3>1 DEF SliceSums
    <3>3. QED
      BY <2>7, <3>2 DEF SliceResult, Parts, n, rows
  <2>9. ASSUME ~done'
        PROVE  /\ (b + 1) * SliceSize < rows /\ 0 <= H(b + 1)
               /\ Holds(NoElements, 0, 0, (b + 1) * SliceSize, H(b + 1))
    <3> DEFINE m == (b + 1) * SliceSize
    <3>1. m \in Nat
      BY <1>6, <1>9
    <3>2. ~(m >= rows)
      BY <2>1, <2>9
    <3>3. H(b + 1) = Lesser(SliceSize, rows - m)
      BY DEF H
    <3> HIDE DEF m
    <3>4. m < rows /\ H(b + 1) \in 0 .. SliceSize
      BY <1>6, <2>0, <3>1, <3>2, <3>3 DEF Lesser
    <3>5. Holds(NoElements, 0, 0, m, H(b + 1))
      BY <3>1, <3>4, HoldsNothing
    <3>6. 0 <= H(b + 1)
      BY <3>4
    <3>7. QED
      BY <3>4, <3>5, <3>6 DEF m
  <2>10. 0 <= n /\ loaded' \subseteq 0 .. rows - 1
    BY <1>2, <1>7, <2>1
  <2>11. QED
    BY <1>3, <1>4, <2>4, <2>5, <2>7, <2>8, <2>9, <2>10
<1>13. QED
  BY <1>10, <1>11, <1>12 DEF SliceNext
-----------------------------------------------------------------------------
(***************************************************************************)
(* The 7x7 convolutions.  P is the set of what has been read, pairs of an  *)
(* input row and a channel, and F says what a pair is called; with one     *)
(* channel all of them are 0.  acc[k] is about output row o + k - 1; a     *)
(* register that nothing read belongs to yet may hold anything.            *)
(***************************************************************************)
Used(y, P) == {q \in P : q[1] \in y .. y + 6}
Taken(F, y, P) == {[from |-> F[q], tap |-> q[1] - y] : q \in Used(y, P)}

AccHolds(acc, F, o, P) ==
  \A k \in Registers7 :
    Used(o + k - 1, P) # {} => acc[k] = SetToBag(Taken(F, o + k - 1, P))

Group(m, n, c) == (m .. m + n - 1) \X {c}
RowsOf(F, m, n, c) == [s \in 1 .. n |-> F[<<m + s - 1, c>>]]
Apart(F, P, Q) == \A p \in P, q \in Q : F[p] # F[q]

\* A register is started anew exactly when the first row it needs is read.
FreshRight(fresh, o, P, Q) ==
  \A k \in Registers7 : IF k \in fresh THEN Used(o + k - 1, P) = {}
                        ELSE Used(o + k - 1, P) # {} \/ Used(o + k - 1, Q) = {}

LEMMA BagsOfSets ==
  ASSUME NEW A, NEW B, A \cap B = {}
  PROVE  SetToBag(A) (+) SetToBag(B) = SetToBag(A \cup B)
BY DEF SetToBag, (+)

LEMMA TakenJoin ==
  ASSUME NEW F, NEW y, NEW P, NEW Q
  PROVE  /\ Taken(F, y, P \cup Q) = Taken(F, y, P) \cup Taken(F, y, Q)
         /\ Used(y, P \cup Q) = Used(y, P) \cup Used(y, Q)
<1>1. Used(y, P \cup Q) = Used(y, P) \cup Used(y, Q)
  BY DEF Used
<1>2. \A A, B : {[from |-> F[q], tap |-> q[1] - y] : q \in A \cup B}
                  = {[from |-> F[q], tap |-> q[1] - y] : q \in A}
                    \cup {[from |-> F[q], tap |-> q[1] - y] : q \in B}
  OBVIOUS
<1>3. QED
  BY <1>1, <1>2 DEF Taken

Added(rows, shift, k) ==
  {[from |-> rows[s], tap |-> shift + s - k] : s \in {x \in DOMAIN rows : shift + x - k \in 0 .. 6}}

AddsGroup(F, o, shift, m, n, c, k) ==
  Added(RowsOf(F, m, n, c), shift, k) = Taken(F, o + k - 1, Group(m, n, c))

\* The rows added are those of the group.
LEMMA GroupTaken ==
  ASSUME NEW F, NEW o \in Nat, NEW shift \in Nat, NEW m \in Nat, m = o + shift, NEW n \in Nat,
         NEW c, NEW k \in Registers7
  PROVE  AddsGroup(F, o, shift, m, n, c, k)
<1> DEFINE y == o + k - 1
           S == {x \in 1 .. n : shift + x - k \in 0 .. 6}
           rows == RowsOf(F, m, n, c)
           U == Used(y, Group(m, n, c))
<1>1. DOMAIN rows = 1 .. n /\ \A s \in 1 .. n : rows[s] = F[<<m + s - 1, c>>]
  BY DEF RowsOf
<1>2. k \in Int
  BY DEF Registers7
<1>3. \A s \in S : /\ <<m + s - 1, c>> \in Group(m, n, c) /\ <<m + s - 1, c>>[1] = m + s - 1
                   /\ m + s - 1 \in y .. y + 6 /\ shift + s - k = (m + s - 1) - y
  BY <1>2 DEF Group
<1>4. \A s \in S : <<m + s - 1, c>> \in U
  <2> HIDE DEF S, y
  <2>1. QED
    BY <1>3 DEF Used
<1>5. \A q \in U : /\ q[1] - m + 1 \in S /\ q = <<m + (q[1] - m + 1) - 1, c>>
                   /\ q[1] - y = shift + (q[1] - m + 1) - k
  <2>1. ASSUME NEW q \in U
        PROVE  /\ q[1] - m + 1 \in S /\ q = <<m + (q[1] - m + 1) - 1, c>>
               /\ q[1] - y = shift + (q[1] - m + 1) - k
    <3>1. q \in (m .. m + n - 1) \X {c} /\ q[1] \in y .. y + 6
      BY DEF Used, Group
    <3>2. PICK x \in m .. m + n - 1 : q = <<x, c>>
      BY <3>1
    <3>3. q[1] = x
      BY <3>2
    <3>4. x \in y .. y + 6
      BY <3>1, <3>3
    <3>5. x - m + 1 \in S /\ m + (x - m + 1) - 1 = x /\ x - y = shift + (x - m + 1) - k
      BY <1>2, <3>4
    <3> HIDE DEF S, y
    <3>6. QED
      BY <3>2, <3>3, <3>5
  <2>2. QED
    BY <2>1
<1> DEFINE T(s) == [from |-> rows[s], tap |-> shift + s - k]
           V(q) == [from |-> F[q], tap |-> q[1] - y]
<1>6. \A s \in S : T(s) = V(<<m + s - 1, c>>)
  <2>1. \A s \in S : rows[s] = F[<<m + s - 1, c>>]
    BY <1>1
  <2> HIDE DEF rows, y, S
  <2>2. QED
    BY <1>3, <2>1
<1>7. \A q \in U : V(q) = T(q[1] - m + 1)
  <2>1. \A s \in S : rows[s] = F[<<m + s - 1, c>>]
    BY <1>1
  <2> HIDE DEF rows, y, S, U
  <2>2. QED
    BY <1>5, <2>1
<1> HIDE DEF T, V, U, S
<1>8. {T(s) : s \in S} = {V(q) : q \in U}
  <2>1. \A s \in S : \E q \in U : T(s) = V(q)
    BY <1>4, <1>6
  <2>2. \A q \in U : q[1] - m + 1 \in S
    BY <1>5
  <2>3. \A q \in U : \E s \in S : V(q) = T(s)
    BY <1>7, <2>2
  <2>4. QED
    BY <2>1, <2>3
<1>9. {T(s) : s \in S} = Added(rows, shift, k)
  BY <1>1 DEF T, S, Added
<1>10. QED
  BY <1>8, <1>9 DEF V, U, Taken, AddsGroup

LEMMA MacAdds ==
  ASSUME NEW F, NEW acc, NEW fresh, NEW P, NEW o \in Nat, NEW shift \in Nat, NEW m \in Nat,
         m = o + shift, NEW n \in Nat, NEW c, AccHolds(acc, F, o, P),
         Apart(F, P, Group(m, n, c)), FreshRight(fresh, o, P, Group(m, n, c))
  PROVE  AccHolds(Mac(acc, fresh, RowsOf(F, m, n, c), shift), F, o, P \cup Group(m, n, c))
<1> DEFINE Q == Group(m, n, c)
           new == Mac(acc, fresh, RowsOf(F, m, n, c), shift)
<1>1. ASSUME NEW k \in Registers7, Used(o + k - 1, P \cup Q) # {}
      PROVE  new[k] = SetToBag(Taken(F, o + k - 1, P \cup Q))
  <2> DEFINE y == o + k - 1
             old == IF k \in fresh THEN EmptyBag ELSE acc[k]
  <2>1. new[k] = old (+) SetToBag(Taken(F, y, Q))
    <3>1. new[k] = old (+) SetToBag(Added(RowsOf(F, m, n, c), shift, k))
      BY DEF Mac, Added
    <3> HIDE DEF new, old
    <3>2. AddsGroup(F, o, shift, m, n, c, k)
      BY GroupTaken
    <3>3. QED
      BY <3>1, <3>2 DEF AddsGroup, y, Q
  <2>2. Used(y, P \cup Q) = Used(y, P) \cup Used(y, Q)
        /\ Taken(F, y, P \cup Q) = Taken(F, y, P) \cup Taken(F, y, Q)
    BY TakenJoin
  <2>3. old = SetToBag(Taken(F, y, P))
    <3>1. CASE k \in fresh
      <4>1. Used(y, P) = {}
        BY <3>1 DEF FreshRight
      <4>2. Taken(F, y, P) = {}
        BY <4>1 DEF Taken
      <4>3. QED
        BY <3>1, <4>2 DEF EmptyBag
    <3>2. CASE k \notin fresh
      <4>1. Used(y, P) # {} \/ Used(y, Q) = {}
        BY <3>2 DEF FreshRight
      <4>2. Used(y, P) # {}
        BY <1>1, <2>2, <4>1
      <4>3. QED
        BY <3>2, <4>2 DEF AccHolds
    <3>3. QED
      BY <3>1, <3>2
  <2>4. Taken(F, y, P) \cap Taken(F, y, Q) = {}
    <3>1. \A p \in Used(y, P), q \in Used(y, Q) : F[p] # F[q]
      BY DEF Used, Apart
    <3> HIDE DEF y, Q
    <3>2. \A p \in Used(y, P), q \in Used(y, Q) :
            [from |-> F[p], tap |-> p[1] - y] # [from |-> F[q], tap |-> q[1] - y]
      BY <3>1
    <3>3. QED
      BY <3>2 DEF Taken
  <2> HIDE DEF new, old, y, Q
  <2>5. new[k] = SetToBag(Taken(F, y, P)) (+) SetToBag(Taken(F, y, Q))
    BY <2>1, <2>3
  <2>6. new[k] = SetToBag(Taken(F, y, P) \cup Taken(F, y, Q))
    BY <2>4, <2>5, BagsOfSets
  <2>7. QED
    BY <2>2, <2>6 DEF y
<1>2. QED
  BY <1>1 DEF AccHolds

LEMMA MovedUpHolds ==
  ASSUME NEW F, NEW acc, NEW P, NEW o \in Nat, AccHolds(acc, F, o, P), Used(o + 7, P) = {}
  PROVE  AccHolds(MovedUp(acc), F, o + 1, P)
<1>1. ASSUME NEW k \in Registers7, Used((o + 1) + k - 1, P) # {}
      PROVE  MovedUp(acc)[k] = SetToBag(Taken(F, (o + 1) + k - 1, P))
  <2>1. k \in 1 .. 7
    BY DEF Registers7
  <2>2. CASE k = 7
    <3>1. (o + 1) + k - 1 = o + 7
      BY <2>2
    <3>2. QED
      BY <1>1, <3>1
  <2>3. CASE k # 7
    <3>1. k < 7 /\ k + 1 \in Registers7 /\ o + (k + 1) - 1 = (o + 1) + k - 1
      BY <2>1, <2>3 DEF Registers7
    <3>2. MovedUp(acc)[k] = acc[k + 1]
      BY <3>1 DEF MovedUp
    <3>3. Used(o + (k + 1) - 1, P) # {} => acc[k + 1] = SetToBag(Taken(F, o + (k + 1) - 1, P))
      BY <3>1 DEF AccHolds
    <3>4. QED
      BY <1>1, <3>1, <3>2, <3>3
  <2>4. QED
    BY <2>2, <2>3
<1>2. QED
  BY <1>1 DEF AccHolds

(***************************************************************************)
(* The rows below m are read in all C channels, the n rows from m on in c. *)
(***************************************************************************)
Progress(m, n, c, C) == ((0 .. m - 1) \X (0 .. C - 1)) \cup ((m .. m + n - 1) \X (0 .. c - 1))

Distinct(F, C) == \A p, q \in Nat \X (0 .. C - 1) : F[p] = F[q] => p = q

LEMMA ProgressMade ==
  ASSUME NEW m \in Nat, NEW n \in Nat, NEW C \in Nat \ {0}, NEW c \in 0 .. C - 1
  PROVE  Progress(m, n, c, C) \cup Group(m, n, c) = Progress(m, n, c + 1, C)
<1>1. (0 .. c - 1) \cup {c} = 0 .. (c + 1) - 1
  OBVIOUS
<1>2. \A P, Q, S, T : (T \cup (S \X P)) \cup (S \X Q) = T \cup (S \X (P \cup Q))
  OBVIOUS
<1>3. QED
  BY <1>1, <1>2 DEF Progress, Group

LEMMA GroupDone ==
  ASSUME NEW m \in Nat, NEW n \in Nat, NEW k \in Nat, NEW C \in Nat
  PROVE  Progress(m, n, C, C) = Progress(m + n, k, 0, C)
<1>1. (0 .. m - 1) \cup (m .. m + n - 1) = 0 .. (m + n) - 1 /\ 0 .. 0 - 1 = {}
  OBVIOUS
<1>2. \A P, Q, S, T : (P \X S) \cup (Q \X S) = ((P \cup Q) \X S) \cup (T \X {})
  OBVIOUS
<1>3. QED
  BY <1>1, <1>2 DEF Progress

LEMMA UsedProgress ==
  ASSUME NEW y \in Nat, NEW m \in Nat, NEW n \in Nat, NEW C \in Nat \ {0}, NEW c \in 0 .. C
  PROVE  Used(y, Progress(m, n, c, C)) # {} <=> y < m \/ (c > 0 /\ y < m + n)
<1>1. \A x : \A d : <<x, d>>[1] = x /\ (<<x, d>> \in Progress(m, n, c, C) <=>
        (x \in 0 .. m - 1 /\ d \in 0 .. C - 1) \/ (x \in m .. m + n - 1 /\ d \in 0 .. c - 1))
  BY DEF Progress
<1>2. ASSUME y < m \/ (c > 0 /\ y < m + n)
      PROVE  Used(y, Progress(m, n, c, C)) # {}
  <2>1. \/ y \in 0 .. m - 1 /\ 0 \in 0 .. C - 1
        \/ y \in m .. m + n - 1 /\ 0 \in 0 .. c - 1
    BY <1>2
  <2>2. <<y, 0>> \in Progress(m, n, c, C) /\ <<y, 0>>[1] = y
    BY <1>1, <2>1
  <2>3. y \in y .. y + 6
    OBVIOUS
  <2>4. <<y, 0>> \in Used(y, Progress(m, n, c, C))
    BY <2>2, <2>3 DEF Used
  <2>5. QED
    BY <2>4
<1>3. ASSUME Used(y, Progress(m, n, c, C)) # {}
      PROVE  y < m \/ (c > 0 /\ y < m + n)
  <2>1. PICK q \in Progress(m, n, c, C) : q[1] \in y .. y + 6
    BY <1>3 DEF Used
  <2>2. PICK x, d : q = <<x, d>>
    BY <2>1 DEF Progress
  <2>3. (x \in 0 .. m - 1 /\ d \in 0 .. C - 1) \/ (x \in m .. m + n - 1 /\ d \in 0 .. c - 1)
    BY <1>1, <2>1, <2>2
  <2>4. x \in y .. y + 6
    BY <2>1, <2>2
  <2>5. CASE x \in 0 .. m - 1 /\ d \in 0 .. C - 1
    BY <2>4, <2>5
  <2>6. CASE x \in m .. m + n - 1 /\ d \in 0 .. c - 1
    BY <2>4, <2>6
  <2>7. QED
    BY <2>3, <2>5, <2>6
<1>4. QED
  BY <1>2, <1>3

LEMMA UsedGroup ==
  ASSUME NEW y \in Nat, NEW m \in Nat, NEW n \in Nat, NEW c, y >= m + n
  PROVE  Used(y, Group(m, n, c)) = {}
<1>1. ASSUME NEW q \in Used(y, Group(m, n, c))
      PROVE  FALSE
  <2>1. q \in (m .. m + n - 1) \X {c} /\ q[1] \in y .. y + 6
    BY DEF Used, Group
  <2>2. PICK x \in m .. m + n - 1 : q = <<x, c>>
    BY <2>1
  <2>3. x \in y .. y + 6
    BY <2>1, <2>2
  <2>4. QED
    BY <2>3
<1>2. QED
  BY <1>1

\* In the first channel the registers of the group's own rows are started.
FreshOf(o, m, n, c) == {k \in Registers7 : c = 0 /\ m <= o + k - 1 /\ o + k - 1 < m + n}

LEMMA FreshIsRight ==
  ASSUME NEW o \in Nat, NEW m \in Nat, NEW n \in Nat, NEW C \in Nat \ {0}, NEW c \in 0 .. C - 1
  PROVE  FreshRight(FreshOf(o, m, n, c), o, Progress(m, n, c, C), Group(m, n, c))
<1>1. ASSUME NEW k \in Registers7
      PROVE  IF k \in FreshOf(o, m, n, c) THEN Used(o + k - 1, Progress(m, n, c, C)) = {}
             ELSE Used(o + k - 1, Progress(m, n, c, C)) # {} \/ Used(o + k - 1, Group(m, n, c)) = {}
  <2> DEFINE y == o + k - 1
  <2>1. y \in Nat /\ c \in 0 .. C
    BY DEF Registers7
  <2>2. k \in FreshOf(o, m, n, c) <=> c = 0 /\ m <= y /\ y < m + n
    BY DEF FreshOf
  <2> HIDE DEF y
  <2>3. Used(y, Progress(m, n, c, C)) # {} <=> y < m \/ (c > 0 /\ y < m + n)
    BY <2>1, UsedProgress
  <2>4. y >= m + n => Used(y, Group(m, n, c)) = {}
    BY <2>1, UsedGroup
  <2>5. CASE c = 0 /\ m <= y /\ y < m + n
    <3>1. ~(y < m) /\ ~(c > 0)
      BY <2>1, <2>5
    <3>2. QED
      BY <2>2, <2>3, <2>5, <3>1 DEF y
  <2>6. CASE ~(c = 0 /\ m <= y /\ y < m + n)
    <3>1. y < m \/ (c > 0 /\ y < m + n) \/ y >= m + n
      BY <2>1, <2>6
    <3>2. QED
      BY <2>2, <2>3, <2>4, <2>6, <3>1 DEF y
  <2>7. QED
    BY <2>5, <2>6
<1>2. QED
  BY <1>1 DEF FreshRight

LEMMA ProgressApart ==
  ASSUME NEW F, NEW m \in Nat, NEW n \in Nat, NEW C \in Nat \ {0}, NEW c \in 0 .. C - 1, Distinct(F, C)
  PROVE  Apart(F, Progress(m, n, c, C), Group(m, n, c))
<1>1. ASSUME NEW p \in Progress(m, n, c, C), NEW q \in Group(m, n, c)
      PROVE  F[p] # F[q]
  <2>1. PICK x \in m .. m + n - 1 : q = <<x, c>>
    BY DEF Group
  <2>2. PICK z, d : p = <<z, d>>
    BY DEF Progress
  <2>3. (z \in 0 .. m - 1 /\ d \in 0 .. C - 1) \/ (z \in m .. m + n - 1 /\ d \in 0 .. c - 1)
    BY <2>2 DEF Progress
  <2>4. x \in Nat /\ c \in 0 .. C - 1 /\ z \in Nat /\ d \in 0 .. C - 1 /\ (z # x \/ d # c)
    <3>1. CASE z \in 0 .. m - 1 /\ d \in 0 .. C - 1
      BY <3>1
    <3>2. CASE z \in m .. m + n - 1 /\ d \in 0 .. c - 1
      BY <3>2
    <3>3. QED
      BY <2>3, <3>1, <3>2
  <2>5. p \in Nat \X (0 .. C - 1) /\ q \in Nat \X (0 .. C - 1) /\ p # q
    BY <2>1, <2>2, <2>4
  <2>6. QED
    BY <2>5 DEF Distinct
<1>2. QED
  BY <1>1 DEF Apart

\* A group of rows of one channel has been added.
LEMMA MacGroup ==
  ASSUME NEW F, NEW acc, NEW o \in Nat, NEW shift \in Nat, NEW m \in Nat, m = o + shift, NEW n \in Nat,
         NEW C \in Nat \ {0}, NEW c \in 0 .. C - 1, Distinct(F, C), AccHolds(acc, F, o, Progress(m, n, c, C))
  PROVE  AccHolds(Mac(acc, FreshOf(o, m, n, c), RowsOf(F, m, n, c), shift), F, o, Progress(m, n, c + 1, C))
<1>1. FreshRight(FreshOf(o, m, n, c), o, Progress(m, n, c, C), Group(m, n, c))
  BY FreshIsRight
<1>2. Apart(F, Progress(m, n, c, C), Group(m, n, c))
  BY ProgressApart
<1>3. Progress(m, n, c, C) \cup Group(m, n, c) = Progress(m, n, c + 1, C)
  BY ProgressMade
<1> DEFINE P == Progress(m, n, c, C)
           fresh == FreshOf(o, m, n, c)
<1> HIDE DEF P, fresh
<1>4. AccHolds(Mac(acc, fresh, RowsOf(F, m, n, c), shift), F, o, P \cup Group(m, n, c))
  BY <1>1, <1>2, MacAdds DEF P, fresh
<1>5. QED
  BY <1>3, <1>4 DEF P, fresh

\* The registers that start with each group of the code.
LEMMA FreshSets ==
  ASSUME NEW o \in Nat
  PROVE  /\ FreshOf(o, o, 4, 0) = 1 .. 4 /\ FreshOf(o, o + 4, 3, 0) = 5 .. 7
         /\ FreshOf(o, o + 6, 1, 0) = {7} /\ FreshOf(o, o + 6, 4, 0) = {7}
         /\ FreshOf(o, o + 10, 3, 0) = {}
         /\ \A m, n : \A c \in Nat \ {0} : FreshOf(o, m, n, c) = {}
BY DEF FreshOf, Registers7

(***************************************************************************)
(* What is stored: the sums of all seven input rows, in all the channels.  *)
(* A pair here is a row of the output and the first column of a strip.     *)
(***************************************************************************)
AllTaps(F, r, C) == {[from |-> F[<<r + p[1], p[2]>>], tap |-> p[1]] : p \in (0 .. 6) \X (0 .. C - 1)}
FullSum(F, r, C) == SetToBag(AllTaps(F, r, C))
OutOf(F, C, d) == [row |-> d[1], n |-> d[2], len |-> Lesser(job.C - d[2], Lesser(job.C, Vlmax)),
                   from |-> FullSum(F, d[1], C)]
Outs(F, C, D) == {OutOf(F, C, d) : d \in D}

LEMMA FullTaken ==
  ASSUME NEW F, NEW y \in Nat, NEW m \in Nat, NEW n \in Nat, NEW C \in Nat \ {0}, m >= y + 7
  PROVE  /\ SetToBag(Taken(F, y, Progress(m, n, 0, C))) = FullSum(F, y, C)
         /\ Used(y, Progress(m, n, 0, C)) # {}
<1> DEFINE U == Used(y, Progress(m, n, 0, C))
<1>1. \A t \in 0 .. 6, c \in 0 .. C - 1 : /\ <<y + t, c>> \in U /\ <<y + t, c>>[1] - y = t
  <2>1. ASSUME NEW t \in 0 .. 6, NEW c \in 0 .. C - 1
        PROVE  <<y + t, c>> \in U /\ <<y + t, c>>[1] - y = t
    <3>1. y + t \in 0 .. m - 1 /\ y + t \in y .. y + 6 /\ (y + t) - y = t
      OBVIOUS
    <3>2. <<y + t, c>> \in Progress(m, n, 0, C) /\ <<y + t, c>>[1] = y + t
      BY <3>1 DEF Progress
    <3>3. QED
      BY <3>1, <3>2 DEF Used
  <2>2. QED
    BY <2>1
<1>2. \A q \in U : \E t \in 0 .. 6, c \in 0 .. C - 1 : q = <<y + t, c>>
  <2>1. ASSUME NEW q \in U
        PROVE  \E t \in 0 .. 6, c \in 0 .. C - 1 : q = <<y + t, c>>
    <3>1. q \in Progress(m, n, 0, C) /\ q[1] \in y .. y + 6
      BY DEF Used
    <3>2. 0 .. 0 - 1 = {}
      OBVIOUS
    <3>3. q \in (0 .. m - 1) \X (0 .. C - 1)
      BY <3>1, <3>2 DEF Progress
    <3>4. PICK x \in 0 .. m - 1, c \in 0 .. C - 1 : q = <<x, c>>
      BY <3>3
    <3>5. x - y \in 0 .. 6 /\ x = y + (x - y)
      BY <3>1, <3>4
    <3>6. QED
      BY <3>4, <3>5
  <2>2. QED
    BY <2>1
<1> HIDE DEF U
<1>3. \A q \in U : \E p \in (0 .. 6) \X (0 .. C - 1) : q = <<y + p[1], p[2]>> /\ q[1] - y = p[1]
  <2>1. ASSUME NEW q \in U
        PROVE  \E p \in (0 .. 6) \X (0 .. C - 1) : q = <<y + p[1], p[2]>> /\ q[1] - y = p[1]
    <3>1. PICK t \in 0 .. 6, c \in 0 .. C - 1 : q = <<y + t, c>>
      BY <1>2
    <3>2. <<t, c>> \in (0 .. 6) \X (0 .. C - 1) /\ <<t, c>>[1] = t /\ <<t, c>>[2] = c
      OBVIOUS
    <3>3. q[1] - y = t
      BY <1>1, <3>1
    <3>4. QED
      BY <3>1, <3>2, <3>3
  <2>2. QED
    BY <2>1
<1>4. \A p \in (0 .. 6) \X (0 .. C - 1) :
        /\ <<y + p[1], p[2]>> \in U
        /\ <<y + p[1], p[2]>>[1] - y = p[1]
  BY <1>1
<1> DEFINE V(q) == [from |-> F[q], tap |-> q[1] - y]
           T(p) == [from |-> F[<<y + p[1], p[2]>>], tap |-> p[1]]
<1>5. \A q \in U : \E p \in (0 .. 6) \X (0 .. C - 1) : V(q) = T(p)
  BY <1>3
<1>6. \A p \in (0 .. 6) \X (0 .. C - 1) : \E q \in U : T(p) = V(q)
  BY <1>4
<1>7. {V(q) : q \in U} = {T(p) : p \in (0 .. 6) \X (0 .. C - 1)}
  <2> HIDE DEF V, T
  <2>1. QED
    BY <1>5, <1>6
<1>8. <<y + 0, 0>> \in U
  BY <1>1
<1>9. Taken(F, y, Progress(m, n, 0, C)) = AllTaps(F, y, C)
  BY <1>7 DEF Taken, AllTaps, U
<1>10. QED
  BY <1>8, <1>9 DEF FullSum, U

StoresRows(F, C, o, lo, hi, n) == out' = out \cup Outs(F, C, (o + lo - 1 .. o + hi - 1) \X {n})

LEMMA StoredRows ==
  ASSUME NEW F, NEW acc, NEW C \in Nat \ {0}, NEW lo \in 1 .. 7, NEW hi \in lo .. 7, NEW o \in Nat,
         NEW m \in Nat, NEW n \in Nat, at.o = o + lo - 1, m >= o + hi + 6,
         AccHolds(acc, F, o, Progress(m, n, 0, C)), Stored(acc, lo .. hi)
  PROVE  StoresRows(F, C, o, lo, hi, at.n)
<1> DEFINE ks == lo .. hi
           first == CHOOSE x \in ks : \A y \in ks : x <= y
           D == (o + lo - 1 .. o + hi - 1) \X {at.n}
           len == Lesser(job.C - at.n, Lesser(job.C, Vlmax))
           new(k) == [row |-> at.o + k - first, n |-> at.n, len |-> len, from |-> acc[k]]
<1>1. first = lo
  <2>1. lo \in ks /\ \A y \in ks : lo <= y
    OBVIOUS
  <2>2. \A x \in ks : (\A y \in ks : x <= y) => x = lo
    BY <2>1
  <2> HIDE DEF ks
  <2>3. first \in ks /\ \A y \in ks : first <= y
    BY <2>1
  <2> HIDE DEF first
  <2>4. QED
    BY <2>2, <2>3
<1>2. out' = out \cup {new(k) : k \in ks}
  BY DEF Stored, Stores, StripLen
<1> HIDE DEF first, ks
<1>3. ASSUME NEW k \in ks
      PROVE  new(k) = OutOf(F, C, <<o + k - 1, at.n>>) /\ o + k - 1 \in o + lo - 1 .. o + hi - 1
  <2>1. k \in Registers7 /\ o + k - 1 \in Nat /\ m >= (o + k - 1) + 7 /\ o + k - 1 \in o + lo - 1 .. o + hi - 1
    BY DEF ks, Registers7
  <2>2. SetToBag(Taken(F, o + k - 1, Progress(m, n, 0, C))) = FullSum(F, o + k - 1, C)
        /\ Used(o + k - 1, Progress(m, n, 0, C)) # {}
    BY <2>1, FullTaken
  <2>3. acc[k] = FullSum(F, o + k - 1, C)
    BY <2>1, <2>2 DEF AccHolds
  <2>4. at.o + k - first = o + k - 1
    BY <1>1, <2>1 DEF Registers7
  <2>5. <<o + k - 1, at.n>>[1] = o + k - 1 /\ <<o + k - 1, at.n>>[2] = at.n
    OBVIOUS
  <2> HIDE DEF len
  <2>6. new(k) = [row |-> o + k - 1, n |-> at.n, len |-> len, from |-> FullSum(F, o + k - 1, C)]
    BY <2>3, <2>4
  <2>7. QED
    BY <2>1, <2>5, <2>6 DEF OutOf, len
<1>4. \A d \in D : d[1] - o + 1 \in ks /\ d = <<o + (d[1] - o + 1) - 1, at.n>>
  <2>1. ASSUME NEW d \in D
        PROVE  d[1] - o + 1 \in ks /\ d = <<o + (d[1] - o + 1) - 1, at.n>>
    <3>1. PICK x \in o + lo - 1 .. o + hi - 1 : d = <<x, at.n>>
      OBVIOUS
    <3>2. x - o + 1 \in ks /\ o + (x - o + 1) - 1 = x
      BY DEF ks
    <3>3. QED
      BY <3>1, <3>2
  <2>2. QED
    BY <2>1
<1> HIDE DEF new
<1>5. {new(k) : k \in ks} = {OutOf(F, C, d) : d \in D}
  <2>1. \A k \in ks : <<o + k - 1, at.n>> \in D
    BY <1>3
  <2>2. \A k \in ks : \E d \in D : new(k) = OutOf(F, C, d)
    BY <1>3, <2>1
  <2>3. \A d \in D : \E k \in ks : OutOf(F, C, d) = new(k)
    BY <1>3, <1>4
  <2>4. QED
    BY <2>2, <2>3
<1>6. QED
  BY <1>2, <1>5 DEF Outs, D, StoresRows
-----------------------------------------------------------------------------
(***************************************************************************)
(* The strips, and the part of the output that is stored when o rows of    *)
(* the strip at n are.                                                     *)
(***************************************************************************)
Width == Lesser(job.C, Vlmax)
Area(o, n) ==
  ((0 .. job.R - 1) \X {q \in Strips : q < n}) \cup ((0 .. o - 1) \X {n})

LEMMA WidthType ==
  ASSUME job.C \in Nat \ {0}
  PROVE  Width \in Nat \ {0} /\ Width <= job.C
BY SizeAssumption DEF Width, Lesser

LEMMA FirstStrip ==
  ASSUME job.C \in Nat \ {0}
  PROVE  0 \in Strips /\ Area(0, 0) = {}
<1>1. Width \in Nat \ {0} /\ 0 \in 0 .. job.C - 1
  BY WidthType
<1>2. 0 % Width = 0
  BY <1>1
<1>3. 0 \in Strips
  BY <1>1, <1>2 DEF Strips, Width
<1>4. {q \in Strips : q < 0} = {} /\ 0 .. 0 - 1 = {}
  BY DEF Strips
<1>5. QED
  BY <1>3, <1>4 DEF Area

LEMMA AreaGrows ==
  ASSUME NEW n, NEW o \in Nat, NEW w \in Nat
  PROVE  Area(o, n) \cup ((o .. o + w - 1) \X {n}) = Area(o + w, n)
<1>1. (0 .. o - 1) \cup (o .. o + w - 1) = 0 .. (o + w) - 1
  OBVIOUS
<1>2. \A P, Q, S, T : (T \cup (P \X S)) \cup (Q \X S) = T \cup ((P \cup Q) \X S)
  OBVIOUS
<1>3. QED
  BY <1>1, <1>2 DEF Area

\* A strip begins where the one before ends.
LEMMA StripAfter ==
  ASSUME job.C \in Nat \ {0}, NEW n \in Strips
  PROVE  /\ n + Width \in Nat
         /\ n + Width < job.C => n + Width \in Strips
         /\ {q \in Strips : q < n + Width} = {q \in Strips : q < n} \cup {n}
<1> DEFINE W == Width
<1>1. W \in Nat \ {0}
  BY WidthType
<1>2. \A q \in Strips : q \in Nat /\ q < job.C /\ q % W = 0
  BY DEF Strips, Width
<1>3. n \in Nat /\ n % W = 0
  BY <1>2
<1>4. (n + W) % W = 0 /\ n + W \in Nat
  <2> HIDE DEF W
  <2>1. (n + W) % W = n % W
    BY <1>1, <1>3, DivModPlusDivisor
  <2>2. QED
    BY <1>1, <1>3, <2>1
<1>5. n + W < job.C => n + W \in Strips
  BY <1>4 DEF Strips, Width
<1>6. ASSUME NEW q \in Strips, q < n + W, q > n
      PROVE  FALSE
  <2>1. q \in Nat /\ q % W = 0 /\ q - n \in 0 .. W - 1 /\ q - n # 0 /\ n + (q - n) = q
    BY <1>1, <1>2, <1>3, <1>6
  <2> HIDE DEF W
  <2> DEFINE k == n \div W
  <2>2. k \in Nat /\ n = W * k + 0
    BY <1>1, <1>3, DivModParts
  <2> DEFINE r == q - n
  <2> HIDE DEF k
  <2>3. r \in 0 .. W - 1 /\ r # 0 /\ q = n + r
    BY <1>3, <2>1
  <2> HIDE DEF r
  <2>4. (W * k + r) % W = r
    BY <1>1, <2>2, <2>3, DivModUnique
  <2>5. W * k + r = n + r
    <3> DEFINE p == W * k
    <3>1. p + 0 = n /\ p \in Int
      BY <1>1, <2>2
    <3> HIDE DEF p
    <3>2. p + r = n + r
      BY <1>3, <2>3, <3>1
    <3>3. QED
      BY <3>2 DEF p
  <2>6. QED
    BY <2>1, <2>3, <2>4, <2>5
<1>7. \A q \in Strips : q < n + W <=> q < n \/ q = n
  <2>1. ASSUME NEW q \in Strips
        PROVE  q < n + W <=> q < n \/ q = n
    BY <1>1, <1>2, <1>3, <1>6
  <2>2. QED
    BY <2>1
<1>8. {q \in Strips : q < n + W} = {q \in Strips : q < n} \cup {n}
  BY <1>7
<1>9. QED
  BY <1>4, <1>5, <1>8

LEMMA StripDone ==
  ASSUME job.C \in Nat \ {0}, NEW n \in Strips
  PROVE  /\ Area(job.R, n) = Area(0, n + Width)
         /\ n + Width >= job.C => Area(job.R, n) = (0 .. job.R - 1) \X Strips
<1>1. {q \in Strips : q < n + Width} = {q \in Strips : q < n} \cup {n}
  BY StripAfter
<1>2. 0 .. 0 - 1 = {}
  OBVIOUS
<1>3. \A S, T, Q : (Q \X S) \cup (Q \X T) = (Q \X (S \cup T)) \cup ({} \X {n + Width})
  OBVIOUS
<1>4. Area(job.R, n) = Area(0, n + Width)
  BY <1>1, <1>2, <1>3 DEF Area
<1>5. ASSUME n + Width >= job.C
      PROVE  {q \in Strips : q < n + Width} = Strips
  <2>1. n \in Nat /\ Width \in Nat
    BY WidthType DEF Strips
  <2>2. \A q \in Strips : q < n + Width
    BY <1>5, <2>1 DEF Strips
  <2>3. QED
    BY <2>2
<1>6. \A S, T : (S \X T) \cup ({} \X {n + Width}) = S \X T
  OBVIOUS
<1>7. QED
  BY <1>2, <1>4, <1>5, <1>6 DEF Area

Joined(F, C, D, E) == Outs(F, C, D) \cup Outs(F, C, E) = Outs(F, C, D \cup E)

LEMMA OutsJoin ==
  ASSUME NEW F, NEW C, NEW D, NEW E
  PROVE  Joined(F, C, D, E)
<1>1. \A A, B : {OutOf(F, C, d) : d \in A} \cup {OutOf(F, C, d) : d \in B} = {OutOf(F, C, d) : d \in A \cup B}
  OBVIOUS
<1>2. QED
  BY <1>1 DEF Outs, Joined

\* The results, row by row and strip by strip, are those of all pairs.
RowResults(F, C) == UNION {Row7(r, FullSum(F, r, C)) : r \in 0 .. job.R - 1}

LEMMA AllRows ==
  ASSUME NEW F, NEW C
  PROVE  RowResults(F, C) = Outs(F, C, (0 .. job.R - 1) \X Strips)
<1> DEFINE I == 0 .. job.R - 1
           V(r, n) == [row |-> r, n |-> n, len |-> Lesser(job.C - n, Lesser(job.C, Vlmax)),
                       from |-> FullSum(F, r, C)]
<1>1. \A r, n : OutOf(F, C, <<r, n>>) = V(r, n)
  BY DEF OutOf
<1>2. \A r : Row7(r, FullSum(F, r, C)) = {V(r, n) : n \in Strips}
  BY DEF Row7
<1> HIDE DEF V, I
<1>3. RowResults(F, C) = UNION {{V(r, n) : n \in Strips} : r \in I}
  BY <1>2 DEF RowResults, I
<1>4. \A d \in I \X Strips : \E r \in I, n \in Strips : d = <<r, n>>
  OBVIOUS
<1>5. \A e \in Outs(F, C, I \X Strips) : e \in RowResults(F, C)
  <2>1. ASSUME NEW d \in I \X Strips
        PROVE  OutOf(F, C, d) \in RowResults(F, C)
    <3>1. PICK r \in I, n \in Strips : d = <<r, n>>
      BY <1>4
    <3>2. OutOf(F, C, d) = V(r, n)
      BY <1>1, <3>1
    <3>3. QED
      BY <1>3, <3>2
  <2>2. QED
    BY <2>1 DEF Outs
<1>6. \A e \in RowResults(F, C) : e \in Outs(F, C, I \X Strips)
  <2>1. ASSUME NEW r \in I, NEW n \in Strips
        PROVE  V(r, n) \in Outs(F, C, I \X Strips)
    <3>1. <<r, n>> \in I \X Strips /\ OutOf(F, C, <<r, n>>) = V(r, n)
      BY <1>1
    <3>2. OutOf(F, C, <<r, n>>) \in Outs(F, C, I \X Strips)
      BY <3>1 DEF Outs
    <3>3. QED
      BY <3>1, <3>2
  <2>2. ASSUME NEW e \in RowResults(F, C)
        PROVE  e \in Outs(F, C, I \X Strips)
    <3>1. PICK r \in I : e \in {V(r, n) : n \in Strips}
      BY <1>3
    <3>2. PICK n \in Strips : e = V(r, n)
      BY <3>1
    <3>3. QED
      BY <2>1, <3>2
  <2>3. QED
    BY <2>2
<1>7. QED
  BY <1>5, <1>6 DEF I

F7 == [q \in Nat \X Nat |-> Read(q[1], q[1])]
F3 == [q \in Nat \X Nat |-> Read3(q[1], q[2], q[2])]

LEMMA NamesDistinct ==
  /\ Distinct(F7, 1)
  /\ \A C \in Nat : Distinct(F3, C)
<1>1. \A p, q \in Nat \X Nat : p[1] = q[1] /\ p[2] = q[2] => p = q
  OBVIOUS
<1>2. Distinct(F7, 1)
  <2>1. \A q \in Nat \X (0 .. 1 - 1) : q \in Nat \X Nat /\ F7[q] = Read(q[1], q[1]) /\ q[2] = 0
    BY DEF F7
  <2>2. \A x, y : Read(x, x) = Read(y, y) => x = y
    BY DEF Read
  <2>3. QED
    BY <1>1, <2>1, <2>2 DEF Distinct
<1>3. ASSUME NEW C \in Nat
      PROVE  Distinct(F3, C)
  <2>1. \A q \in Nat \X (0 .. C - 1) : q \in Nat \X Nat /\ F3[q] = Read3(q[1], q[2], q[2])
    BY DEF F3
  <2>2. \A a, b, x, y : Read3(a, b, b) = Read3(x, y, y) => a = x /\ b = y
    BY DEF Read3
  <2>3. QED
    BY <1>1, <2>1, <2>2 DEF Distinct
<1>4. QED
  BY <1>2, <1>3

LEMMA Result7 == Result7x7 = Outs(F7, 1, (0 .. job.R - 1) \X Strips)
<1>1. ASSUME NEW r \in Nat
      PROVE  {[from |-> Read(r + f, r + f), tap |-> f] : f \in 0 .. 6} = AllTaps(F7, r, 1)
  <2> DEFINE V(f) == [from |-> Read(r + f, r + f), tap |-> f]
             T(p) == [from |-> F7[<<r + p[1], p[2]>>], tap |-> p[1]]
             S == (0 .. 6) \X (0 .. 1 - 1)
  <2>1. \A f \in 0 .. 6 : <<f, 0>> \in S
    OBVIOUS
  <2>2. \A p \in S : p[1] \in 0 .. 6 /\ p = <<p[1], 0>>
    OBVIOUS
  <2>3. \A f \in 0 .. 6 : T(<<f, 0>>) = V(f)
    BY DEF F7
  <2> HIDE DEF V, T, S
  <2>4. {V(f) : f \in 0 .. 6} = {T(p) : p \in S}
    <3>1. \A f \in 0 .. 6 : \E p \in S : V(f) = T(p)
      BY <2>1, <2>3
    <3>2. \A p \in S : \E f \in 0 .. 6 : T(p) = V(f)
      BY <2>2, <2>3
    <3>3. QED
      BY <3>1, <3>2
  <2>5. QED
    BY <2>4 DEF V, T, S, AllTaps
<1>2. \A r \in 0 .. job.R - 1 : r \in Nat
  OBVIOUS
<1>3. \A r \in 0 .. job.R - 1 :
        SetToBag({[from |-> Read(r + f, r + f), tap |-> f] : f \in 0 .. 6}) = FullSum(F7, r, 1)
  BY <1>1, <1>2 DEF FullSum
<1>4. Result7x7 = RowResults(F7, 1)
  BY <1>3 DEF Result7x7, RowResults
<1>5. QED
  BY <1>4, AllRows

LEMMA Result3 ==
  ASSUME job.CH \in Nat
  PROVE  Result3d = Outs(F3, job.CH, (0 .. job.R - 1) \X Strips)
<1>1. ASSUME NEW r \in Nat
      PROVE  {[from |-> Read3(r + p[1], p[2], p[2]), tap |-> p[1]] : p \in (0 .. 6) \X (0 .. job.CH - 1)}
               = AllTaps(F3, r, job.CH)
  <2>1. \A p \in (0 .. 6) \X (0 .. job.CH - 1) :
          F3[<<r + p[1], p[2]>>] = Read3(r + p[1], p[2], p[2])
    BY DEF F3
  <2>2. QED
    BY <2>1 DEF AllTaps
<1>2. \A r \in 0 .. job.R - 1 : r \in Nat
  OBVIOUS
<1>3. \A r \in 0 .. job.R - 1 :
        SetToBag({[from |-> Read3(r + p[1], p[2], p[2]), tap |-> p[1]] : p \in (0 .. 6) \X (0 .. job.CH - 1)})
          = FullSum(F3, r, job.CH)
  BY <1>1, <1>2 DEF FullSum
<1>4. Result3d = RowResults(F3, job.CH)
  <2> DEFINE X(r) == SetToBag({[from |-> Read3(r + p[1], p[2], p[2]), tap |-> p[1]] :
                                 p \in (0 .. 6) \X (0 .. job.CH - 1)})
             G(r, sum) == Row7(r, sum)
  <2>1. Result3d = UNION {G(r, X(r)) : r \in 0 .. job.R - 1}
    BY DEF Result3d
  <2>2. RowResults(F3, job.CH) = UNION {G(r, FullSum(F3, r, job.CH)) : r \in 0 .. job.R - 1}
    BY DEF RowResults
  <2>3. \A r \in 0 .. job.R - 1 : X(r) = FullSum(F3, r, job.CH)
    BY <1>3
  <2> HIDE DEF X, G
  <2>4. QED
    BY <2>1, <2>2, <2>3
<1>5. QED
  BY <1>4, AllRows
-----------------------------------------------------------------------------
(***************************************************************************)
(* What a step of the 7x7 convolutions does: a group of rows of a channel  *)
(* is added, and after the last channel rows are stored and the registers  *)
(* may move up.                                                            *)
(***************************************************************************)
LEMMA NothingRead ==
  ASSUME NEW F, NEW acc, NEW n, NEW C
  PROVE  AccHolds(acc, F, 0, Progress(0, n, 0, C))
<1>1. 0 .. 0 - 1 = {}
  OBVIOUS
<1>2. \A S, T : ({} \X S) \cup (T \X {}) = {}
  OBVIOUS
<1>3. Progress(0, n, 0, C) = {}
  BY <1>1, <1>2 DEF Progress
<1>4. \A y : Used(y, Progress(0, n, 0, C)) = {}
  BY <1>3 DEF Used
<1>5. QED
  BY <1>4 DEF AccHolds

\* Of a group of which nothing is read the length does not matter.
LEMMA NoneOfNext ==
  ASSUME NEW m, NEW n, NEW k, NEW C
  PROVE  Progress(m, n, 0, C) = Progress(m, k, 0, C)
<1>1. 0 .. 0 - 1 = {}
  OBVIOUS
<1>2. \A S : S \X {} = {}
  OBVIOUS
<1>3. QED
  BY <1>1, <1>2 DEF Progress

LEMMA GroupEnds ==
  ASSUME NEW F, NEW acc, NEW o \in Nat, NEW shift \in Nat, NEW m \in Nat, m = o + shift, NEW n \in Nat,
         NEW C \in Nat \ {0}, NEW c \in 0 .. C - 1, c + 1 = C, Distinct(F, C),
         AccHolds(acc, F, o, Progress(m, n, c, C)), NEW next \in Nat, next = m + n, NEW k \in Nat
  PROVE  AccHolds(Mac(acc, FreshOf(o, m, n, c), RowsOf(F, m, n, c), shift), F, o, Progress(next, k, 0, C))
<1>1. AccHolds(Mac(acc, FreshOf(o, m, n, c), RowsOf(F, m, n, c), shift), F, o, Progress(m, n, c + 1, C))
  BY MacGroup
<1>2. Progress(m, n, C, C) = Progress(m + n, k, 0, C)
  BY GroupDone
<1>3. QED
  BY <1>1, <1>2

\* With one channel, every group is the last.
LEMMA OneGroupEnds ==
  ASSUME NEW acc, NEW o \in Nat, NEW shift \in Nat, NEW m \in Nat, m = o + shift, NEW n \in Nat,
         AccHolds(acc, F7, o, Progress(m, n, 0, 1)), NEW next \in Nat, next = m + n, NEW k \in Nat
  PROVE  AccHolds(Mac(acc, FreshOf(o, m, n, 0), RowsOf(F7, m, n, 0), shift), F7, o, Progress(next, k, 0, 1))
<1>1. 0 \in 0 .. 1 - 1 /\ 0 + 1 = 1 /\ 1 \in Nat \ {0}
  OBVIOUS
<1>2. Distinct(F7, 1)
  BY NamesDistinct
<1>3. QED
  BY <1>1, <1>2, GroupEnds

LEMMA GroupMovesUp ==
  ASSUME NEW F, NEW acc, NEW o \in Nat, NEW C \in Nat \ {0}, NEW k \in Nat,
         AccHolds(acc, F, o, Progress(o + 7, k, 0, C))
  PROVE  AccHolds(MovedUp(acc), F, o + 1, Progress(o + 7, k, 0, C))
<1>1. o + 7 \in Nat /\ ~(o + 7 < o + 7) /\ 0 \in 0 .. C /\ ~(0 > 0)
  OBVIOUS
<1>2. Used(o + 7, Progress(o + 7, k, 0, C)) = {}
  BY <1>1, UsedProgress
<1>3. QED
  BY <1>2, MovedUpHolds

LEMMA StoredArea ==
  ASSUME NEW F, NEW acc, NEW C \in Nat \ {0}, NEW lo \in 1 .. 7, NEW hi \in lo .. 7, NEW o \in Nat,
         NEW m \in Nat, NEW k \in Nat, at.o = o + lo - 1, m >= o + hi + 6,
         AccHolds(acc, F, o, Progress(m, k, 0, C)), Stored(acc, lo .. hi),
         out = Outs(F, C, Area(at.o, at.n)), NEW next \in Nat, next = o + hi
  PROVE  out' = Outs(F, C, Area(next, at.n))
<1>1. out' = out \cup Outs(F, C, (o + lo - 1 .. o + hi - 1) \X {at.n})
  <2>1. StoresRows(F, C, o, lo, hi, at.n)
    BY StoredRows
  <2>2. QED
    BY <2>1 DEF StoresRows
<1> DEFINE o2 == o + lo - 1
           w == hi - lo + 1
<1>2. o2 \in Nat /\ w \in Nat /\ o2 + w = o + hi /\ o2 + w - 1 = o + hi - 1 /\ at.o = o2
  OBVIOUS
<1> HIDE DEF o2, w
<1>3. Area(o2, at.n) \cup ((o2 .. o2 + w - 1) \X {at.n}) = Area(o2 + w, at.n)
  BY <1>2, AreaGrows
<1>4. out' = Outs(F, C, Area(o2, at.n)) \cup Outs(F, C, (o2 .. o2 + w - 1) \X {at.n})
  BY <1>1, <1>2 DEF o2
<1>5. out' = Outs(F, C, Area(o2, at.n) \cup ((o2 .. o2 + w - 1) \X {at.n}))
  <2>1. Joined(F, C, Area(o2, at.n), (o2 .. o2 + w - 1) \X {at.n})
    BY OutsJoin
  <2>2. QED
    BY <1>4, <2>1 DEF Joined
<1>6. QED
  BY <1>2, <1>3, <1>5

\* The same with all that it needs in one formula.
StoreReady(F, acc, C, lo, hi, o, m, k, next) ==
  /\ C \in Nat \ {0} /\ lo \in 1 .. 7 /\ hi \in lo .. 7 /\ o \in Nat /\ m \in Nat /\ k \in Nat
  /\ at.o = o + lo - 1 /\ m >= o + hi + 6 /\ next \in Nat /\ next = o + hi
  /\ AccHolds(acc, F, o, Progress(m, k, 0, C)) /\ Stored(acc, lo .. hi)
  /\ out = Outs(F, C, Area(at.o, at.n))

LEMMA ReadyStored ==
  ASSUME NEW F, NEW acc, NEW C, NEW lo, NEW hi, NEW o, NEW m, NEW k, NEW next,
         StoreReady(F, acc, C, lo, hi, o, m, k, next)
  PROVE  out' = Outs(F, C, Area(next, at.n))
BY StoredArea DEF StoreReady

\* Once all its rows are stored, a strip is complete, and so is perhaps all.
LEMMA StripStored ==
  ASSUME job.C \in Nat \ {0}, NEW F, NEW C, at.n \in Strips, out' = Outs(F, C, Area(job.R, at.n))
  PROVE  /\ NextStrip < job.C => NextStrip \in Strips
         /\ NextStrip \in Nat
         /\ out' = Outs(F, C, Area(0, NextStrip))
         /\ NextStrip >= job.C => out' = Outs(F, C, (0 .. job.R - 1) \X Strips)
<1>1. NextStrip = at.n + Width
  BY DEF NextStrip, Width
<1>2. /\ Area(job.R, at.n) = Area(0, at.n + Width)
      /\ at.n + Width >= job.C => Area(job.R, at.n) = (0 .. job.R - 1) \X Strips
  BY StripDone
<1>3. at.n + Width < job.C => at.n + Width \in Strips
  BY StripAfter
<1>4. at.n + Width \in Nat
  BY StripAfter
<1>5. QED
  BY <1>1, <1>2, <1>3, <1>4

LEMMA Size7 ==
  ASSUME job \in Jobs, job.kernel = "fconv2d_7x7" \/ job.kernel = "fconv3d"
  PROVE  /\ job.C \in Nat \ {0} /\ job.R \in Nat /\ LoopEnd \in Nat /\ job.R = 2 * LoopEnd + 8
         /\ job.kernel = "fconv3d" => job.CH \in Nat \ {0}
<1>1. /\ job.C \in Nat \ {0} /\ job.R \in Nat /\ job.R >= 8 /\ job.R % 2 = 0
      /\ job.kernel = "fconv3d" => job.CH \in Nat \ {0}
  BY KernelAssumption DEF VectorSizes, ConvSizes, Positive
<1> DEFINE R == job.R
<1>2. R \in Nat /\ R >= 8 /\ R % 2 = 0
  BY <1>1
<1> HIDE DEF R
<1>3. (R + 6 - 2 * 7) \div 2 \in Nat /\ R = 2 * ((R + 6 - 2 * 7) \div 2) + 8
  BY <1>2
<1>4. LoopEnd \in Nat /\ job.R = 2 * LoopEnd + 8
  BY <1>3 DEF R, LoopEnd
<1>5. QED
  BY <1>1, <1>4

LEMMA NextRowsAre ==
  ASSUME reg.i \in Nat, NEW count \in Nat
  PROVE  NextRows(count) = RowsOf(F7, reg.i, count, 0)
<1>1. \A s \in 1 .. count : F7[<<reg.i + s - 1, 0>>] = Read(reg.i + s - 1, reg.i + s - 1)
  <2>1. ASSUME NEW s \in 1 .. count
        PROVE  F7[<<reg.i + s - 1, 0>>] = Read(reg.i + s - 1, reg.i + s - 1)
    <3> DEFINE x == reg.i + s - 1
    <3>1. x \in Nat
      OBVIOUS
    <3> HIDE DEF x
    <3>2. F7[<<x, 0>>] = Read(x, x)
      BY <3>1 DEF F7
    <3>3. QED
      BY <3>2 DEF x
  <2>2. QED
    BY <2>1
<1>2. QED
  BY <1>1 DEF NextRows, RowsOf

LEMMA HeldRowIs ==
  ASSUME NEW x \in Nat
  PROVE  <<Read(x, x)>> = RowsOf(F7, x, 1, 0)
<1>1. F7[<<x, 0>>] = Read(x, x)
  BY DEF F7
<1>2. \A s \in 1 .. 1 : s = 1 /\ x + s - 1 = x
  OBVIOUS
<1> DEFINE e == Read(x, x)
<1> HIDE DEF e
<1>3. <<e>> = [s \in 1 .. 1 |-> e]
  OBVIOUS
<1>4. \A s \in 1 .. 1 : F7[<<x + s - 1, 0>>] = e
  BY <1>1, <1>2 DEF e
<1>5. QED
  BY <1>3, <1>4 DEF RowsOf, e

LEMMA FunctionIsSeq ==
  ASSUME NEW S, NEW n \in Nat, NEW f \in [1 .. n -> S]
  PROVE  f \in Seq(S) /\ Len(f) = n
<1>1. f \in Seq(S) /\ DOMAIN f = 1 .. n
  OBVIOUS
<1>2. QED
  BY <1>1, LenProperties

LEMMA HeldAndNextRows ==
  ASSUME NEW x \in Nat, reg.i = x + 1
  PROVE  <<Read(x, x)>> \o NextRows(3) = RowsOf(F7, x, 4, 0)
<1>1. NextRows(3) = RowsOf(F7, x + 1, 3, 0)
  BY NextRowsAre
<1>2. <<Read(x, x)>> = RowsOf(F7, x, 1, 0)
  BY HeldRowIs
<1> DEFINE G(z) == F7[<<z, 0>>]
           s1 == RowsOf(F7, x, 1, 0)
           s2 == RowsOf(F7, x + 1, 3, 0)
           S == {G(z) : z \in Nat}
<1> HIDE DEF G
<1>3. s1 = [s \in 1 .. 1 |-> G(x + s - 1)] /\ s2 = [s \in 1 .. 3 |-> G(x + 1 + s - 1)]
  BY DEF RowsOf, G
<1> HIDE DEF s1, s2
<1>4. s1 \in [1 .. 1 -> S] /\ s2 \in [1 .. 3 -> S]
  <2>1. \A s \in 1 .. 3 : x + s - 1 \in Nat /\ x + 1 + s - 1 \in Nat
    OBVIOUS
  <2>2. QED
    BY <1>3, <2>1
<1> HIDE DEF S
<1>5. s1 \in Seq(S) /\ s2 \in Seq(S) /\ Len(s1) = 1 /\ Len(s2) = 3
  <2>1. s1 \in Seq(S) /\ Len(s1) = 1
    BY <1>4, FunctionIsSeq
  <2>2. s2 \in Seq(S) /\ Len(s2) = 3
    BY <1>4, FunctionIsSeq
  <2>3. QED
    BY <2>1, <2>2
<1>6. /\ s1 \o s2 \in Seq(S) /\ Len(s1 \o s2) = 4
      /\ \A s \in 1 .. 4 : (s1 \o s2)[s] = IF s <= 1 THEN s1[s] ELSE s2[s - 1]
  <2>1. /\ s1 \o s2 \in Seq(S) /\ Len(s1 \o s2) = 1 + 3
        /\ \A s \in 1 .. 1 + 3 : (s1 \o s2)[s] = IF s <= 1 THEN s1[s] ELSE s2[s - 1]
    <3>1. s1 \in Seq(S) /\ s2 \in Seq(S)
      BY <1>5
    <3>2. \A m, n \in Nat : Len(s1) = m /\ Len(s2) = n =>
            /\ s1 \o s2 \in Seq(S) /\ Len(s1 \o s2) = m + n
            /\ \A s \in 1 .. m + n : (s1 \o s2)[s] = IF s <= m THEN s1[s] ELSE s2[s - m]
      <4>1. ASSUME NEW m \in Nat, NEW n \in Nat, Len(s1) = m, Len(s2) = n
            PROVE  /\ s1 \o s2 \in Seq(S) /\ Len(s1 \o s2) = m + n
                   /\ \A s \in 1 .. m + n : (s1 \o s2)[s] = IF s <= m THEN s1[s] ELSE s2[s - m]
        BY <3>1, <4>1, ConcatProperties
      <4>2. QED
        BY <4>1
    <3>3. 1 \in Nat /\ 3 \in Nat
      OBVIOUS
    <3>4. QED
      BY <1>5, <3>2, <3>3
  <2>2. QED
    BY <2>1
<1>7. s1 \o s2 = [s \in 1 .. 4 |-> (s1 \o s2)[s]]
  BY <1>6, SeqIsFunction
<1>8. \A s \in 1 .. 4 : (s1 \o s2)[s] = G(x + s - 1)
  <2>1. ASSUME NEW s \in 1 .. 4
        PROVE  (s1 \o s2)[s] = G(x + s - 1)
    <3>1. CASE s <= 1
      <4>1. s \in 1 .. 1
        BY <3>1
      <4>2. QED
        BY <1>3, <1>6, <3>1, <4>1
    <3>2. CASE ~(s <= 1)
      <4>1. s - 1 \in 1 .. 3 /\ x + 1 + (s - 1) - 1 = x + s - 1
        BY <3>2
      <4>2. s2[s - 1] = G(x + 1 + (s - 1) - 1)
        BY <1>3, <4>1
      <4>3. QED
        BY <1>6, <3>2, <4>1, <4>2
    <3>3. QED
      BY <3>1, <3>2
  <2>2. QED
    BY <2>1
<1>9. s1 \o s2 = RowsOf(F7, x, 4, 0)
  BY <1>7, <1>8 DEF RowsOf, G
<1>10. QED
  BY <1>1, <1>2, <1>9 DEF s1, s2
-----------------------------------------------------------------------------
(***************************************************************************)
(* fconv2d_7x7: where each phase is, and what has been read then.          *)
(***************************************************************************)
Inv7 ==
  /\ at \in [n : {at.n}, phase : {at.phase}, o : Nat, j : Nat, ch : {at.ch}]
  /\ reg \in [acc : {reg.acc}, i : Nat, v0 : Nat, ptr : Nat]
  /\ ~done =>
       /\ at.n \in Strips /\ out = Outs(F7, 1, Area(at.o, at.n))
       /\ at.phase = "head4" => at.o = 0 /\ at.j = 0 /\ reg.i = 0
       /\ at.phase = "head3" =>
            at.o = 0 /\ at.j = 0 /\ reg.i = 4 /\ AccHolds(reg.acc, F7, 0, Progress(4, 3, 0, 1))
       /\ at.phase = "unroll0" => at.o = 2 * at.j + 1 /\ at.j <= LoopEnd
       /\ at.phase = "unroll1" => at.o = 2 * at.j + 2 /\ at.j < LoopEnd
       /\ at.phase \in {"unroll0", "unroll1"} =>
            /\ reg.i = at.o + 7 /\ reg.v0 = at.o + 6 /\ reg.ptr = at.o + 6
            /\ AccHolds(reg.acc, F7, at.o, Progress(at.o + 6, 1, 0, 1))
       /\ at.phase = "tail3" =>
            /\ at.o = job.R - 3 /\ reg.i = job.R + 3
            /\ AccHolds(reg.acc, F7, job.R - 7, Progress(job.R + 3, 3, 0, 1))
  /\ loaded \subseteq 0 .. job.R + 5
  /\ done => out = Result7x7

LEMMA Begins7 ==
  ASSUME job \in Jobs, job.kernel = "fconv2d_7x7", done = FALSE, Start7x7
  PROVE  Inv7
<1>1. /\ at = [n |-> 0, phase |-> "head4", o |-> 0, j |-> 0, ch |-> 0]
      /\ reg = [acc |-> NoSumsYet, i |-> 0, v0 |-> 0, ptr |-> 0] /\ out = {} /\ loaded = {}
  BY DEF Start7x7, Start, Strip
<1>2. job.C \in Nat \ {0}
  BY Size7
<1>3. 0 \in Strips /\ Area(0, 0) = {}
  BY <1>2, FirstStrip
<1>4. Outs(F7, 1, {}) = {}
  BY DEF Outs
<1>5. at \in [n : {at.n}, phase : {at.phase}, o : Nat, j : Nat, ch : {at.ch}]
      /\ reg \in [acc : {reg.acc}, i : Nat, v0 : Nat, ptr : Nat]
  BY <1>1
<1>6. at.n = 0 /\ at.o = 0 /\ at.j = 0 /\ reg.i = 0 /\ at.phase = "head4"
  BY <1>1
<1>7. QED
  BY <1>1, <1>3, <1>4, <1>5, <1>6 DEF Inv7

\* The definitions that only look at the job stay what they are.
LEMMA SameJob7 ==
  ASSUME job' = job
  PROVE  Inv7' =
    /\ at' \in [n : {at'.n}, phase : {at'.phase}, o : Nat, j : Nat, ch : {at'.ch}]
    /\ reg' \in [acc : {reg'.acc}, i : Nat, v0 : Nat, ptr : Nat]
    /\ ~done' =>
         /\ at'.n \in Strips /\ out' = Outs(F7, 1, Area(at'.o, at'.n))
         /\ at'.phase = "head4" => at'.o = 0 /\ at'.j = 0 /\ reg'.i = 0
         /\ at'.phase = "head3" =>
              at'.o = 0 /\ at'.j = 0 /\ reg'.i = 4 /\ AccHolds(reg'.acc, F7, 0, Progress(4, 3, 0, 1))
         /\ at'.phase = "unroll0" => at'.o = 2 * at'.j + 1 /\ at'.j <= LoopEnd
         /\ at'.phase = "unroll1" => at'.o = 2 * at'.j + 2 /\ at'.j < LoopEnd
         /\ at'.phase \in {"unroll0", "unroll1"} =>
              /\ reg'.i = at'.o + 7 /\ reg'.v0 = at'.o + 6 /\ reg'.ptr = at'.o + 6
              /\ AccHolds(reg'.acc, F7, at'.o, Progress(at'.o + 6, 1, 0, 1))
         /\ at'.phase = "tail3" =>
              /\ at'.o = job.R - 3 /\ reg'.i = job.R + 3
              /\ AccHolds(reg'.acc, F7, job.R - 7, Progress(job.R + 3, 3, 0, 1))
    /\ loaded' \subseteq 0 .. job.R + 5
    /\ done' => out' = Result7x7
<1>1. Strips' = Strips /\ LoopEnd' = LoopEnd
  BY DEF Strips, LoopEnd
<1>2. ASSUME NEW D
      PROVE  (Outs(F7, 1, D))' = Outs(F7, 1, D)
  BY DEF Outs, OutOf
<1>3. ASSUME NEW o, NEW n
      PROVE  (Area(o, n))' = Area(o, n)
  BY <1>1 DEF Area
<1>4. Result7x7' = Result7x7
  BY <1>1 DEF Result7x7, Row7
<1>5. QED
  BY <1>1, <1>2, <1>3, <1>4 DEF Inv7

LEMMA Head4Moves ==
  ASSUME job \in Jobs, job.kernel = "fconv2d_7x7", done = FALSE, job' = job, Inv7, Head4
  PROVE  Inv7'
<1>1. /\ at.phase = "head4" /\ at.o = 0 /\ at.j = 0 /\ reg.i = 0 /\ at.n \in Strips
      /\ out = Outs(F7, 1, Area(0, at.n)) /\ loaded \subseteq 0 .. job.R + 5
      /\ at \in [n : {at.n}, phase : {at.phase}, o : Nat, j : Nat, ch : {at.ch}]
      /\ reg \in [acc : {reg.acc}, i : Nat, v0 : Nat, ptr : Nat]
  BY DEF Inv7, Head4, At7
<1>2. job.R \in Nat /\ job.R >= 8
  BY Size7
<1> DEFINE acc == Mac(reg.acc, 1 .. 4, NextRows(4), 0)
<1>3. /\ reg' = [reg EXCEPT !.acc = acc, !.i = 4] /\ at' = [at EXCEPT !.phase = "head3"]
      /\ loaded' = loaded \cup (0 .. 3) /\ out' = out /\ done' = FALSE
  BY <1>1 DEF Head4, Keeps
<1>4. AccHolds(acc, F7, 0, Progress(4, 3, 0, 1))
  <2>1. NextRows(4) = RowsOf(F7, 0, 4, 0)
    BY <1>1, NextRowsAre
  <2>2. 1 .. 4 = FreshOf(0, 0, 4, 0)
    BY FreshSets
  <2>3. AccHolds(reg.acc, F7, 0, Progress(0, 4, 0, 1))
    BY NothingRead
  <2>4. 0 = 0 + 0 /\ 0 + 4 = 4
    OBVIOUS
  <2>5. AccHolds(Mac(reg.acc, FreshOf(0, 0, 4, 0), RowsOf(F7, 0, 4, 0), 0), F7, 0, Progress(4, 3, 0, 1))
    BY <2>3, <2>4, OneGroupEnds
  <2>6. QED
    BY <2>1, <2>2, <2>5
<1> HIDE DEF acc
<1>5. reg' \in [acc : {reg'.acc}, i : Nat, v0 : Nat, ptr : Nat] /\ reg'.acc = acc /\ reg'.i = 4
  BY <1>1, <1>3
<1>6. at' \in [n : {at'.n}, phase : {at'.phase}, o : Nat, j : Nat, ch : {at'.ch}]
      /\ at'.phase = "head3" /\ at'.o = 0 /\ at'.j = 0 /\ at'.n = at.n
  BY <1>1, <1>3
<1>7. loaded' \subseteq 0 .. job.R + 5
  BY <1>1, <1>2, <1>3
<1>8. QED
  BY <1>1, <1>3, <1>4, <1>5, <1>6, <1>7, SameJob7

LEMMA Head3Moves ==
  ASSUME job \in Jobs, job.kernel = "fconv2d_7x7", done = FALSE, job' = job, Inv7, Head3
  PROVE  Inv7'
<1>1. /\ at.phase = "head3" /\ at.o = 0 /\ at.j = 0 /\ reg.i = 4 /\ at.n \in Strips
      /\ AccHolds(reg.acc, F7, 0, Progress(4, 3, 0, 1))
      /\ out = Outs(F7, 1, Area(0, at.n)) /\ loaded \subseteq 0 .. job.R + 5
      /\ at \in [n : {at.n}, phase : {at.phase}, o : Nat, j : Nat, ch : {at.ch}]
      /\ reg \in [acc : {reg.acc}, i : Nat, v0 : Nat, ptr : Nat]
  BY DEF Inv7, Head3, At7
<1>2. job.R \in Nat /\ job.R >= 8 /\ LoopEnd \in Nat
  BY Size7
<1> DEFINE acc == Mac(reg.acc, 5 .. 7, NextRows(3), 4)
<1>3. /\ reg' = [acc |-> MovedUp(acc), i |-> reg.i + 4, v0 |-> reg.i + 3, ptr |-> reg.i + 3]
      /\ at' = [at EXCEPT !.phase = "unroll0", !.o = 1]
      /\ loaded' = loaded \cup (reg.i .. reg.i + 3) /\ Stored(acc, {1}) /\ done' = FALSE
  BY <1>1 DEF Head3, Keeps
<1>4. AccHolds(acc, F7, 0, Progress(7, 1, 0, 1))
  <2>1. NextRows(3) = RowsOf(F7, 4, 3, 0)
    BY <1>1, NextRowsAre
  <2>2. 5 .. 7 = FreshOf(0, 4, 3, 0)
    <3>1. FreshOf(0, 0 + 4, 3, 0) = 5 .. 7
      BY FreshSets
    <3>2. 0 + 4 = 4
      OBVIOUS
    <3>3. QED
      BY <3>1, <3>2
  <2>3. 4 = 0 + 4 /\ 4 + 3 = 7
    OBVIOUS
  <2>4. AccHolds(Mac(reg.acc, FreshOf(0, 4, 3, 0), RowsOf(F7, 4, 3, 0), 4), F7, 0, Progress(7, 1, 0, 1))
    BY <1>1, <2>3, OneGroupEnds
  <2>5. QED
    BY <2>1, <2>2, <2>4
<1> HIDE DEF acc
<1>5. AccHolds(MovedUp(acc), F7, 1, Progress(7, 1, 0, 1))
  <2>1. 0 + 7 = 7 /\ 0 + 1 = 1
    OBVIOUS
  <2>2. AccHolds(MovedUp(acc), F7, 0 + 1, Progress(0 + 7, 1, 0, 1))
    BY <1>4, <2>1, GroupMovesUp
  <2>3. QED
    BY <2>1, <2>2
<1>6. out' = Outs(F7, 1, Area(1, at.n))
  <2>1. 1 .. 1 = {1} /\ at.o = 0 + 1 - 1 /\ 7 >= 0 + 1 + 6 /\ 0 + 1 = 1 /\ 1 \in 1 .. 7 /\ 1 \in 1 .. 1
    BY <1>1
  <2>2. Stored(acc, 1 .. 1) /\ out = Outs(F7, 1, Area(at.o, at.n))
    BY <1>1, <1>3, <2>1
  <2>3. QED
    BY <1>4, <2>1, <2>2, StoredArea
<1>7. reg' \in [acc : {reg'.acc}, i : Nat, v0 : Nat, ptr : Nat]
      /\ reg'.acc = MovedUp(acc) /\ reg'.i = 8 /\ reg'.v0 = 7 /\ reg'.ptr = 7
  BY <1>1, <1>3
<1>8. at' \in [n : {at'.n}, phase : {at'.phase}, o : Nat, j : Nat, ch : {at'.ch}]
      /\ at'.phase = "unroll0" /\ at'.o = 1 /\ at'.j = 0 /\ at'.n = at.n
  BY <1>1, <1>3
<1>9. loaded' \subseteq 0 .. job.R + 5
  BY <1>1, <1>2, <1>3
<1>10. /\ at'.o = 2 * at'.j + 1 /\ at'.j <= LoopEnd
       /\ reg'.i = at'.o + 7 /\ reg'.v0 = at'.o + 6 /\ reg'.ptr = at'.o + 6
       /\ at'.o + 6 = 7
  BY <1>2, <1>7, <1>8
<1>11. AccHolds(reg'.acc, F7, at'.o, Progress(at'.o + 6, 1, 0, 1))
  BY <1>5, <1>7, <1>8, <1>10
<1>12. out' = Outs(F7, 1, Area(at'.o, at'.n))
  BY <1>6, <1>8
<1>13. at'.n \in Strips
  BY <1>1, <1>8
<1>14. QED
  BY <1>3, <1>7, <1>8, <1>9, <1>10, <1>11, <1>12, <1>13, SameJob7

AtIs(p, n, o, j) ==
  /\ at' \in [n : {at'.n}, phase : {at'.phase}, o : Nat, j : Nat, ch : {at'.ch}]
  /\ at'.phase = p /\ at'.n = n /\ at'.o = o /\ at'.j = j

LEMMA AtMoves ==
  ASSUME at \in [n : {at.n}, phase : {at.phase}, o : Nat, j : Nat, ch : {at.ch}],
         NEW p, NEW o \in Nat, NEW j \in Nat,
         \/ at' = [at EXCEPT !.phase = p, !.o = o] /\ j = at.j
         \/ at' = [at EXCEPT !.phase = p, !.o = o, !.j = j]
  PROVE  AtIs(p, at.n, o, j)
BY DEF AtIs

\* A row of the main loop, for the output row o.
RowDone(o) ==
  /\ reg' \in [acc : {reg'.acc}, i : Nat, v0 : Nat, ptr : Nat]
  /\ reg'.i = o + 8 /\ reg'.v0 = o + 7 /\ reg'.ptr = o + 7
  /\ AccHolds(reg'.acc, F7, o + 1, Progress(o + 7, 1, 0, 1))
  /\ out' = Outs(F7, 1, Area(o + 1, at.n))
  /\ loaded' = loaded \cup {o + 7} /\ done' = FALSE

LEMMA RowMoves ==
  ASSUME done = FALSE, Inv7, RegimeRow, at.phase \in {"unroll0", "unroll1"}
  PROVE  RowDone(at.o)
<1> DEFINE o == at.o
           acc == Mac(reg.acc, {7}, <<Read(reg.v0, reg.ptr)>>, 6)
<1>1. /\ o \in Nat /\ reg.i = o + 7 /\ reg.v0 = o + 6 /\ reg.ptr = o + 6
      /\ AccHolds(reg.acc, F7, o, Progress(o + 6, 1, 0, 1))
      /\ out = Outs(F7, 1, Area(o, at.n))
      /\ reg \in [acc : {reg.acc}, i : Nat, v0 : Nat, ptr : Nat]
  BY DEF Inv7
<1>2. /\ reg' = [acc |-> MovedUp(acc), i |-> reg.i + 1, v0 |-> reg.i, ptr |-> reg.i]
      /\ Stored(acc, {1}) /\ loaded' = loaded \cup {reg.i} /\ done' = FALSE
  BY DEF RegimeRow, Keeps
<1>3. at.o = o
  OBVIOUS
<1> HIDE DEF o
<1>4. AccHolds(acc, F7, o, Progress(o + 7, 1, 0, 1))
  <2>1. <<Read(reg.v0, reg.ptr)>> = RowsOf(F7, o + 6, 1, 0)
    <3>1. o + 6 \in Nat
      BY <1>1
    <3>2. <<Read(o + 6, o + 6)>> = RowsOf(F7, o + 6, 1, 0)
      BY <3>1, HeldRowIs
    <3>3. QED
      BY <1>1, <3>2
  <2>2. {7} = FreshOf(o, o + 6, 1, 0)
    BY <1>1, FreshSets
  <2>3. o + 6 \in Nat /\ 6 \in Nat /\ o + 7 \in Nat /\ o + 7 = (o + 6) + 1 /\ 1 \in Nat
    BY <1>1
  <2>4. AccHolds(Mac(reg.acc, FreshOf(o, o + 6, 1, 0), RowsOf(F7, o + 6, 1, 0), 6), F7, o, Progress(o + 7, 1, 0, 1))
    BY <1>1, <2>3, OneGroupEnds
  <2>5. QED
    BY <2>1, <2>2, <2>4
<1> HIDE DEF acc
<1>5. AccHolds(MovedUp(acc), F7, o + 1, Progress(o + 7, 1, 0, 1))
  BY <1>1, <1>4, GroupMovesUp
<1>6. out' = Outs(F7, 1, Area(o + 1, at.n))
  <2>1. 1 .. 1 = {1} /\ at.o = o + 1 - 1 /\ o + 7 >= o + 1 + 6 /\ 1 \in 1 .. 7 /\ 1 \in 1 .. 1
        /\ o + 7 \in Nat /\ o + 1 \in Nat
    BY <1>1, <1>3
  <2>2. Stored(acc, 1 .. 1) /\ out = Outs(F7, 1, Area(at.o, at.n))
    BY <1>1, <1>2, <1>3, <2>1
  <2>3. QED
    BY <1>1, <1>4, <2>1, <2>2, StoredArea
<1>7. reg' \in [acc : {reg'.acc}, i : Nat, v0 : Nat, ptr : Nat]
      /\ reg'.acc = MovedUp(acc) /\ reg'.i = o + 8 /\ reg'.v0 = o + 7 /\ reg'.ptr = o + 7
  BY <1>1, <1>2
<1>8. RowDone(o)
  BY <1>1, <1>2, <1>5, <1>6, <1>7 DEF RowDone
<1>9. QED
  BY <1>3, <1>8

LEMMA UnrollMoves ==
  ASSUME job \in Jobs, job.kernel = "fconv2d_7x7", done = FALSE, job' = job, Inv7, Unroll0 \/ Unroll1
  PROVE  Inv7'
<1> DEFINE o == at.o
           j == at.j
<1>1. /\ o \in Nat /\ j \in Nat /\ at.n \in Strips /\ loaded \subseteq 0 .. job.R + 5
      /\ at \in [n : {at.n}, phase : {at.phase}, o : Nat, j : Nat, ch : {at.ch}]
  BY DEF Inv7, Unroll0, Unroll1, At7
<1>2. job.R \in Nat /\ LoopEnd \in Nat /\ job.R = 2 * LoopEnd + 8
  BY Size7
<1>3. RegimeRow /\ at.phase \in {"unroll0", "unroll1"}
  BY DEF Unroll0, Unroll1, At7
<1>4. RowDone(o)
  BY <1>3, RowMoves
<1>5. j < LoopEnd /\ o <= 2 * j + 2
  BY <1>1 DEF Inv7, Unroll0, Unroll1, At7
<1> HIDE DEF o, j
<1>6. loaded' \subseteq 0 .. job.R + 5
  <2>1. o + 7 \in 0 .. job.R + 5
    BY <1>1, <1>2, <1>5
  <2>2. loaded' = loaded \cup {o + 7}
    BY <1>4 DEF RowDone
  <2>3. QED
    BY <1>1, <2>1, <2>2
<1>7. /\ at' \in [n : {at'.n}, phase : {at'.phase}, o : Nat, j : Nat, ch : {at'.ch}]
      /\ at'.n = at.n /\ at'.o = o + 1 /\ at'.phase \in {"unroll0", "unroll1"}
      /\ at'.phase = "unroll0" => at'.o = 2 * at'.j + 1 /\ at'.j <= LoopEnd
      /\ at'.phase = "unroll1" => at'.o = 2 * at'.j + 2 /\ at'.j < LoopEnd
  <2>1. CASE Unroll0
    <3>1. at' = [at EXCEPT !.phase = "unroll1", !.o = o + 1] /\ o = 2 * j + 1
      BY <2>1 DEF Unroll0, At7, Inv7, o, j
    <3>2. at' \in [n : {at'.n}, phase : {at'.phase}, o : Nat, j : Nat, ch : {at'.ch}]
          /\ at'.n = at.n /\ at'.o = o + 1 /\ at'.phase = "unroll1" /\ at'.j = j
      <4>1. o + 1 \in Nat
        BY <1>1
      <4>2. at.j = j
        BY DEF j
      <4>3. AtIs("unroll1", at.n, o + 1, j)
        BY <1>1, <3>1, <4>1, <4>2, AtMoves
      <4>4. QED
        BY <4>3 DEF AtIs
    <3>3. o + 1 = 2 * j + 2
      BY <1>1, <3>1
    <3>4. QED
      BY <1>5, <3>2, <3>3
  <2>2. CASE Unroll1
    <3>1. at' = [at EXCEPT !.phase = "unroll0", !.o = o + 1, !.j = j + 1] /\ o = 2 * j + 2
      BY <2>2 DEF Unroll1, At7, Inv7, o, j
    <3>2. at' \in [n : {at'.n}, phase : {at'.phase}, o : Nat, j : Nat, ch : {at'.ch}]
          /\ at'.n = at.n /\ at'.o = o + 1 /\ at'.phase = "unroll0" /\ at'.j = j + 1
      <4>1. o + 1 \in Nat /\ j + 1 \in Nat
        BY <1>1
      <4>2. AtIs("unroll0", at.n, o + 1, j + 1)
        BY <1>1, <3>1, <4>1, AtMoves
      <4>3. QED
        BY <4>2 DEF AtIs
    <3>3. o + 1 = 2 * (j + 1) + 1 /\ j + 1 <= LoopEnd
      BY <1>1, <1>2, <1>5, <3>1
    <3>4. QED
      BY <3>2, <3>3
  <2>3. QED
    BY <2>1, <2>2
<1>8. /\ reg' \in [acc : {reg'.acc}, i : Nat, v0 : Nat, ptr : Nat]
      /\ reg'.i = at'.o + 7 /\ reg'.v0 = at'.o + 6 /\ reg'.ptr = at'.o + 6
      /\ AccHolds(reg'.acc, F7, at'.o, Progress(at'.o + 6, 1, 0, 1))
      /\ out' = Outs(F7, 1, Area(at'.o, at'.n)) /\ done' = FALSE
  <2>1. (o + 1) + 7 = o + 8 /\ (o + 1) + 6 = o + 7
    BY <1>1
  <2>2. QED
    BY <1>4, <1>7, <2>1 DEF RowDone
<1>9. at'.n \in Strips /\ at'.phase # "head4" /\ at'.phase # "head3" /\ at'.phase # "tail3"
  BY <1>1, <1>7
<1>10. QED
  BY <1>6, <1>7, <1>8, <1>9, SameJob7

LEMMA Tail4Moves ==
  ASSUME job \in Jobs, job.kernel = "fconv2d_7x7", done = FALSE, job' = job, Inv7, Tail4
  PROVE  Inv7'
<1> DEFINE o == at.o
           acc == Mac(reg.acc, {7}, <<Read(reg.v0, reg.ptr)>> \o NextRows(3), 6)
<1>1. /\ at.phase = "unroll0" /\ o = 2 * at.j + 1 /\ at.j = LoopEnd
      /\ job.R \in Nat /\ LoopEnd \in Nat /\ job.R = 2 * LoopEnd + 8
  BY Size7 DEF Inv7, Tail4, At7
<1>2. /\ o \in Nat /\ reg.i = o + 7 /\ reg.v0 = o + 6 /\ reg.ptr = o + 6
      /\ AccHolds(reg.acc, F7, o, Progress(o + 6, 1, 0, 1))
      /\ out = Outs(F7, 1, Area(o, at.n)) /\ at.n \in Strips /\ loaded \subseteq 0 .. job.R + 5
      /\ reg \in [acc : {reg.acc}, i : Nat, v0 : Nat, ptr : Nat]
      /\ at \in [n : {at.n}, phase : {at.phase}, o : Nat, j : Nat, ch : {at.ch}]
  BY <1>1 DEF Inv7
<1>3. /\ reg' = [reg EXCEPT !.acc = acc, !.i = reg.i + 3] /\ at' = [at EXCEPT !.phase = "tail3", !.o = o + 4]
      /\ loaded' = loaded \cup (reg.i .. reg.i + 2) /\ Stored(acc, 1 .. 4) /\ done' = FALSE
  BY DEF Tail4, Keeps
<1>4. o = job.R - 7
  BY <1>1
<1>5. at.o = o
  OBVIOUS
<1> HIDE DEF o
<1>6. AccHolds(acc, F7, o, Progress(o + 10, 3, 0, 1))
  <2>1. <<Read(reg.v0, reg.ptr)>> \o NextRows(3) = RowsOf(F7, o + 6, 4, 0)
    <3>1. o + 6 \in Nat /\ reg.i = (o + 6) + 1
      BY <1>2
    <3>2. <<Read(o + 6, o + 6)>> \o NextRows(3) = RowsOf(F7, o + 6, 4, 0)
      BY <3>1, HeldAndNextRows
    <3>3. QED
      BY <1>2, <3>2
  <2>2. {7} = FreshOf(o, o + 6, 4, 0)
    BY <1>2, FreshSets
  <2>3. o + 6 \in Nat /\ 6 \in Nat /\ o + 10 \in Nat /\ o + 10 = (o + 6) + 4 /\ 4 \in Nat /\ 3 \in Nat
    BY <1>2
  <2>4. AccHolds(reg.acc, F7, o, Progress(o + 6, 4, 0, 1))
    BY <1>2, NoneOfNext
  <2>5. AccHolds(Mac(reg.acc, FreshOf(o, o + 6, 4, 0), RowsOf(F7, o + 6, 4, 0), 6), F7, o, Progress(o + 10, 3, 0, 1))
    BY <1>2, <2>3, <2>4, OneGroupEnds
  <2>6. QED
    BY <2>1, <2>2, <2>5
<1> HIDE DEF acc
<1>7. out' = Outs(F7, 1, Area(o + 4, at.n))
  <2>1. at.o = o + 1 - 1 /\ o + 10 >= o + 4 + 6 /\ 1 \in 1 .. 7 /\ 4 \in 1 .. 7
        /\ o + 10 \in Nat /\ o + 4 \in Nat
    BY <1>2, <1>5
  <2>2. out = Outs(F7, 1, Area(at.o, at.n)) /\ o \in Nat /\ Stored(acc, 1 .. 4)
    BY <1>2, <1>3, <1>5
  <2>3. QED
    BY <1>6, <2>1, <2>2, StoredArea
<1>8. /\ reg' \in [acc : {reg'.acc}, i : Nat, v0 : Nat, ptr : Nat]
      /\ reg'.acc = acc /\ reg'.i = o + 10
  <2>1. reg.i + 3 \in Nat /\ reg.i + 3 = o + 10
    BY <1>2
  <2> DEFINE x == reg.i + 3
  <2>2. reg' = [reg EXCEPT !.acc = acc, !.i = x] /\ x \in Nat /\ x = o + 10
    BY <1>3, <2>1
  <2> HIDE DEF x
  <2>3. reg' \in [acc : {reg'.acc}, i : Nat, v0 : Nat, ptr : Nat] /\ reg'.acc = acc /\ reg'.i = x
    BY <1>2, <2>2
  <2>4. QED
    BY <2>2, <2>3
<1>9. /\ at' \in [n : {at'.n}, phase : {at'.phase}, o : Nat, j : Nat, ch : {at'.ch}]
      /\ at'.phase = "tail3" /\ at'.o = o + 4 /\ at'.n = at.n
  <2>1. o + 4 \in Nat /\ at.j \in Nat
    BY <1>2
  <2>2. AtIs("tail3", at.n, o + 4, at.j)
    BY <1>2, <1>3, <2>1, AtMoves
  <2>3. QED
    BY <2>2 DEF AtIs
<1>10. loaded' \subseteq 0 .. job.R + 5
  <2>1. reg.i .. reg.i + 2 \subseteq 0 .. job.R + 5
    BY <1>1, <1>2, <1>4
  <2>2. QED
    BY <1>2, <1>3, <2>1
<1>11. o + 4 = job.R - 3 /\ o + 10 = job.R + 3 /\ job.R - 7 = o
  BY <1>1, <1>2, <1>4
<1>12. AccHolds(reg'.acc, F7, job.R - 7, Progress(job.R + 3, 3, 0, 1))
  BY <1>6, <1>8, <1>11
<1>13. QED
  BY <1>2, <1>3, <1>7, <1>8, <1>9, <1>10, <1>11, <1>12, SameJob7

LEMMA Tail3Moves ==
  ASSUME job \in Jobs, job.kernel = "fconv2d_7x7", done = FALSE, job' = job, Inv7, Tail3
  PROVE  Inv7'
<1> DEFINE R == job.R
           acc == Mac(reg.acc, {}, NextRows(3), 10)
<1>1. /\ at.phase = "tail3" /\ at.o = R - 3 /\ reg.i = R + 3 /\ R \in Nat /\ R >= 8
      /\ AccHolds(reg.acc, F7, R - 7, Progress(R + 3, 3, 0, 1))
      /\ out = Outs(F7, 1, Area(at.o, at.n)) /\ at.n \in Strips /\ loaded \subseteq 0 .. R + 5
  <2>1. R \in Nat /\ R >= 8
    BY Size7
  <2>2. at.phase = "tail3"
    BY DEF Tail3, At7
  <2>3. QED
    BY <2>1, <2>2 DEF Inv7
<1>2. /\ reg' = [acc |-> reg.acc, i |-> 0, v0 |-> 0, ptr |-> 0] /\ at' = Strip(NextStrip)
      /\ loaded' = loaded \cup (reg.i .. reg.i + 2) /\ Stored(acc, 5 .. 7) /\ done' = (NextStrip >= job.C)
  BY DEF Tail3, Keeps
<1>3. job.C \in Nat \ {0}
  BY Size7
<1> DEFINE o == R - 7
<1>4. o \in Nat /\ R = o + 7
  BY <1>1
<1>5. AccHolds(reg.acc, F7, o, Progress(o + 10, 3, 0, 1)) /\ reg.i = o + 10 /\ at.o = o + 4 /\ job.R = o + 7
  <2>1. R + 3 = o + 10 /\ R - 3 = o + 4
    BY <1>1
  <2>2. QED
    BY <1>1, <1>4, <2>1
<1> HIDE DEF o
<1>6. AccHolds(acc, F7, o, Progress(o + 13, 3, 0, 1))
  <2>1. o + 10 \in Nat /\ 10 \in Nat /\ 3 \in Nat /\ o + 13 \in Nat /\ o + 13 = (o + 10) + 3
    BY <1>4
  <2>2. NextRows(3) = RowsOf(F7, o + 10, 3, 0)
    BY <1>5, <2>1, NextRowsAre
  <2>3. {} = FreshOf(o, o + 10, 3, 0)
    BY <1>4, FreshSets
  <2>4. AccHolds(Mac(reg.acc, FreshOf(o, o + 10, 3, 0), RowsOf(F7, o + 10, 3, 0), 10), F7, o, Progress(o + 13, 3, 0, 1))
    BY <1>4, <1>5, <2>1, OneGroupEnds
  <2>5. QED
    BY <2>2, <2>3, <2>4
<1> HIDE DEF acc
<1>7. out' = Outs(F7, 1, Area(job.R, at.n))
  <2>1. at.o = o + 5 - 1 /\ o + 13 >= o + 7 + 6 /\ 5 \in 1 .. 7 /\ 7 \in 5 .. 7 /\ o + 13 \in Nat
    BY <1>4, <1>5
  <2>2. out = Outs(F7, 1, Area(at.o, at.n)) /\ o \in Nat /\ Stored(acc, 5 .. 7)
    BY <1>1, <1>2, <1>4
  <2>3. o + 7 \in Nat /\ 3 \in Nat /\ 1 \in Nat \ {0}
    BY <1>4
  <2>4. out' = Outs(F7, 1, Area(o + 7, at.n))
    <3>1. StoreReady(F7, acc, 1, 5, 7, o, o + 13, 3, o + 7)
      BY <1>6, <2>1, <2>2, <2>3 DEF StoreReady
    <3>2. QED
      BY <3>1, ReadyStored
  <2>5. QED
    BY <1>5, <2>4
<1>8. /\ NextStrip < job.C => NextStrip \in Strips
      /\ NextStrip \in Nat
      /\ out' = Outs(F7, 1, Area(0, NextStrip))
      /\ NextStrip >= job.C => out' = Outs(F7, 1, (0 .. job.R - 1) \X Strips)
  BY <1>1, <1>3, <1>7, StripStored
<1>9. done' => out' = Result7x7
  <2>1. done' => NextStrip >= job.C
    BY <1>2
  <2>2. Result7x7 = Outs(F7, 1, (0 .. job.R - 1) \X Strips)
    BY Result7
  <2>3. QED
    BY <1>8, <2>1, <2>2
<1>10. ~done' => NextStrip \in Strips
  <2>1. ~done' => ~(NextStrip >= job.C)
    BY <1>2
  <2>2. ~(NextStrip >= job.C) => NextStrip < job.C
    BY <1>3, <1>8
  <2>3. QED
    BY <1>8, <2>1, <2>2
<1>11. reg' \in [acc : {reg'.acc}, i : Nat, v0 : Nat, ptr : Nat] /\ reg'.i = 0
  BY <1>2
<1>12. /\ at' \in [n : {at'.n}, phase : {at'.phase}, o : Nat, j : Nat, ch : {at'.ch}]
       /\ at'.phase = "head4" /\ at'.o = 0 /\ at'.j = 0 /\ at'.n = NextStrip
  BY <1>2 DEF Strip
<1>13. loaded' \subseteq 0 .. job.R + 5
  <2>1. reg.i .. reg.i + 2 \subseteq 0 .. R + 5
    BY <1>1
  <2>2. QED
    BY <1>1, <1>2, <2>1
<1>14. QED
  BY <1>8, <1>9, <1>10, <1>11, <1>12, <1>13, SameJob7

LEMMA Step7 ==
  ASSUME job \in Jobs, job.kernel = "fconv2d_7x7", done = FALSE, job' = job, Inv7, Next7x7
  PROVE  Inv7'
BY Head4Moves, Head3Moves, UnrollMoves, Tail4Moves, Tail3Moves DEF Next7x7
-----------------------------------------------------------------------------
(***************************************************************************)
(* fconv3d: the same, with a group of rows read channel by channel.        *)
(***************************************************************************)
Phase3(p, o, j, ch, i, buf, acc) ==
  \/ p = "head4" /\ o = 0 /\ j = 0 /\ i = 0 /\ AccHolds(acc, F3, 0, Progress(0, 4, ch, job.CH))
  \/ p = "head3" /\ o = 0 /\ j = 0 /\ i = 4 /\ AccHolds(acc, F3, 0, Progress(4, 3, ch, job.CH))
  \/ /\ \/ p = "unroll0" /\ o = 2 * j + 1 /\ j <= LoopEnd /\ (j = LoopEnd => ch = 0)
        \/ p = "unroll1" /\ o = 2 * j + 2 /\ j < LoopEnd
     /\ i = o + 6 /\ buf = ch /\ AccHolds(acc, F3, o, Progress(o + 6, 1, ch, job.CH))
  \/ /\ p = "tail4" /\ o = job.R - 7 /\ i = job.R - 1
     /\ AccHolds(acc, F3, job.R - 7, Progress(job.R - 1, 4, ch, job.CH))
  \/ /\ p = "tail3" /\ o = job.R - 3 /\ i = job.R + 3
     /\ AccHolds(acc, F3, job.R - 7, Progress(job.R + 3, 3, ch, job.CH))

Inv3 ==
  /\ at \in [n : {at.n}, phase : {at.phase}, o : Nat, j : Nat, ch : Nat]
  /\ reg \in [acc : {reg.acc}, i : Nat, buf : Nat]
  /\ ~done =>
       /\ at.n \in Strips /\ out = Outs(F3, job.CH, Area(at.o, at.n)) /\ at.ch < job.CH
       /\ Phase3(at.phase, at.o, at.j, at.ch, reg.i, reg.buf, reg.acc)
  /\ loaded \subseteq 0 .. job.R + 5
  /\ done => out = Result3d

LEMMA Begins3 ==
  ASSUME job \in Jobs, job.kernel = "fconv3d", done = FALSE, Start3d
  PROVE  Inv3
<1>1. /\ at = [n |-> 0, phase |-> "head4", o |-> 0, j |-> 0, ch |-> 0]
      /\ reg = [acc |-> NoSumsYet, i |-> 0, buf |-> 0] /\ out = {} /\ loaded = {}
  BY DEF Start3d, Start, Strip
<1>2. job.C \in Nat \ {0} /\ job.CH \in Nat \ {0}
  BY Size7
<1>3. 0 \in Strips /\ Area(0, 0) = {}
  BY <1>2, FirstStrip
<1>4. Outs(F3, job.CH, {}) = {}
  BY DEF Outs
<1>5. at \in [n : {at.n}, phase : {at.phase}, o : Nat, j : Nat, ch : Nat]
      /\ reg \in [acc : {reg.acc}, i : Nat, buf : Nat]
  BY <1>1
<1>6. at.n = 0 /\ at.o = 0 /\ at.j = 0 /\ reg.i = 0 /\ at.phase = "head4" /\ at.ch = 0
  BY <1>1
<1>7. AccHolds(reg.acc, F3, 0, Progress(0, 4, 0, job.CH))
  BY NothingRead
<1>8. Phase3(at.phase, at.o, at.j, at.ch, reg.i, reg.buf, reg.acc)
  BY <1>6, <1>7 DEF Phase3
<1>9. at.ch < job.CH
  BY <1>2, <1>6
<1>10. QED
  BY <1>1, <1>3, <1>4, <1>5, <1>6, <1>8, <1>9 DEF Inv3

LEMMA SameJob3 ==
  ASSUME job' = job
  PROVE  Inv3' =
    /\ at' \in [n : {at'.n}, phase : {at'.phase}, o : Nat, j : Nat, ch : Nat]
    /\ reg' \in [acc : {reg'.acc}, i : Nat, buf : Nat]
    /\ ~done' =>
         /\ at'.n \in Strips /\ out' = Outs(F3, job.CH, Area(at'.o, at'.n)) /\ at'.ch < job.CH
         /\ Phase3(at'.phase, at'.o, at'.j, at'.ch, reg'.i, reg'.buf, reg'.acc)
    /\ loaded' \subseteq 0 .. job.R + 5
    /\ done' => out' = Result3d
<1>1. Strips' = Strips /\ LoopEnd' = LoopEnd
  BY DEF Strips, LoopEnd
<1>2. ASSUME NEW C, NEW D
      PROVE  (Outs(F3, C, D))' = Outs(F3, C, D)
  BY DEF Outs, OutOf
<1>3. ASSUME NEW o, NEW n
      PROVE  (Area(o, n))' = Area(o, n)
  BY <1>1 DEF Area
<1>4. Result3d' = Result3d
  BY <1>1 DEF Result3d, Row7
<1>5. ASSUME NEW p, NEW o, NEW j, NEW ch, NEW i, NEW buf, NEW acc
      PROVE  (Phase3(p, o, j, ch, i, buf, acc))' = Phase3(p, o, j, ch, i, buf, acc)
  BY <1>1 DEF Phase3
<1>6. QED
  BY <1>1, <1>2, <1>3, <1>4, <1>5 DEF Inv3

\* The invariant after a step, from its parts.
AtIs3(p, n, o, j, ch) ==
  /\ at' \in [n : {at'.n}, phase : {at'.phase}, o : Nat, j : Nat, ch : Nat]
  /\ at'.phase = p /\ at'.n = n /\ at'.o = o /\ at'.j = j /\ at'.ch = ch
RegIs3(i, buf, acc) ==
  /\ reg' \in [acc : {reg'.acc}, i : Nat, buf : Nat]
  /\ reg'.acc = acc /\ reg'.i = i /\ reg'.buf = buf

LEMMA Stays3 ==
  ASSUME job' = job, NEW p, NEW n \in Strips, NEW o, NEW j, NEW ch, ch < job.CH, NEW i, NEW buf, NEW acc,
         AtIs3(p, n, o, j, ch), RegIs3(i, buf, acc), Phase3(p, o, j, ch, i, buf, acc),
         out' = Outs(F3, job.CH, Area(o, n)), loaded' \subseteq 0 .. job.R + 5, done' = FALSE
  PROVE  Inv3'
BY SameJob3 DEF AtIs3, RegIs3

AtMoves3(p, o, j, ch) ==
  /\ at \in [n : {at.n}, phase : {at.phase}, o : Nat, j : Nat, ch : Nat]
  /\ o \in Nat /\ j \in Nat /\ ch \in Nat
  /\ \/ at' = [at EXCEPT !.ch = ch] /\ p = at.phase /\ o = at.o /\ j = at.j
     \/ at' = [at EXCEPT !.ch = ch, !.phase = p] /\ o = at.o /\ j = at.j
     \/ at' = [at EXCEPT !.ch = ch, !.phase = p, !.o = o] /\ j = at.j
     \/ at' = [at EXCEPT !.ch = ch, !.phase = p, !.o = o, !.j = j]

LEMMA AtMoved3 ==
  ASSUME NEW p, NEW o, NEW j, NEW ch, AtMoves3(p, o, j, ch)
  PROVE  AtIs3(p, at.n, o, j, ch)
BY DEF AtIs3, AtMoves3

LEMMA Rows3Are ==
  ASSUME reg.i \in Nat, at.ch \in Nat, NEW count \in Nat
  PROVE  Rows3(count, at.ch) = RowsOf(F3, reg.i, count, at.ch)
<1>1. \A s \in 1 .. count : F3[<<reg.i + s - 1, at.ch>>] = Read3(reg.i + s - 1, at.ch, at.ch)
  <2>1. ASSUME NEW s \in 1 .. count
        PROVE  F3[<<reg.i + s - 1, at.ch>>] = Read3(reg.i + s - 1, at.ch, at.ch)
    <3> DEFINE x == reg.i + s - 1
    <3>1. x \in Nat
      OBVIOUS
    <3> HIDE DEF x
    <3>2. F3[<<x, at.ch>>] = Read3(x, at.ch, at.ch)
      BY <3>1 DEF F3
    <3>3. QED
      BY <3>2 DEF x
  <2>2. QED
    BY <2>1
<1>2. QED
  BY <1>1 DEF Rows3, RowsOf

\* The group at m of rows of this channel is to be added, with the registers ks
\* started by the first channel.
GroupReady(o, shift, m, n, ks) ==
  /\ o \in Nat /\ shift \in Nat /\ m \in Nat /\ n \in Nat /\ m = o + shift /\ reg.i = m
  /\ job.CH \in Nat \ {0} /\ at.ch \in 0 .. job.CH - 1 /\ ks = FreshOf(o, m, n, 0)
  /\ AccHolds(reg.acc, F3, o, Progress(m, n, at.ch, job.CH))

GroupAdded(acc, o, m, n) ==
  /\ ~LastChannel => /\ AccHolds(acc, F3, o, Progress(m, n, at.ch + 1, job.CH))
                     /\ at.ch + 1 \in Nat /\ at.ch + 1 < job.CH
  /\ LastChannel => \A k \in Nat : AccHolds(acc, F3, o, Progress(m + n, k, 0, job.CH))

LEMMA GroupOf3 ==
  ASSUME NEW o, NEW shift, NEW m, NEW n, NEW ks, GroupReady(o, shift, m, n, ks)
  PROVE  GroupAdded(Mac(reg.acc, Fresh(ks), Rows3(n, at.ch), shift), o, m, n)
<1> DEFINE CH == job.CH
           c == at.ch
           acc == Mac(reg.acc, Fresh(ks), Rows3(n, c), shift)
<1>1. /\ o \in Nat /\ shift \in Nat /\ m \in Nat /\ n \in Nat /\ m = o + shift /\ reg.i = m
      /\ CH \in Nat \ {0} /\ c \in 0 .. CH - 1 /\ ks = FreshOf(o, m, n, 0)
      /\ AccHolds(reg.acc, F3, o, Progress(m, n, c, CH))
  BY DEF GroupReady
<1>2. c \in Nat
  BY <1>1
<1>3. Rows3(n, c) = RowsOf(F3, m, n, c)
  BY <1>1, <1>2, Rows3Are
<1>4. Fresh(ks) = FreshOf(o, m, n, c)
  <2>1. CASE c = 0
    BY <1>1, <2>1 DEF Fresh
  <2>2. CASE c # 0
    <3>1. FreshOf(o, m, n, c) = {}
      BY <1>1, <1>2, <2>2, FreshSets
    <3>2. QED
      BY <2>2, <3>1 DEF Fresh
  <2>3. QED
    BY <2>1, <2>2
<1>5. Distinct(F3, CH)
  BY <1>1, NamesDistinct
<1>6. LastChannel <=> c + 1 = CH
  BY <1>1 DEF LastChannel
<1> HIDE DEF CH, c
<1>7. AccHolds(Mac(reg.acc, FreshOf(o, m, n, c), RowsOf(F3, m, n, c), shift), F3, o, Progress(m, n, c + 1, CH))
  BY <1>1, <1>5, MacGroup
<1>8. AccHolds(acc, F3, o, Progress(m, n, c + 1, CH))
  BY <1>3, <1>4, <1>7
<1> HIDE DEF acc
<1>9. ASSUME ~LastChannel
      PROVE  AccHolds(acc, F3, o, Progress(m, n, c + 1, CH)) /\ c + 1 \in Nat /\ c + 1 < CH
  BY <1>1, <1>6, <1>8, <1>9
<1>10. ASSUME LastChannel, NEW k \in Nat
       PROVE  AccHolds(acc, F3, o, Progress(m + n, k, 0, CH))
  <2>1. Progress(m, n, CH, CH) = Progress(m + n, k, 0, CH)
    BY <1>1, GroupDone
  <2>2. QED
    BY <1>6, <1>8, <1>10, <2>1
<1>11. QED
  BY <1>9, <1>10 DEF GroupAdded, acc, c, CH

LEMMA Head4Channels ==
  ASSUME job \in Jobs, job.kernel = "fconv3d", done = FALSE, job' = job, Inv3, Head4Channel
  PROVE  Inv3'
<1> DEFINE acc == Mac(reg.acc, Fresh(1 .. 4), Rows3(4, at.ch), 0)
           c == at.ch
<1>1. at.phase = "head4"
  BY DEF Head4Channel, At3
<1>2. /\ at.n \in Strips /\ out = Outs(F3, job.CH, Area(at.o, at.n)) /\ c < job.CH /\ c \in Nat
      /\ Phase3(at.phase, at.o, at.j, c, reg.i, reg.buf, reg.acc)
      /\ at \in [n : {at.n}, phase : {at.phase}, o : Nat, j : Nat, ch : Nat]
      /\ reg \in [acc : {reg.acc}, i : Nat, buf : Nat] /\ loaded \subseteq 0 .. job.R + 5
  BY DEF Inv3
<1>3. at.o = 0 /\ at.j = 0 /\ reg.i = 0 /\ AccHolds(reg.acc, F3, 0, Progress(0, 4, c, job.CH))
  BY <1>1, <1>2 DEF Phase3
<1>4. job.R \in Nat /\ job.R >= 8 /\ job.CH \in Nat \ {0}
  BY Size7
<1>5. GroupAdded(acc, 0, 0, 4)
  <2>1. 1 .. 4 = FreshOf(0, 0, 4, 0)
    BY FreshSets
  <2>2. c \in 0 .. job.CH - 1 /\ 0 = 0 + 0
    BY <1>2, <1>4
  <2>3. GroupReady(0, 0, 0, 4, 1 .. 4)
    BY <1>3, <1>4, <2>1, <2>2 DEF GroupReady
  <2>4. QED
    BY <2>3, GroupOf3
<1>6. /\ reg' = [reg EXCEPT !.acc = acc, !.i = Bumped(4)] /\ loaded' = loaded \cup (0 .. 3)
      /\ NextPhase("head3", 0) /\ out' = out /\ done' = FALSE
  BY <1>3 DEF Head4Channel, Keeps
<1> HIDE DEF acc
<1>7. loaded' \subseteq 0 .. job.R + 5
  BY <1>2, <1>4, <1>6
<1>8. CASE LastChannel
  <2>1. reg' = [reg EXCEPT !.acc = acc, !.i = 4]
    BY <1>3, <1>6, <1>8 DEF Bumped
  <2>2. reg' \in [acc : {reg'.acc}, i : Nat, buf : Nat] /\ reg'.acc = acc /\ reg'.i = 4
    BY <1>2, <2>1
  <2>3. at' = [at EXCEPT !.ch = 0, !.phase = "head3", !.o = 0]
    BY <1>3, <1>6, <1>8 DEF NextPhase
  <2>4. AtIs3("head3", at.n, 0, 0, 0) /\ RegIs3(4, reg'.buf, acc)
    <3>1. AtMoves3("head3", 0, 0, 0)
      BY <1>2, <1>3, <2>3 DEF AtMoves3
    <3>2. AtIs3("head3", at.n, 0, 0, 0)
      BY <3>1, AtMoved3
    <3>3. RegIs3(4, reg'.buf, acc)
      BY <2>2 DEF RegIs3
    <3>4. QED
      BY <3>2, <3>3
  <2>5. AccHolds(acc, F3, 0, Progress(4, 3, 0, job.CH))
    <3>1. 0 + 4 = 4 /\ 3 \in Nat
      OBVIOUS
    <3>2. \A k \in Nat : AccHolds(acc, F3, 0, Progress(0 + 4, k, 0, job.CH))
      BY <1>5, <1>8 DEF GroupAdded
    <3>3. QED
      BY <3>1, <3>2
  <2>6. Phase3("head3", 0, 0, 0, 4, reg'.buf, acc)
    BY <2>5 DEF Phase3
  <2>7. 0 < job.CH /\ out' = Outs(F3, job.CH, Area(0, at.n))
    BY <1>2, <1>3, <1>4, <1>6
  <2>8. QED
    BY <1>2, <1>6, <1>7, <2>4, <2>6, <2>7, Stays3
<1>9. CASE ~LastChannel
  <2>1. reg' = [reg EXCEPT !.acc = acc, !.i = 0]
    BY <1>3, <1>6, <1>9 DEF Bumped
  <2>2. reg' \in [acc : {reg'.acc}, i : Nat, buf : Nat] /\ reg'.acc = acc /\ reg'.i = 0
    BY <1>2, <2>1
  <2>3. at' = [at EXCEPT !.ch = c + 1]
    BY <1>6, <1>9 DEF NextPhase
  <2>4. AccHolds(acc, F3, 0, Progress(0, 4, c + 1, job.CH)) /\ c + 1 \in Nat /\ c + 1 < job.CH
    BY <1>5, <1>9 DEF GroupAdded
  <2>5. AtIs3("head4", at.n, 0, 0, c + 1) /\ RegIs3(0, reg'.buf, acc)
    <3>1. AtMoves3("head4", 0, 0, c + 1)
      BY <1>1, <1>2, <1>3, <2>3, <2>4 DEF AtMoves3
    <3>2. AtIs3("head4", at.n, 0, 0, c + 1)
      BY <3>1, AtMoved3
    <3>3. RegIs3(0, reg'.buf, acc)
      BY <2>2 DEF RegIs3
    <3>4. QED
      BY <3>2, <3>3
  <2>6. Phase3("head4", 0, 0, c + 1, 0, reg'.buf, acc)
    BY <2>4 DEF Phase3
  <2>7. out' = Outs(F3, job.CH, Area(0, at.n))
    BY <1>2, <1>3, <1>6
  <2>8. QED
    BY <1>2, <1>6, <1>7, <2>4, <2>5, <2>6, <2>7, Stays3
<1>10. QED
  BY <1>8, <1>9

LEMMA Head3Channels ==
  ASSUME job \in Jobs, job.kernel = "fconv3d", done = FALSE, job' = job, Inv3, Head3Channel
  PROVE  Inv3'
<1> DEFINE acc == Mac(reg.acc, Fresh(5 .. 7), Rows3(3, at.ch), 4)
           c == at.ch
<1>1. at.phase = "head3"
  BY DEF Head3Channel, At3
<1>2. /\ at.n \in Strips /\ out = Outs(F3, job.CH, Area(at.o, at.n)) /\ c < job.CH /\ c \in Nat
      /\ Phase3(at.phase, at.o, at.j, c, reg.i, reg.buf, reg.acc)
      /\ at \in [n : {at.n}, phase : {at.phase}, o : Nat, j : Nat, ch : Nat]
      /\ reg \in [acc : {reg.acc}, i : Nat, buf : Nat] /\ loaded \subseteq 0 .. job.R + 5
  BY DEF Inv3
<1>3. at.o = 0 /\ at.j = 0 /\ reg.i = 4 /\ AccHolds(reg.acc, F3, 0, Progress(4, 3, c, job.CH))
  BY <1>1, <1>2 DEF Phase3
<1>4. job.R \in Nat /\ job.R >= 8 /\ job.CH \in Nat \ {0} /\ LoopEnd \in Nat
  BY Size7
<1>5. GroupAdded(acc, 0, 4, 3)
  <2>1. 5 .. 7 = FreshOf(0, 4, 3, 0)
    <3>1. FreshOf(0, 0 + 4, 3, 0) = 5 .. 7
      BY FreshSets
    <3>2. 0 + 4 = 4
      OBVIOUS
    <3>3. QED
      BY <3>1, <3>2
  <2>2. c \in 0 .. job.CH - 1 /\ 4 = 0 + 4
    BY <1>2, <1>4
  <2>3. GroupReady(0, 4, 4, 3, 5 .. 7)
    BY <1>3, <1>4, <2>1, <2>2 DEF GroupReady
  <2>4. QED
    BY <2>3, GroupOf3
<1>6. /\ reg' = [acc |-> IF LastChannel THEN MovedUp(acc) ELSE acc, i |-> Bumped(3),
                 buf |-> IF LastChannel THEN 0 ELSE reg.buf]
      /\ IF LastChannel THEN Stored(acc, {1}) ELSE out' = out
      /\ loaded' = loaded \cup (reg.i .. reg.i + 2)
      /\ NextPhase("unroll0", 1) /\ done' = FALSE
  BY DEF Head3Channel, Keeps
<1> HIDE DEF acc
<1>7. loaded' \subseteq 0 .. job.R + 5
  <2>1. reg.i .. reg.i + 2 \subseteq 0 .. job.R + 5
    BY <1>3, <1>4
  <2>2. QED
    BY <1>2, <1>6, <2>1
<1>8. CASE LastChannel
  <2>1. reg' = [acc |-> MovedUp(acc), i |-> 7, buf |-> 0]
    <3>1. Bumped(3) = 7
      BY <1>3, <1>8 DEF Bumped
    <3>2. QED
      BY <1>6, <1>8, <3>1
  <2>2. reg' \in [acc : {reg'.acc}, i : Nat, buf : Nat]
        /\ reg'.acc = MovedUp(acc) /\ reg'.i = 7 /\ reg'.buf = 0
    BY <2>1
  <2>3. at' = [at EXCEPT !.ch = 0, !.phase = "unroll0", !.o = 1]
    BY <1>3, <1>6, <1>8 DEF NextPhase
  <2>4. AtIs3("unroll0", at.n, 1, 0, 0) /\ RegIs3(7, 0, MovedUp(acc))
    <3>1. AtMoves3("unroll0", 1, 0, 0)
      BY <1>2, <1>3, <2>3 DEF AtMoves3
    <3>2. AtIs3("unroll0", at.n, 1, 0, 0)
      BY <3>1, AtMoved3
    <3>3. RegIs3(7, 0, MovedUp(acc))
      BY <2>2 DEF RegIs3
    <3>4. QED
      BY <3>2, <3>3
  <2>5. AccHolds(acc, F3, 0, Progress(7, 1, 0, job.CH))
    <3>1. 4 + 3 = 7 /\ 1 \in Nat
      OBVIOUS
    <3>2. \A k \in Nat : AccHolds(acc, F3, 0, Progress(4 + 3, k, 0, job.CH))
      BY <1>5, <1>8 DEF GroupAdded
    <3>3. QED
      BY <3>1, <3>2
  <2>6. AccHolds(MovedUp(acc), F3, 1, Progress(7, 1, 0, job.CH))
    <3>1. 0 + 7 = 7 /\ 0 + 1 = 1
      OBVIOUS
    <3>2. AccHolds(MovedUp(acc), F3, 0 + 1, Progress(0 + 7, 1, 0, job.CH))
      BY <1>4, <2>5, <3>1, GroupMovesUp
    <3>3. QED
      BY <3>1, <3>2
  <2>7. Phase3("unroll0", 1, 0, 0, 7, 0, MovedUp(acc))
    <3>1. 1 = 2 * 0 + 1 /\ 0 <= LoopEnd /\ 7 = 1 + 6
      BY <1>4
    <3>2. QED
      BY <2>6, <3>1 DEF Phase3
  <2>8. out' = Outs(F3, job.CH, Area(1, at.n))
    <3>1. 1 .. 1 = {1} /\ at.o = 0 + 1 - 1 /\ 7 >= 0 + 1 + 6 /\ 0 + 1 = 1 /\ 1 \in 1 .. 7 /\ 1 \in 1 .. 1
      BY <1>3
    <3>2. StoreReady(F3, acc, job.CH, 1, 1, 0, 7, 1, 1)
      BY <1>2, <1>4, <1>6, <1>8, <2>5, <3>1 DEF StoreReady
    <3>3. QED
      BY <3>2, ReadyStored
  <2>9. 0 < job.CH
    BY <1>4
  <2>10. QED
    BY <1>2, <1>6, <1>7, <2>4, <2>7, <2>8, <2>9, Stays3
<1>9. CASE ~LastChannel
  <2>1. reg' = [acc |-> acc, i |-> 4, buf |-> reg.buf]
    BY <1>3, <1>6, <1>9 DEF Bumped
  <2>2. reg' \in [acc : {reg'.acc}, i : Nat, buf : Nat] /\ reg'.acc = acc /\ reg'.i = 4
    BY <1>2, <2>1
  <2>3. at' = [at EXCEPT !.ch = c + 1]
    BY <1>6, <1>9 DEF NextPhase
  <2>4. AccHolds(acc, F3, 0, Progress(4, 3, c + 1, job.CH)) /\ c + 1 \in Nat /\ c + 1 < job.CH
    BY <1>5, <1>9 DEF GroupAdded
  <2>5. AtIs3("head3", at.n, 0, 0, c + 1) /\ RegIs3(4, reg'.buf, acc)
    <3>1. AtMoves3("head3", 0, 0, c + 1)
      BY <1>1, <1>2, <1>3, <2>3, <2>4 DEF AtMoves3
    <3>2. AtIs3("head3", at.n, 0, 0, c + 1)
      BY <3>1, AtMoved3
    <3>3. RegIs3(4, reg'.buf, acc)
      BY <2>2 DEF RegIs3
    <3>4. QED
      BY <3>2, <3>3
  <2>6. Phase3("head3", 0, 0, c + 1, 4, reg'.buf, acc)
    BY <2>4 DEF Phase3
  <2>7. out' = Outs(F3, job.CH, Area(0, at.n))
    BY <1>2, <1>3, <1>6, <1>9
  <2>8. QED
    BY <1>2, <1>6, <1>7, <2>4, <2>5, <2>6, <2>7, Stays3
<1>10. QED
  BY <1>8, <1>9

LEMMA UnrollChannels ==
  ASSUME job \in Jobs, job.kernel = "fconv3d", done = FALSE, job' = job, Inv3,
         Unroll0Channel \/ Unroll1Channel
  PROVE  Inv3'
<1> DEFINE acc == Mac(reg.acc, Fresh({7}), Rows3(1, reg.buf), 6)
           c == at.ch
           o == at.o
           j == at.j
<1>1. at.phase \in {"unroll0", "unroll1"} /\ RegimeChannel
  BY DEF Unroll0Channel, Unroll1Channel, At3
<1>2. /\ at.n \in Strips /\ out = Outs(F3, job.CH, Area(o, at.n)) /\ c < job.CH
      /\ c \in Nat /\ o \in Nat /\ j \in Nat
      /\ Phase3(at.phase, o, j, c, reg.i, reg.buf, reg.acc)
      /\ at \in [n : {at.n}, phase : {at.phase}, o : Nat, j : Nat, ch : Nat]
      /\ reg \in [acc : {reg.acc}, i : Nat, buf : Nat] /\ loaded \subseteq 0 .. job.R + 5
  BY DEF Inv3
<1>3. /\ reg.i = o + 6 /\ reg.buf = c /\ AccHolds(reg.acc, F3, o, Progress(o + 6, 1, c, job.CH))
      /\ at.phase = "unroll0" => o = 2 * j + 1
      /\ at.phase = "unroll1" => o = 2 * j + 2 /\ j < LoopEnd
  BY <1>1, <1>2 DEF Phase3
<1>4. job.R \in Nat /\ job.R = 2 * LoopEnd + 8 /\ job.CH \in Nat \ {0} /\ LoopEnd \in Nat
  BY Size7
<1>5. j < LoopEnd
  BY <1>3 DEF Unroll0Channel, Unroll1Channel, At3
<1>6. at.o = o /\ at.j = j /\ at.ch = c
  OBVIOUS
<1>7. /\ reg' = [acc |-> IF LastChannel THEN MovedUp(acc) ELSE acc, i |-> Bumped(1),
                 buf |-> IF LastChannel THEN 0 ELSE c + 1]
      /\ IF LastChannel THEN Stored(acc, {1}) ELSE out' = out
      /\ loaded' = loaded \cup {reg.i} /\ done' = FALSE
  BY <1>1 DEF RegimeChannel, Keeps
<1>8. /\ ~LastChannel => at' = [at EXCEPT !.ch = c + 1]
      /\ LastChannel /\ at.phase = "unroll0" => at' = [at EXCEPT !.ch = 0, !.phase = "unroll1", !.o = o + 1]
      /\ LastChannel /\ at.phase = "unroll1" =>
           at' = [at EXCEPT !.ch = 0, !.phase = "unroll0", !.o = o + 1, !.j = j + 1]
  BY DEF Unroll0Channel, Unroll1Channel, At3, NextPhase
<1>9. GroupAdded(acc, o, o + 6, 1)
  <2>1. {7} = FreshOf(o, o + 6, 1, 0)
    BY <1>2, FreshSets
  <2>2. c \in 0 .. job.CH - 1 /\ o + 6 \in Nat /\ 6 \in Nat /\ 1 \in Nat
    BY <1>2, <1>4
  <2>3. GroupReady(o, 6, o + 6, 1, {7})
    BY <1>2, <1>3, <1>4, <2>1, <2>2 DEF GroupReady
  <2>4. Rows3(1, reg.buf) = Rows3(1, at.ch)
    BY <1>3
  <2>5. QED
    BY <2>3, <2>4, GroupOf3
<1> HIDE DEF acc, c, o, j
<1>10. loaded' \subseteq 0 .. job.R + 5
  <2>1. reg.i \in 0 .. job.R + 5
    BY <1>1, <1>2, <1>3, <1>4, <1>5
  <2>2. QED
    BY <1>2, <1>7, <2>1
<1>11. CASE LastChannel
  <2>1. reg' = [acc |-> MovedUp(acc), i |-> o + 7, buf |-> 0]
    <3>1. Bumped(1) = o + 7
      BY <1>2, <1>3, <1>11 DEF Bumped
    <3>2. QED
      BY <1>7, <1>11, <3>1
  <2>2. RegIs3(o + 7, 0, MovedUp(acc))
    <3> DEFINE x == o + 7
    <3>1. x \in Nat /\ reg' = [acc |-> MovedUp(acc), i |-> x, buf |-> 0]
      BY <1>2, <2>1
    <3> HIDE DEF x
    <3>2. RegIs3(x, 0, MovedUp(acc))
      BY <3>1 DEF RegIs3
    <3>3. QED
      BY <3>2 DEF x
  <2>3. AccHolds(acc, F3, o, Progress(o + 7, 1, 0, job.CH))
    <3>1. (o + 6) + 1 = o + 7 /\ 1 \in Nat
      BY <1>2
    <3>2. \A k \in Nat : AccHolds(acc, F3, o, Progress((o + 6) + 1, k, 0, job.CH))
      BY <1>9, <1>11 DEF GroupAdded
    <3>3. QED
      BY <3>1, <3>2
  <2>4. AccHolds(MovedUp(acc), F3, o + 1, Progress(o + 7, 1, 0, job.CH))
    BY <1>2, <1>4, <2>3, GroupMovesUp
  <2>5. out' = Outs(F3, job.CH, Area(o + 1, at.n))
    <3>1. 1 .. 1 = {1} /\ at.o = o + 1 - 1 /\ o + 7 >= o + 1 + 6 /\ 1 \in 1 .. 7 /\ 1 \in 1 .. 1
          /\ o + 7 \in Nat /\ o + 1 \in Nat
      BY <1>2, <1>6
    <3>2. out = Outs(F3, job.CH, Area(at.o, at.n)) /\ Stored(acc, 1 .. 1)
      BY <1>2, <1>6, <1>7, <1>11, <3>1
    <3>3. StoreReady(F3, acc, job.CH, 1, 1, o, o + 7, 1, o + 1)
      BY <1>2, <1>4, <2>3, <3>1, <3>2 DEF StoreReady
    <3>4. QED
      BY <3>3, ReadyStored
  <2>6. 0 < job.CH /\ o + 1 \in Nat /\ o + 7 = (o + 1) + 6 /\ (o + 1) + 6 = o + 7
    BY <1>2, <1>4
  <2>7. CASE at.phase = "unroll0"
    <3>1. at' = [at EXCEPT !.ch = 0, !.phase = "unroll1", !.o = o + 1] /\ j = at.j
      BY <1>6, <1>8, <1>11, <2>7
    <3>2. AtMoves3("unroll1", o + 1, j, 0)
      BY <1>2, <2>6, <3>1 DEF AtMoves3
    <3>3. AtIs3("unroll1", at.n, o + 1, j, 0)
      BY <3>2, AtMoved3
    <3>4. o + 1 = 2 * j + 2
      BY <1>2, <1>3, <2>7
    <3>5. Phase3("unroll1", o + 1, j, 0, o + 7, 0, MovedUp(acc))
      BY <1>5, <2>4, <2>6, <3>4 DEF Phase3
    <3>6. QED
      BY <1>2, <1>7, <1>10, <2>2, <2>5, <2>6, <3>3, <3>5, Stays3
  <2>8. CASE at.phase = "unroll1"
    <3>1. at' = [at EXCEPT !.ch = 0, !.phase = "unroll0", !.o = o + 1, !.j = j + 1] /\ j + 1 \in Nat
      BY <1>2, <1>8, <1>11, <2>8
    <3>2. AtMoves3("unroll0", o + 1, j + 1, 0)
      BY <1>2, <2>6, <3>1 DEF AtMoves3
    <3>3. AtIs3("unroll0", at.n, o + 1, j + 1, 0)
      BY <3>2, AtMoved3
    <3>4. o + 1 = 2 * (j + 1) + 1 /\ j + 1 <= LoopEnd
      BY <1>2, <1>3, <1>4, <1>5, <2>8
    <3>5. Phase3("unroll0", o + 1, j + 1, 0, o + 7, 0, MovedUp(acc))
      BY <2>4, <2>6, <3>4 DEF Phase3
    <3>6. QED
      BY <1>2, <1>7, <1>10, <2>2, <2>5, <2>6, <3>3, <3>5, Stays3
  <2>9. QED
    BY <1>1, <2>7, <2>8
<1>12. CASE ~LastChannel
  <2>1. reg' = [acc |-> acc, i |-> reg.i, buf |-> c + 1]
    BY <1>7, <1>12 DEF Bumped
  <2>2. AccHolds(acc, F3, o, Progress(o + 6, 1, c + 1, job.CH)) /\ c + 1 \in Nat /\ c + 1 < job.CH
    BY <1>6, <1>9, <1>12 DEF GroupAdded
  <2>3. RegIs3(reg.i, c + 1, acc)
    <3> DEFINE x == c + 1
    <3>1. x \in Nat /\ reg.i \in Nat /\ reg' = [acc |-> acc, i |-> reg.i, buf |-> x]
      BY <1>2, <2>1, <2>2
    <3> HIDE DEF x
    <3>2. RegIs3(reg.i, x, acc)
      BY <3>1 DEF RegIs3
    <3>3. QED
      BY <3>2 DEF x
  <2>4. AtIs3(at.phase, at.n, o, j, c + 1)
    <3>1. at' = [at EXCEPT !.ch = c + 1] /\ o = at.o /\ j = at.j
      BY <1>6, <1>8, <1>12
    <3>2. AtMoves3(at.phase, o, j, c + 1)
      BY <1>2, <2>2, <3>1 DEF AtMoves3
    <3>3. QED
      BY <3>2, AtMoved3
  <2>5. Phase3(at.phase, o, j, c + 1, reg.i, c + 1, acc)
    <3>1. ~(j = LoopEnd) /\ j <= LoopEnd
      BY <1>2, <1>4, <1>5
    <3>2. CASE at.phase = "unroll0"
      BY <1>3, <2>2, <3>1, <3>2 DEF Phase3
    <3>3. CASE at.phase = "unroll1"
      BY <1>3, <2>2, <3>3 DEF Phase3
    <3>4. QED
      BY <1>1, <3>2, <3>3
  <2>6. out' = Outs(F3, job.CH, Area(o, at.n))
    BY <1>2, <1>7, <1>12
  <2>7. QED
    BY <1>2, <1>7, <1>10, <2>2, <2>3, <2>4, <2>5, <2>6, Stays3
<1>13. QED
  BY <1>11, <1>12

LEMMA Tail4Channels ==
  ASSUME job \in Jobs, job.kernel = "fconv3d", done = FALSE, job' = job, Inv3, Tail4Channel
  PROVE  Inv3'
<1> DEFINE acc == Mac(reg.acc, Fresh({7}), Rows3(4, at.ch), 6)
           c == at.ch
           j == at.j
           o == job.R - 7
<1>1. (at.phase = "unroll0" /\ at.j >= LoopEnd) \/ at.phase = "tail4"
  BY DEF Tail4Channel, At3
<1>2. /\ at.n \in Strips /\ out = Outs(F3, job.CH, Area(at.o, at.n)) /\ c < job.CH
      /\ c \in Nat /\ j \in Nat
      /\ Phase3(at.phase, at.o, j, c, reg.i, reg.buf, reg.acc)
      /\ at \in [n : {at.n}, phase : {at.phase}, o : Nat, j : Nat, ch : Nat]
      /\ reg \in [acc : {reg.acc}, i : Nat, buf : Nat] /\ loaded \subseteq 0 .. job.R + 5
  BY DEF Inv3
<1>3. job.R \in Nat /\ job.R = 2 * LoopEnd + 8 /\ job.CH \in Nat \ {0} /\ LoopEnd \in Nat
  BY Size7
<1>4. o \in Nat /\ job.R = o + 7 /\ job.R - 1 = o + 6 /\ job.R + 3 = o + 10 /\ job.R - 3 = o + 4
      /\ job.R - 7 = o
  BY <1>3
<1> HIDE DEF o
<1>5. at.o = o /\ reg.i = o + 6 /\ AccHolds(reg.acc, F3, o, Progress(o + 6, 4, c, job.CH))
  <2>1. CASE at.phase = "unroll0" /\ at.j >= LoopEnd
    <3>1. at.o = 2 * j + 1 /\ j <= LoopEnd /\ (j = LoopEnd => c = 0) /\ reg.i = at.o + 6
          /\ AccHolds(reg.acc, F3, at.o, Progress(at.o + 6, 1, c, job.CH))
      BY <1>2, <2>1 DEF Phase3
    <3>2. j = LoopEnd /\ at.o = o
      BY <1>2, <1>3, <1>4, <2>1, <3>1
    <3>3. Progress(o + 6, 1, 0, job.CH) = Progress(o + 6, 4, 0, job.CH)
      BY NoneOfNext
    <3>4. QED
      BY <3>1, <3>2, <3>3
  <2>2. CASE at.phase = "tail4"
    <3>1. at.o = job.R - 7 /\ reg.i = job.R - 1
          /\ AccHolds(reg.acc, F3, job.R - 7, Progress(job.R - 1, 4, c, job.CH))
      BY <1>2, <2>2 DEF Phase3
    <3>2. QED
      BY <1>4, <3>1
  <2>3. QED
    BY <1>1, <2>1, <2>2
<1>6. at.ch = c /\ at.j = j
  OBVIOUS
<1>7. /\ reg' = [reg EXCEPT !.acc = acc, !.i = Bumped(4)]
      /\ IF LastChannel THEN Stored(acc, 1 .. 4) ELSE out' = out
      /\ loaded' = loaded \cup (reg.i .. reg.i + 3) /\ done' = FALSE
      /\ LastChannel => at' = [at EXCEPT !.ch = 0, !.phase = "tail3", !.o = at.o + 4]
      /\ ~LastChannel => at' = [at EXCEPT !.ch = c + 1, !.phase = "tail4"]
  BY DEF Tail4Channel, Keeps
<1>8. GroupAdded(acc, o, o + 6, 4)
  <2>1. {7} = FreshOf(o, o + 6, 4, 0)
    BY <1>4, FreshSets
  <2>2. c \in 0 .. job.CH - 1 /\ o + 6 \in Nat /\ 6 \in Nat /\ 4 \in Nat
    BY <1>2, <1>3, <1>4
  <2>3. GroupReady(o, 6, o + 6, 4, {7})
    BY <1>3, <1>4, <1>5, <2>1, <2>2 DEF GroupReady
  <2>4. QED
    BY <2>3, GroupOf3
<1> HIDE DEF acc, c, j
<1>9. loaded' \subseteq 0 .. job.R + 5
  <2>1. reg.i .. reg.i + 3 \subseteq 0 .. job.R + 5
    BY <1>4, <1>5
  <2>2. QED
    BY <1>2, <1>7, <2>1
<1>10. CASE LastChannel
  <2>1. RegIs3(o + 10, reg.buf, acc)
    <3> DEFINE x == o + 10
    <3>1. x \in Nat /\ Bumped(4) = x
      BY <1>4, <1>5, <1>10 DEF Bumped
    <3> HIDE DEF x
    <3>2. reg' = [reg EXCEPT !.acc = acc, !.i = x]
      BY <1>7, <3>1
    <3>3. RegIs3(x, reg.buf, acc)
      BY <1>2, <3>1, <3>2 DEF RegIs3
    <3>4. QED
      BY <3>3 DEF x
  <2>2. AtIs3("tail3", at.n, o + 4, j, 0)
    <3>1. at' = [at EXCEPT !.ch = 0, !.phase = "tail3", !.o = o + 4] /\ j = at.j /\ o + 4 \in Nat
      BY <1>4, <1>5, <1>6, <1>7, <1>10
    <3>2. AtMoves3("tail3", o + 4, j, 0)
      BY <1>2, <3>1 DEF AtMoves3
    <3>3. QED
      BY <3>2, AtMoved3
  <2>3. AccHolds(acc, F3, o, Progress(o + 10, 3, 0, job.CH))
    <3>1. (o + 6) + 4 = o + 10 /\ 3 \in Nat
      BY <1>4
    <3>2. \A k \in Nat : AccHolds(acc, F3, o, Progress((o + 6) + 4, k, 0, job.CH))
      BY <1>8, <1>10 DEF GroupAdded
    <3>3. QED
      BY <3>1, <3>2
  <2>4. Phase3("tail3", o + 4, j, 0, o + 10, reg.buf, acc)
    <3>1. o + 4 = job.R - 3 /\ o + 10 = job.R + 3
      BY <1>4
    <3>2. AccHolds(acc, F3, job.R - 7, Progress(job.R + 3, 3, 0, job.CH))
      BY <1>4, <2>3
    <3>3. QED
      BY <3>1, <3>2 DEF Phase3
  <2>5. out' = Outs(F3, job.CH, Area(o + 4, at.n))
    <3>1. at.o = o + 1 - 1 /\ o + 10 >= o + 4 + 6 /\ 1 \in 1 .. 7 /\ 4 \in 1 .. 7 /\ o + 10 \in Nat
          /\ o + 4 \in Nat /\ 3 \in Nat
      BY <1>4, <1>5
    <3>2. StoreReady(F3, acc, job.CH, 1, 4, o, o + 10, 3, o + 4)
      BY <1>2, <1>3, <1>4, <1>7, <1>10, <2>3, <3>1 DEF StoreReady
    <3>3. QED
      BY <3>2, ReadyStored
  <2>6. 0 < job.CH
    BY <1>3
  <2>7. QED
    BY <1>2, <1>7, <1>9, <2>1, <2>2, <2>4, <2>5, <2>6, Stays3
<1>11. CASE ~LastChannel
  <2>1. RegIs3(o + 6, reg.buf, acc)
    <3> DEFINE x == o + 6
    <3>1. x \in Nat /\ Bumped(4) = x
      BY <1>4, <1>5, <1>11 DEF Bumped
    <3> HIDE DEF x
    <3>2. reg' = [reg EXCEPT !.acc = acc, !.i = x]
      BY <1>7, <3>1
    <3>3. RegIs3(x, reg.buf, acc)
      BY <1>2, <3>1, <3>2 DEF RegIs3
    <3>4. QED
      BY <3>3 DEF x
  <2>2. AccHolds(acc, F3, o, Progress(o + 6, 4, c + 1, job.CH)) /\ c + 1 \in Nat /\ c + 1 < job.CH
    BY <1>6, <1>8, <1>11 DEF GroupAdded
  <2>3. AtIs3("tail4", at.n, o, j, c + 1)
    <3>1. at' = [at EXCEPT !.ch = c + 1, !.phase = "tail4"] /\ j = at.j /\ o = at.o
      BY <1>5, <1>6, <1>7, <1>11
    <3>2. AtMoves3("tail4", o, j, c + 1)
      BY <1>2, <1>4, <2>2, <3>1 DEF AtMoves3
    <3>3. QED
      BY <3>2, AtMoved3
  <2>4. Phase3("tail4", o, j, c + 1, o + 6, reg.buf, acc)
    <3>1. AccHolds(acc, F3, job.R - 7, Progress(job.R - 1, 4, c + 1, job.CH))
      BY <1>4, <2>2
    <3>2. o = job.R - 7 /\ o + 6 = job.R - 1
      BY <1>4
    <3>3. QED
      BY <3>1, <3>2 DEF Phase3
  <2>5. out' = Outs(F3, job.CH, Area(o, at.n))
    BY <1>2, <1>5, <1>7, <1>11
  <2>6. QED
    BY <1>2, <1>7, <1>9, <2>1, <2>2, <2>3, <2>4, <2>5, Stays3
<1>12. QED
  BY <1>10, <1>11

LEMMA Tail3Channels ==
  ASSUME job \in Jobs, job.kernel = "fconv3d", done = FALSE, job' = job, Inv3, Tail3Channel
  PROVE  Inv3'
<1> DEFINE acc == Mac(reg.acc, Fresh({}), Rows3(3, at.ch), 10)
           c == at.ch
           j == at.j
           o == job.R - 7
<1>1. at.phase = "tail3"
  BY DEF Tail3Channel, At3
<1>2. /\ at.n \in Strips /\ out = Outs(F3, job.CH, Area(at.o, at.n)) /\ c < job.CH
      /\ c \in Nat /\ j \in Nat
      /\ Phase3(at.phase, at.o, j, c, reg.i, reg.buf, reg.acc)
      /\ at \in [n : {at.n}, phase : {at.phase}, o : Nat, j : Nat, ch : Nat]
      /\ reg \in [acc : {reg.acc}, i : Nat, buf : Nat] /\ loaded \subseteq 0 .. job.R + 5
  BY DEF Inv3
<1>3. job.R \in Nat /\ job.R = 2 * LoopEnd + 8 /\ job.CH \in Nat \ {0} /\ LoopEnd \in Nat
      /\ job.C \in Nat \ {0}
  BY Size7
<1>4. o \in Nat /\ job.R = o + 7 /\ job.R + 3 = o + 10 /\ job.R - 3 = o + 4 /\ job.R - 7 = o
  BY <1>3
<1> HIDE DEF o
<1>5. at.o = o + 4 /\ reg.i = o + 10 /\ AccHolds(reg.acc, F3, o, Progress(o + 10, 3, c, job.CH))
  <2>1. at.o = job.R - 3 /\ reg.i = job.R + 3
        /\ AccHolds(reg.acc, F3, job.R - 7, Progress(job.R + 3, 3, c, job.CH))
    BY <1>1, <1>2 DEF Phase3
  <2>2. QED
    BY <1>4, <2>1
<1>6. at.ch = c /\ at.j = j /\ acc = Mac(reg.acc, {}, Rows3(3, at.ch), 10)
  BY DEF Fresh
<1>7. /\ loaded' = loaded \cup (reg.i .. reg.i + 2)
      /\ LastChannel => /\ Stored(acc, 5 .. 7) /\ at' = Strip(NextStrip)
                        /\ reg' = [reg EXCEPT !.acc = acc, !.i = 0] /\ done' = (NextStrip >= job.C)
      /\ ~LastChannel => /\ at' = [at EXCEPT !.ch = c + 1] /\ reg' = [reg EXCEPT !.acc = acc]
                         /\ out' = out /\ done' = FALSE
  <2>1. acc = Mac(reg.acc, {}, Rows3(3, at.ch), 10) /\ at.ch = c
    BY <1>6
  <2> HIDE DEF acc, c
  <2>2. QED
    BY <2>1 DEF Tail3Channel, Keeps
<1>8. GroupAdded(acc, o, o + 10, 3)
  <2>1. {} = FreshOf(o, o + 10, 3, 0)
    BY <1>4, FreshSets
  <2>2. c \in 0 .. job.CH - 1 /\ o + 10 \in Nat /\ 10 \in Nat /\ 3 \in Nat
    BY <1>2, <1>3, <1>4
  <2>3. GroupReady(o, 10, o + 10, 3, {})
    BY <1>3, <1>4, <1>5, <2>1, <2>2 DEF GroupReady
  <2>4. QED
    BY <2>3, GroupOf3
<1> HIDE DEF acc, c, j
<1>9. loaded' \subseteq 0 .. job.R + 5
  <2>1. reg.i .. reg.i + 2 \subseteq 0 .. job.R + 5
    BY <1>4, <1>5
  <2>2. QED
    BY <1>2, <1>7, <2>1
<1>10. CASE LastChannel
  <2>1. AccHolds(acc, F3, o, Progress(o + 13, 3, 0, job.CH))
    <3>1. (o + 10) + 3 = o + 13 /\ 3 \in Nat
      BY <1>4
    <3>2. \A k \in Nat : AccHolds(acc, F3, o, Progress((o + 10) + 3, k, 0, job.CH))
      BY <1>8, <1>10 DEF GroupAdded
    <3>3. QED
      BY <3>1, <3>2
  <2>2. out' = Outs(F3, job.CH, Area(job.R, at.n))
    <3>1. at.o = o + 5 - 1 /\ o + 13 >= o + 7 + 6 /\ 5 \in 1 .. 7 /\ 7 \in 5 .. 7 /\ o + 13 \in Nat
          /\ o + 7 \in Nat /\ 3 \in Nat
      BY <1>4, <1>5
    <3>2. StoreReady(F3, acc, job.CH, 5, 7, o, o + 13, 3, o + 7)
      BY <1>2, <1>3, <1>4, <1>7, <1>10, <2>1, <3>1 DEF StoreReady
    <3>3. out' = Outs(F3, job.CH, Area(o + 7, at.n))
      BY <3>2, ReadyStored
    <3>4. QED
      BY <1>4, <3>3
  <2>3. /\ NextStrip < job.C => NextStrip \in Strips
        /\ NextStrip \in Nat
        /\ out' = Outs(F3, job.CH, Area(0, NextStrip))
        /\ NextStrip >= job.C => out' = Outs(F3, job.CH, (0 .. job.R - 1) \X Strips)
    BY <1>2, <1>3, <2>2, StripStored
  <2>4. done' => out' = Result3d
    <3>1. done' => NextStrip >= job.C
      BY <1>7, <1>10
    <3>2. Result3d = Outs(F3, job.CH, (0 .. job.R - 1) \X Strips)
      BY <1>3, Result3
    <3>3. QED
      BY <2>3, <3>1, <3>2
  <2>5. ~done' => NextStrip \in Strips
    <3>1. ~done' => ~(NextStrip >= job.C)
      BY <1>7, <1>10
    <3>2. ~(NextStrip >= job.C) => NextStrip < job.C
      BY <1>3, <2>3
    <3>3. QED
      BY <2>3, <3>1, <3>2
  <2>6. reg' \in [acc : {reg'.acc}, i : Nat, buf : Nat] /\ reg'.acc = acc /\ reg'.i = 0
    <3>1. reg' = [reg EXCEPT !.acc = acc, !.i = 0]
      BY <1>7, <1>10
    <3>2. QED
      BY <1>2, <3>1
  <2>7. /\ at' \in [n : {at'.n}, phase : {at'.phase}, o : Nat, j : Nat, ch : Nat]
        /\ at'.phase = "head4" /\ at'.o = 0 /\ at'.j = 0 /\ at'.n = NextStrip /\ at'.ch = 0
    BY <1>7, <1>10 DEF Strip
  <2>8. AccHolds(acc, F3, 0, Progress(0, 4, 0, job.CH))
    BY NothingRead
  <2>9. Phase3("head4", 0, 0, 0, 0, reg'.buf, acc)
    BY <2>8 DEF Phase3
  <2>10. Phase3(at'.phase, at'.o, at'.j, at'.ch, reg'.i, reg'.buf, reg'.acc)
    BY <2>6, <2>7, <2>9
  <2>11. at'.ch < job.CH /\ out' = Outs(F3, job.CH, Area(at'.o, at'.n)) /\ (~done' => at'.n \in Strips)
    BY <1>3, <2>3, <2>5, <2>7
  <2>12. QED
    BY <1>9, <2>4, <2>6, <2>7, <2>10, <2>11, SameJob3
<1>11. CASE ~LastChannel
  <2>1. RegIs3(o + 10, reg.buf, acc)
    <3>1. reg' = [reg EXCEPT !.acc = acc] /\ reg.i = o + 10
      BY <1>5, <1>7, <1>11
    <3>2. RegIs3(reg.i, reg.buf, acc)
      BY <1>2, <3>1 DEF RegIs3
    <3>3. QED
      BY <3>1, <3>2
  <2>2. AccHolds(acc, F3, o, Progress(o + 10, 3, c + 1, job.CH)) /\ c + 1 \in Nat /\ c + 1 < job.CH
    BY <1>6, <1>8, <1>11 DEF GroupAdded
  <2>3. AtIs3("tail3", at.n, o + 4, j, c + 1)
    <3>1. at' = [at EXCEPT !.ch = c + 1] /\ j = at.j /\ o + 4 = at.o /\ o + 4 \in Nat
      BY <1>4, <1>5, <1>6, <1>7, <1>11
    <3>2. AtMoves3("tail3", o + 4, j, c + 1)
      BY <1>1, <1>2, <2>2, <3>1 DEF AtMoves3
    <3>3. QED
      BY <3>2, AtMoved3
  <2>4. Phase3("tail3", o + 4, j, c + 1, o + 10, reg.buf, acc)
    <3>1. AccHolds(acc, F3, job.R - 7, Progress(job.R + 3, 3, c + 1, job.CH))
      BY <1>4, <2>2
    <3>2. o + 4 = job.R - 3 /\ o + 10 = job.R + 3
      BY <1>4
    <3>3. QED
      BY <3>1, <3>2 DEF Phase3
  <2>5. out' = Outs(F3, job.CH, Area(o + 4, at.n)) /\ done' = FALSE
    BY <1>2, <1>5, <1>7, <1>11
  <2>6. QED
    BY <1>2, <1>9, <2>1, <2>2, <2>3, <2>4, <2>5, Stays3
<1>12. QED
  BY <1>10, <1>11

LEMMA Step3 ==
  ASSUME job \in Jobs, job.kernel = "fconv3d", done = FALSE, job' = job, Inv3, Next3d
  PROVE  Inv3'
BY Head4Channels, Head3Channels, UnrollChannels, Tail4Channels, Tail3Channels DEF Next3d
-----------------------------------------------------------------------------
(***************************************************************************)
(* All the kernels: the invariant is that of the job's kernel.             *)
(***************************************************************************)
Inv3x3 == WindowInv(4, 3)
Inv5x5 == WindowInv(2, 5)

VectorInv ==
  /\ StepOf("fmatmul", MatmulInv) /\ StepOf("jacobi2d", JacobiInv)
  /\ StepOf("pathfinder", PathInv) /\ StepOf("pathfinder_short", ShortInv)
  /\ StepOf("gemv_small", SmallInv) /\ StepOf("gemv", SliceInv) /\ StepOf("spmv", SparseInv)
ConvInv ==
  /\ StepOf("fconv2d_3x3", Inv3x3) /\ StepOf("iconv2d_5x5", Inv5x5)
  /\ StepOf("fconv2d_7x7", Inv7) /\ StepOf("fconv3d", Inv3)
KernelInv == job \in Jobs /\ VectorInv /\ ConvInv

LEMMA KernelBegins ==
  ASSUME Init
  PROVE  KernelInv
<1>1. job \in Jobs /\ done = FALSE
  BY OwnStart
<1>2. StepOf("fmatmul", MatmulInv)
  BY <1>1, OwnStart, MatmulBegins DEF StepOf
<1>3. StepOf("jacobi2d", JacobiInv)
  BY <1>1, OwnStart, JacobiBegins DEF StepOf
<1>4. StepOf("pathfinder", PathInv)
  BY <1>1, OwnStart, PathBegins DEF StepOf
<1>5. StepOf("pathfinder_short", ShortInv)
  BY <1>1, OwnStart, ShortBegins DEF StepOf
<1>6. StepOf("gemv_small", SmallInv)
  BY <1>1, OwnStart, SmallBegins DEF StepOf
<1>7. StepOf("gemv", SliceInv)
  BY <1>1, OwnStart, SliceBegins DEF StepOf
<1>8. StepOf("spmv", SparseInv)
  BY <1>1, OwnStart, SparseBegins DEF StepOf
<1>9. StepOf("fconv2d_3x3", Inv3x3)
  <2>1. ASSUME job.kernel = "fconv2d_3x3"
        PROVE  Inv3x3
    <3>1. WindowStart("fconv2d_3x3", 3) /\ job.R \in Positive
      BY <1>1, <2>1, OwnStart, WindowSize DEF StepOf, Start3x3
    <3>2. 4 \in {2, 4} /\ 3 \in {3, 5}
      OBVIOUS
    <3>3. QED
      BY <1>1, <3>1, <3>2, WindowBegins DEF Inv3x3
  <2>2. QED
    BY <2>1 DEF StepOf
<1>10. StepOf("iconv2d_5x5", Inv5x5)
  <2>1. ASSUME job.kernel = "iconv2d_5x5"
        PROVE  Inv5x5
    <3>1. WindowStart("iconv2d_5x5", 5) /\ job.R \in Positive
      BY <1>1, <2>1, OwnStart, WindowSize DEF StepOf, Start5x5
    <3>2. 2 \in {2, 4} /\ 5 \in {3, 5}
      OBVIOUS
    <3>3. QED
      BY <1>1, <3>1, <3>2, WindowBegins DEF Inv5x5
  <2>2. QED
    BY <2>1 DEF StepOf
<1>11. StepOf("fconv2d_7x7", Inv7)
  BY <1>1, OwnStart, Begins7 DEF StepOf
<1>12. StepOf("fconv3d", Inv3)
  BY <1>1, OwnStart, Begins3 DEF StepOf
<1>13. QED
  BY <1>1, <1>2, <1>3, <1>4, <1>5, <1>6, <1>7, <1>8, <1>9, <1>10, <1>11, <1>12
     DEF KernelInv, VectorInv, ConvInv

LEMMA KernelMoves ==
  ASSUME KernelInv, Next
  PROVE  KernelInv'
<1>1. job \in Jobs /\ job' = job /\ done = FALSE /\ VectorInv /\ ConvInv
  BY OwnSteps DEF KernelInv
<1>2. StepOf("fmatmul", MatmulInv)'
  BY <1>1, OwnSteps, MatmulStep DEF StepOf, VectorInv
<1>3. StepOf("jacobi2d", JacobiInv)'
  BY <1>1, OwnSteps, JacobiMoves DEF StepOf, VectorInv
<1>4. StepOf("pathfinder", PathInv)'
  BY <1>1, OwnSteps, PathMoves DEF StepOf, VectorInv
<1>5. StepOf("pathfinder_short", ShortInv)'
  BY <1>1, OwnSteps, ShortMoves DEF StepOf, VectorInv
<1>6. StepOf("gemv_small", SmallInv)'
  BY <1>1, OwnSteps, SmallStep DEF StepOf, VectorInv
<1>7. StepOf("gemv", SliceInv)'
  BY <1>1, OwnSteps, SliceMoves DEF StepOf, VectorInv
<1>8. StepOf("spmv", SparseInv)'
  BY <1>1, OwnSteps, SparseStep DEF StepOf, VectorInv
<1>9. StepOf("fconv2d_3x3", Inv3x3)'
  <2>1. ASSUME job.kernel = "fconv2d_3x3"
        PROVE  Inv3x3'
    <3>1. /\ WindowBlock("fconv2d_3x3", 4, 3) /\ WindowInv(4, 3)
          /\ job.R \in Positive /\ job.R % 4 = 0
      BY <1>1, <2>1, OwnSteps, WindowSize DEF StepOf, Block3x3, ConvInv, Inv3x3
    <3>2. 4 \in {2, 4} /\ 3 \in {3, 5}
      OBVIOUS
    <3>3. WindowInv(4, 3)'
      BY <1>1, <3>1, <3>2, WindowMoves
    <3>4. QED
      BY <3>3 DEF Inv3x3
  <2>2. QED
    BY <1>1, <2>1 DEF StepOf
<1>10. StepOf("iconv2d_5x5", Inv5x5)'
  <2>1. ASSUME job.kernel = "iconv2d_5x5"
        PROVE  Inv5x5'
    <3>1. /\ WindowBlock("iconv2d_5x5", 2, 5) /\ WindowInv(2, 5)
          /\ job.R \in Positive /\ job.R % 2 = 0
      BY <1>1, <2>1, OwnSteps, WindowSize DEF StepOf, Block5x5, ConvInv, Inv5x5
    <3>2. 2 \in {2, 4} /\ 5 \in {3, 5}
      OBVIOUS
    <3>3. WindowInv(2, 5)'
      BY <1>1, <3>1, <3>2, WindowMoves
    <3>4. QED
      BY <3>3 DEF Inv5x5
  <2>2. QED
    BY <1>1, <2>1 DEF StepOf
<1>11. StepOf("fconv2d_7x7", Inv7)'
  BY <1>1, OwnSteps, Step7 DEF StepOf, ConvInv
<1>12. StepOf("fconv3d", Inv3)'
  BY <1>1, OwnSteps, Step3 DEF StepOf, ConvInv
<1>13. VectorInv'
  BY <1>2, <1>3, <1>4, <1>5, <1>6, <1>7, <1>8 DEF VectorInv
<1>14. ConvInv'
  BY <1>9, <1>10, <1>11, <1>12 DEF ConvInv
<1>15. QED
  BY <1>1, <1>13, <1>14 DEF KernelInv

LEMMA KernelRests ==
  ASSUME KernelInv, UNCHANGED vars
  PROVE  KernelInv'
<1>1. job' = job /\ at' = at /\ reg' = reg /\ out' = out /\ loaded' = loaded /\ done' = done
  BY DEF vars
<1>2. MatmulInv' = MatmulInv
  BY <1>1 DEF MatmulInv
<1>3. JacobiInv' = JacobiInv
  <2>1. Inc' = Inc
    BY <1>1 DEF Inc
  <2>2. ASSUME NEW P
        PROVE  (Cells(Inc, P))' = Cells(Inc, P)
    BY <1>1, <2>1 DEF Cells, Cell
  <2>3. QED
    BY <1>1, <2>1, <2>2 DEF JacobiInv
<1>4. PathInv' = PathInv
  BY <1>1 DEF PathInv
<1>5. ShortInv' = ShortInv
  BY <1>1 DEF ShortInv
<1>6. SmallInv' = SmallInv
  BY <1>1 DEF SmallInv
<1>7. SliceInv' = SliceInv
  <2>1. Slices' = Slices
    BY <1>1 DEF Slices
  <2>2. ASSUME NEW b
        PROVE  (Height(b))' = Height(b)
    BY <1>1 DEF Height
  <2>3. SliceResult' = SliceResult
    BY <1>1, <2>1 DEF SliceResult
  <2>4. QED
    BY <1>1, <2>1, <2>2, <2>3 DEF SliceInv
<1>8. SparseInv' = SparseInv
  BY <1>1 DEF SparseInv
<1>9. Inv3x3' = Inv3x3 /\ Inv5x5' = Inv5x5
  <2>1. ASSUME NEW F, NEW r
        PROVE  (WindowRow(F, r))' = WindowRow(F, r)
    BY <1>1 DEF WindowRow
  <2>2. QED
    BY <1>1, <2>1 DEF Inv3x3, Inv5x5, WindowInv
<1>10. Inv7' = Inv7
  BY <1>1, SameJob7 DEF Inv7
<1>11. Inv3' = Inv3
  BY <1>1, SameJob3 DEF Inv3
<1>12. VectorInv' = VectorInv
  BY <1>1, <1>2, <1>3, <1>4, <1>5, <1>6, <1>7, <1>8 DEF VectorInv, StepOf
<1>13. ConvInv' = ConvInv
  BY <1>1, <1>9, <1>10, <1>11 DEF ConvInv, StepOf
<1>14. QED
  BY <1>1, <1>12, <1>13 DEF KernelInv

LEMMA KernelInvariant == Spec => []KernelInv
<1>1. Init => KernelInv
  BY KernelBegins
<1>2. KernelInv /\ [Next]_vars => KernelInv'
  BY KernelMoves, KernelRests
<1>3. QED
  BY <1>1, <1>2, PTL DEF Spec

\* Each job is of one of the kernels.
LEMMA KernelOfJob ==
  ASSUME job \in Jobs
  PROVE  job.kernel \in {"fmatmul", "jacobi2d", "pathfinder", "pathfinder_short", "gemv_small",
                         "gemv", "spmv", "fconv2d_3x3", "iconv2d_5x5", "fconv2d_7x7", "fconv3d"}
BY KernelAssumption DEF VectorSizes, ConvSizes

LEMMA VectorLoads ==
  ASSUME VectorInv
  PROVE  /\ StepOf("fmatmul", loaded \subseteq 0 .. job.N - 1)
         /\ StepOf("jacobi2d", loaded \subseteq 0 .. job.r - 1)
         /\ StepOf("pathfinder", loaded \subseteq 0 .. job.rows - 1)
         /\ StepOf("pathfinder_short", loaded \subseteq 0 .. job.rows - 1)
         /\ StepOf("gemv_small", loaded \subseteq 0 .. job.rows - 1)
         /\ StepOf("gemv", loaded \subseteq 0 .. job.rows - 1)
         /\ StepOf("spmv", loaded \subseteq 0 .. Len(job.lens) - 1)
BY DEF VectorInv, StepOf, MatmulInv, JacobiInv, PathInv, ShortInv, SmallInv, SliceInv, SparseInv

LEMMA ConvLoads ==
  ASSUME job \in Jobs, ConvInv
  PROVE  /\ StepOf("fconv2d_3x3", loaded \subseteq 0 .. (job.R + 2) - 1)
         /\ StepOf("iconv2d_5x5", loaded \subseteq 0 .. (job.R + 4) - 1)
         /\ StepOf("fconv2d_7x7", loaded \subseteq 0 .. (job.R + 6) - 1)
         /\ StepOf("fconv3d", loaded \subseteq 0 .. (job.R + 6) - 1)
<1>1. /\ StepOf("fconv2d_3x3", loaded \subseteq 0 .. job.R + 3 - 2)
      /\ StepOf("iconv2d_5x5", loaded \subseteq 0 .. job.R + 5 - 2)
      /\ StepOf("fconv2d_7x7", loaded \subseteq 0 .. job.R + 5)
      /\ StepOf("fconv3d", loaded \subseteq 0 .. job.R + 5)
  BY DEF ConvInv, StepOf, Inv3x3, Inv5x5, WindowInv, Inv7, Inv3
<1>2. /\ StepOf("fconv2d_3x3", job.R \in Nat) /\ StepOf("iconv2d_5x5", job.R \in Nat)
      /\ StepOf("fconv2d_7x7", job.R \in Nat) /\ StepOf("fconv3d", job.R \in Nat)
  BY WindowSize, Size7 DEF StepOf, Positive
<1>3. \A R \in Nat : /\ R + 3 - 2 = (R + 2) - 1 /\ R + 5 - 2 = (R + 4) - 1 /\ R + 5 = (R + 6) - 1
  OBVIOUS
<1>4. QED
  BY <1>1, <1>2, <1>3 DEF StepOf

(* A kernel loads rows of its matrix only: the row it fetches ahead is one  *)
(* in the last step too, for every size the kernel accepts, every length of *)
(* the vector registers and every slice.                                    *)
THEOREM KernelsLoadInside == Spec => []LoadsInsideMatrix
<1>1. KernelInv => LoadsInsideMatrix
  <2> SUFFICES ASSUME KernelInv
               PROVE  LoadsInsideMatrix
    OBVIOUS
  <2>1. job \in Jobs /\ VectorInv /\ ConvInv
    BY DEF KernelInv
  <2>2. loaded \subseteq 0 .. Rows - 1
    <3> DEFINE k == job.kernel
    <3>1. \/ k = "fmatmul" \/ k = "jacobi2d" \/ k = "pathfinder" \/ k = "pathfinder_short"
          \/ k = "gemv_small" \/ k = "gemv" \/ k = "spmv" \/ k = "fconv2d_3x3"
          \/ k = "iconv2d_5x5" \/ k = "fconv2d_7x7" \/ k = "fconv3d"
      BY <2>1, KernelOfJob
    <3>2. CASE k = "fmatmul"
      BY <2>1, <3>2, VectorLoads, OwnResult DEF StepOf
    <3>3. CASE k = "jacobi2d"
      BY <2>1, <3>3, VectorLoads, OwnResult DEF StepOf
    <3>4. CASE k = "pathfinder"
      BY <2>1, <3>4, VectorLoads, OwnResult DEF StepOf
    <3>5. CASE k = "pathfinder_short"
      BY <2>1, <3>5, VectorLoads, OwnResult DEF StepOf
    <3>6. CASE k = "gemv_small"
      BY <2>1, <3>6, VectorLoads, OwnResult DEF StepOf
    <3>7. CASE k = "gemv"
      BY <2>1, <3>7, VectorLoads, OwnResult DEF StepOf
    <3>8. CASE k = "spmv"
      BY <2>1, <3>8, VectorLoads, OwnResult DEF StepOf
    <3>9. CASE k = "fconv2d_3x3"
      BY <2>1, <3>9, ConvLoads, OwnResult DEF StepOf
    <3>10. CASE k = "iconv2d_5x5"
      BY <2>1, <3>10, ConvLoads, OwnResult DEF StepOf
    <3>11. CASE k = "fconv2d_7x7"
      BY <2>1, <3>11, ConvLoads, OwnResult DEF StepOf
    <3>12. CASE k = "fconv3d"
      BY <2>1, <3>12, ConvLoads, OwnResult DEF StepOf
    <3>13. QED
      BY <3>1, <3>2, <3>3, <3>4, <3>5, <3>6, <3>7, <3>8, <3>9, <3>10, <3>11, <3>12
  <2>3. QED
    BY <2>2 DEF LoadsInsideMatrix
<1>2. QED
  BY <1>1, KernelInvariant, PTL

\* What the invariants say of the end is what the scalar loops say.
LEMMA VectorEnds ==
  ASSUME job \in Jobs, VectorInv, done
  PROVE  /\ StepOf("fmatmul", out = MatmulResult) /\ StepOf("jacobi2d", out = Stencil(Inc))
         /\ StepOf("pathfinder", out = PathResult)
         /\ StepOf("pathfinder_short", ShortFits(job.rows) => out = ShortResult)
         /\ StepOf("gemv_small", out = SmallResult) /\ StepOf("gemv", out = SliceResult)
         /\ StepOf("spmv", out = SparseResult)
<1>1. StepOf("fmatmul", out = MatmulResult)
  BY DEF VectorInv, StepOf, MatmulInv, MatmulSums, MatmulResult
<1>2. StepOf("jacobi2d", out = Stencil(Inc))
  BY JacobiCells DEF VectorInv, StepOf, JacobiInv
<1>3. StepOf("pathfinder", out = PathResult)
  <2>1. \A c \in 0 .. job.cols - 1 : ~(c < 0)
    OBVIOUS
  <2>2. Costs(0, job.rows - 1, job.cols) = PathResult
    BY <2>1 DEF Costs, PathResult
  <2>3. QED
    BY <2>2 DEF VectorInv, StepOf, PathInv
<1>4. StepOf("pathfinder_short", ShortFits(job.rows) => out = ShortResult)
  BY DEF VectorInv, StepOf, ShortInv, RowsTo, ShortResult
<1>5. StepOf("gemv_small", out = SmallResult)
  <2>1. ASSUME job.kernel = "gemv_small"
        PROVE  out = SmallResult
    <3>1. job.rows \in Nat
      BY <2>1, SmallSize
    <3>2. \A k \in 0 .. job.rows - 1 : k < job.rows
      BY <3>1
    <3>3. out = SmallSums(job.rows, job.rows)
      BY <2>1 DEF VectorInv, StepOf, SmallInv
    <3>4. QED
      BY <3>2, <3>3 DEF SmallSums, SmallResult
  <2>2. QED
    BY <2>1 DEF StepOf
<1>6. StepOf("gemv", out = SliceResult)
  BY DEF VectorInv, StepOf, SliceInv
<1>7. StepOf("spmv", out = SparseResult)
  <2>1. ASSUME job.kernel = "spmv"
        PROVE  out = SparseResult
    <3>1. Len(job.lens) \in Nat
      BY <2>1, SparseSize, LenProperties
    <3>2. \A k \in 0 .. Len(job.lens) - 1 : k < Len(job.lens)
      BY <3>1
    <3>3. out = SparseSums(Len(job.lens), job.lens)
      BY <2>1 DEF VectorInv, StepOf, SparseInv
    <3>4. QED
      BY <3>2, <3>3 DEF SparseSums, SparseResult
  <2>2. QED
    BY <2>1 DEF StepOf
<1>8. QED
  BY <1>1, <1>2, <1>3, <1>4, <1>5, <1>6, <1>7

LEMMA ConvEnds ==
  ASSUME job \in Jobs, ConvInv, done
  PROVE  /\ StepOf("fconv2d_3x3", out = WindowResult(3)) /\ StepOf("iconv2d_5x5", out = WindowResult(5))
         /\ StepOf("fconv2d_7x7", out = Result7x7) /\ StepOf("fconv3d", out = Result3d)
<1>1. \A F : WindowResult(F) = {WindowRow(F, r) : r \in 0 .. job.R - 1}
  BY DEF WindowResult, WindowRow
<1>2. StepOf("fconv2d_3x3", out = WindowResult(3))
  BY <1>1 DEF ConvInv, StepOf, Inv3x3, WindowInv
<1>3. StepOf("iconv2d_5x5", out = WindowResult(5))
  BY <1>1 DEF ConvInv, StepOf, Inv5x5, WindowInv
<1>4. StepOf("fconv2d_7x7", out = Result7x7)
  BY DEF ConvInv, StepOf, Inv7
<1>5. StepOf("fconv3d", out = Result3d)
  BY DEF ConvInv, StepOf, Inv3
<1>6. QED
  BY <1>2, <1>3, <1>4, <1>5

(* When a kernel has ended, what it has stored is what the scalar loops     *)
(* compute, each result from its own rows, taps and slices, for every size  *)
(* the kernel accepts, every length of the vector registers and every       *)
(* slice.  The short variant of pathfinder stores the right register for    *)
(* the sizes of ShortFits only, and jacobi2d steps from row to row as the   *)
(* scalar loops do on four lanes in all only.                               *)
THEOREM KernelsCompute ==
  ASSUME \A j \in Jobs : j.kernel = "pathfinder_short" => ShortFits(j.rows),
         \A j \in Jobs : j.kernel = "jacobi2d" => j.lanes = 4
  PROVE  Spec => []ResultIsScalarLoops
<1>1. KernelInv => ResultIsScalarLoops
  <2> SUFFICES ASSUME KernelInv, done
               PROVE  out = Expected
    BY DEF ResultIsScalarLoops
  <2>1. job \in Jobs /\ VectorInv /\ ConvInv
    BY DEF KernelInv
  <2> DEFINE k == job.kernel
  <2>2. \/ k = "fmatmul" \/ k = "jacobi2d" \/ k = "pathfinder" \/ k = "pathfinder_short"
        \/ k = "gemv_small" \/ k = "gemv" \/ k = "spmv" \/ k = "fconv2d_3x3"
        \/ k = "iconv2d_5x5" \/ k = "fconv2d_7x7" \/ k = "fconv3d"
    BY <2>1, KernelOfJob
  <2>3. CASE k = "fmatmul"
    BY <2>1, <2>3, VectorEnds, OwnResult DEF StepOf
  <2>4. CASE k = "jacobi2d"
    <3>1. out = Stencil(Inc)
      BY <2>1, <2>4, VectorEnds DEF StepOf
    <3>2. Inc = job.c
      <4>1. job.c \in Nat /\ job.lanes = 4 /\ (4 * 4) \div 8 = 2
        BY <2>1, <2>4, JacobiSize
      <4>2. QED
        BY <4>1 DEF Inc, DataBytes
    <3>3. QED
      BY <2>1, <2>4, <3>1, <3>2, OwnResult DEF StepOf, JacobiResult
  <2>5. CASE k = "pathfinder"
    BY <2>1, <2>5, VectorEnds, OwnResult DEF StepOf
  <2>6. CASE k = "pathfinder_short"
    BY <2>1, <2>6, VectorEnds, OwnResult DEF StepOf
  <2>7. CASE k = "gemv_small"
    BY <2>1, <2>7, VectorEnds, OwnResult DEF StepOf
  <2>8. CASE k = "gemv"
    BY <2>1, <2>8, VectorEnds, OwnResult DEF StepOf
  <2>9. CASE k = "spmv"
    BY <2>1, <2>9, VectorEnds, OwnResult DEF StepOf
  <2>10. CASE k = "fconv2d_3x3"
    BY <2>1, <2>10, ConvEnds, OwnResult DEF StepOf
  <2>11. CASE k = "iconv2d_5x5"
    BY <2>1, <2>11, ConvEnds, OwnResult DEF StepOf
  <2>12. CASE k = "fconv2d_7x7"
    BY <2>1, <2>12, ConvEnds, OwnResult DEF StepOf
  <2>13. CASE k = "fconv3d"
    BY <2>1, <2>13, ConvEnds, OwnResult DEF StepOf
  <2>14. QED
    BY <2>2, <2>3, <2>4, <2>5, <2>6, <2>7, <2>8, <2>9, <2>10, <2>11, <2>12, <2>13
<1>2. QED
  BY <1>1, KernelInvariant, PTL

(* What jacobi2d has stored at its end is the stencil in the matrix whose   *)
(* rows are Inc elements apart, on every build: no register is overwritten  *)
(* too early, and no element at the edge of a strip comes from another row  *)
(* than its neighbours.                                                     *)
THEOREM JacobiIsStencil == Spec => [](done /\ job.kernel = "jacobi2d" => out = Stencil(Inc))
<1>1. KernelInv => (done /\ job.kernel = "jacobi2d" => out = Stencil(Inc))
  <2> SUFFICES ASSUME KernelInv, done, job.kernel = "jacobi2d"
               PROVE  out = Stencil(Inc)
    OBVIOUS
  <2>1. job \in Jobs /\ VectorInv
    BY DEF KernelInv
  <2>2. QED
    BY <2>1, VectorEnds DEF StepOf
<1>2. QED
  BY <1>1, KernelInvariant, PTL
=============================================================================
