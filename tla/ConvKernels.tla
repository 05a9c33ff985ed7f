----------------------------- MODULE ConvKernels -----------------------------
(***************************************************************************)
(* The convolutions.  The 3x3 and 5x5 ones keep a window of input rows and *)
(* compute a block of output rows from it; the 7x7 ones keep seven output  *)
(* rows and add each input row to all of them, with edge code for the      *)
(* first and the last seven rows, a loop that is unrolled twice, and, with *)
(* several channels, coefficients fetched one column ahead.                *)
(* A contribution to an output row names the input row, where the scalars  *)
(* slid in at its end come from, and the row of the filter; a column of    *)
(* the filter more or less is left out.                                    *)
(***************************************************************************)
EXTENDS KernelState, Bags

Positive == Nat \ {0}
ConvSizes(j) ==
  /\ j.R \in Positive /\ j.C \in Positive
  /\ \/ j.kernel = "fconv2d_3x3" /\ j.R % 4 = 0 /\ j.C + 2 <= Vlmax
     \/ j.kernel = "iconv2d_5x5" /\ j.R % 2 = 0 /\ j.C + 4 <= Vlmax
     \/ j.kernel = "fconv2d_7x7" /\ j.R >= 8 /\ j.R % 2 = 0
     \/ j.kernel = "fconv3d" /\ j.R >= 8 /\ j.R % 2 = 0 /\ j.CH \in Positive

Stores(rows) == out' = out \cup rows
-----------------------------------------------------------------------------
(* 3x3 and 5x5: B output rows at once from B + F - 1 input rows, of which   *)
(* the last F - 1 are moved to the front for the next block.                *)

Window(rows, F) == SetToBag({[row |-> rows[f], tap |-> f - 1] : f \in 1 .. F})
WindowStart(kernel, F) == Start(kernel, [r |-> 0],
  [win |-> [k \in 1 .. F - 1 |-> k - 1], i |-> F - 1], {}, 0 .. F - 2)

\* Which of the registers of a block moves to register k.
Moved(k, B, F) == k + B

WindowBlock(kernel, B, F) ==
  LET w == [k \in 1 .. B + F - 1 |-> IF k < F THEN reg.win[k] ELSE reg.i + k - F] IN
  /\ Running(kernel)
  /\ Stores({[row |-> at.r + b, n |-> 0, len |-> job.C,
              from |-> Window([f \in 1 .. F |-> w[b + f]], F)] : b \in 0 .. B - 1})
  /\ Keeps(reg.i .. reg.i + B - 1)
  /\ reg' = [win |-> [k \in 1 .. F - 1 |-> w[Moved(k, B, F)]], i |-> at.r + B + F - 1]
  /\ at' = [r |-> at.r + B]
  /\ done' = (at.r + B >= job.R)

Start3x3 == WindowStart("fconv2d_3x3", 3)
Block3x3 == WindowBlock("fconv2d_3x3", 4, 3)
Start5x5 == WindowStart("iconv2d_5x5", 5)
Block5x5 == WindowBlock("iconv2d_5x5", 2, 5)

WindowResult(F) ==
  {[row |-> r, n |-> 0, len |-> job.C, from |-> Window([f \in 1 .. F |-> r + f - 1], F)] :
     r \in 0 .. job.R - 1}
-----------------------------------------------------------------------------
(* 7x7.  acc[k] is the k-th of v16, v18, .. v28.                            *)

Registers7 == 1 .. 7

\* What a few input rows add.  The s-th of them gets to acc[k] with row
\* shift + s - k of the filter; a vfmul instead of a vfmacc starts anew.
Mac(acc, fresh, rows, shift) == [k \in Registers7 |->
  (IF k \in fresh THEN EmptyBag ELSE acc[k]) (+)
  SetToBag({[from |-> rows[s], tap |-> shift + s - k] :
              s \in {x \in DOMAIN rows : shift + x - k \in 0 .. 6}})]
MovedUp(acc) == [k \in Registers7 |-> IF k < 7 THEN acc[k + 1] ELSE acc[7]]

StripLen == Lesser(job.C - at.n, Lesser(job.C, Vlmax))
Stored(acc, ks) ==
  /\ Stores({[row |-> at.o + k - (CHOOSE x \in ks : \A y \in ks : x <= y),
              n |-> at.n, len |-> StripLen, from |-> acc[k]] : k \in ks})

NoSumsYet == [k \in Registers7 |-> EmptyBag]
Strip(n) == [n |-> n, phase |-> "head4", o |-> 0, j |-> 0, ch |-> 0]
NextStrip == at.n + Lesser(job.C, Vlmax)

\* The input has R + 6 rows; the loop leaves the last seven to the edge code.
LoopEnd == (job.R + 6 - 2 * 7) \div 2

(* One channel (fconv2d_7x7_block).  i is the next row to load; v0 is       *)
(* loaded, and the pointer to its scalars computed, one row ahead.          *)

Read(i, ptr) == [row |-> i, ptr |-> ptr]
NextRows(count) == [s \in 1 .. count |-> Read(reg.i + s - 1, reg.i + s - 1)]
At7(phase) == Running("fconv2d_7x7") /\ at.phase = phase

Start7x7 == Start("fconv2d_7x7", Strip(0),
  [acc |-> NoSumsYet, i |-> 0, v0 |-> 0, ptr |-> 0], {}, {})

Head4 ==
  /\ At7("head4")
  /\ reg' = [reg EXCEPT !.acc = Mac(@, 1 .. 4, NextRows(4), 0), !.i = @ + 4]
  /\ Keeps(reg.i .. reg.i + 3)
  /\ at' = [at EXCEPT !.phase = "head3"]
  /\ UNCHANGED <<out, done>>

Head3 ==
  LET acc == Mac(reg.acc, 5 .. 7, NextRows(3), 4) IN
  /\ At7("head3")
  /\ reg' = [acc |-> MovedUp(acc), i |-> reg.i + 4, v0 |-> reg.i + 3, ptr |-> reg.i + 3]
  /\ Stored(acc, {1}) /\ Keeps(reg.i .. reg.i + 3)
  /\ at' = [at EXCEPT !.phase = "unroll0", !.o = @ + 1]
  /\ UNCHANGED done

RegimeRow ==
  LET acc == Mac(reg.acc, {7}, <<Read(reg.v0, reg.ptr)>>, 6) IN
  /\ reg' = [acc |-> MovedUp(acc), i |-> reg.i + 1, v0 |-> reg.i, ptr |-> reg.i]
  /\ Stored(acc, {1}) /\ Keeps({reg.i})
  /\ UNCHANGED done

Unroll0 ==
  /\ At7("unroll0") /\ at.j < LoopEnd
  /\ RegimeRow
  /\ at' = [at EXCEPT !.phase = "unroll1", !.o = @ + 1]

Unroll1 ==
  /\ At7("unroll1")
  /\ RegimeRow
  /\ at' = [at EXCEPT !.phase = "unroll0", !.o = @ + 1, !.j = @ + 1]

Tail4 ==
  LET acc == Mac(reg.acc, {7}, <<Read(reg.v0, reg.ptr)>> \o NextRows(3), 6) IN
  /\ At7("unroll0") /\ at.j >= LoopEnd
  /\ reg' = [reg EXCEPT !.acc = acc, !.i = @ + 3]
  /\ Stored(acc, 1 .. 4) /\ Keeps(reg.i .. reg.i + 2)
  /\ at' = [at EXCEPT !.phase = "tail3", !.o = @ + 4]
  /\ UNCHANGED done

Tail3 ==
  /\ At7("tail3")
  /\ Stored(Mac(reg.acc, {}, NextRows(3), 10), 5 .. 7)
  /\ Keeps(reg.i .. reg.i + 2)
  /\ at' = Strip(NextStrip)
  /\ reg' = [acc |-> reg.acc, i |-> 0, v0 |-> 0, ptr |-> 0]
  /\ done' = (NextStrip >= job.C)

Strips == {n \in 0 .. job.C - 1 : n % Lesser(job.C, Vlmax) = 0}
Row7(r, sum) == {[row |-> r, n |-> n, len |-> Lesser(job.C - n, Lesser(job.C, Vlmax)),
                  from |-> sum] : n \in Strips}
Result7x7 == UNION {Row7(r, SetToBag({[from |-> Read(r + f, r + f), tap |-> f] : f \in 0 .. 6})) :
                      r \in 0 .. job.R - 1}
-----------------------------------------------------------------------------
(* Several channels (fconv3d_CHx7x7_block): each group of rows is read from *)
(* one channel after the other.  The coefficients of the first column are   *)
(* in buffers, filled at the end of the channel before; those of the last   *)
(* column of the last channel have been fetched at the start.               *)

\* An input row of a channel, and the channel its first column of coefficients
\* is of.
Read3(i, ch, first) == [row |-> i, ch |-> ch, first |-> first]
LastChannel == at.ch = job.CH - 1
Rows3(count, first) == [s \in 1 .. count |-> Read3(reg.i + s - 1, at.ch, first)]

\* vfmul where both the column and the channel are the first.
Fresh(ks) == IF at.ch = 0 THEN ks ELSE {}
At3(phase) == Running("fconv3d") /\ at.phase = phase
NextPhase(phase, stored) ==
  at' = IF LastChannel THEN [at EXCEPT !.ch = 0, !.phase = phase, !.o = @ + stored]
                       ELSE [at EXCEPT !.ch = @ + 1]
Bumped(rows) == IF LastChannel THEN reg.i + rows ELSE reg.i

Start3d == Start("fconv3d", Strip(0), [acc |-> NoSumsYet, i |-> 0, buf |-> 0], {}, {})

Head4Channel ==
  /\ At3("head4")
  /\ reg' = [reg EXCEPT !.acc = Mac(@, Fresh(1 .. 4), Rows3(4, at.ch), 0), !.i = Bumped(4)]
  /\ Keeps(reg.i .. reg.i + 3)
  /\ NextPhase("head3", 0)
  /\ UNCHANGED <<out, done>>

Head3Channel ==
  LET acc == Mac(reg.acc, Fresh(5 .. 7), Rows3(3, at.ch), 4) IN
  /\ At3("head3")
  /\ reg' = [acc |-> IF LastChannel THEN MovedUp(acc) ELSE acc, i |-> Bumped(3),
             buf |-> IF LastChannel THEN 0 ELSE reg.buf]
  /\ IF LastChannel THEN Stored(acc, {1}) ELSE UNCHANGED out
  /\ Keeps(reg.i .. reg.i + 2)
  /\ NextPhase("unroll0", 1)
  /\ UNCHANGED done

\* The buffers are filled with the next channel's first column, or with the
\* first channel's for the next row.
RegimeChannel ==
  LET acc == Mac(reg.acc, Fresh({7}), Rows3(1, reg.buf), 6) IN
  /\ reg' = [acc |-> IF LastChannel THEN MovedUp(acc) ELSE acc, i |-> Bumped(1),
             buf |-> IF LastChannel THEN 0 ELSE at.ch + 1]
  /\ IF LastChannel THEN Stored(acc, {1}) ELSE UNCHANGED out
  /\ Keeps({reg.i})
  /\ UNCHANGED done

Unroll0Channel ==
  /\ At3("unroll0") /\ at.j < LoopEnd
  /\ RegimeChannel
  /\ NextPhase("unroll1", 1)

Unroll1Channel ==
  /\ At3("unroll1")
  /\ RegimeChannel
  /\ at' = IF LastChannel THEN [at EXCEPT !.ch = 0, !.phase = "unroll0", !.o = @ + 1, !.j = @ + 1]
                          ELSE [at EXCEPT !.ch = @ + 1]

Tail4Channel ==
  LET acc == Mac(reg.acc, Fresh({7}), Rows3(4, at.ch), 6) IN
  /\ \/ At3("unroll0") /\ at.j >= LoopEnd
     \/ At3("tail4")
  /\ reg' = [reg EXCEPT !.acc = acc, !.i = Bumped(4)]
  /\ IF LastChannel THEN Stored(acc, 1 .. 4) ELSE UNCHANGED out
  /\ Keeps(reg.i .. reg.i + 3)
  /\ at' = IF LastChannel THEN [at EXCEPT !.ch = 0, !.phase = "tail3", !.o = @ + 4]
                          ELSE [at EXCEPT !.ch = @ + 1, !.phase = "tail4"]
  /\ UNCHANGED done

Tail3Channel ==
  LET acc == Mac(reg.acc, {}, Rows3(3, at.ch), 10) IN
  /\ At3("tail3")
  /\ Keeps(reg.i .. reg.i + 2)
  /\ IF LastChannel
     THEN /\ Stored(acc, 5 .. 7)
          /\ at' = Strip(NextStrip)
          /\ reg' = [reg EXCEPT !.acc = acc, !.i = 0]
          /\ done' = (NextStrip >= job.C)
     ELSE /\ at' = [at EXCEPT !.ch = @ + 1]
          /\ reg' = [reg EXCEPT !.acc = acc]
          /\ UNCHANGED <<out, done>>

Result3d == UNION {Row7(r, SetToBag({[from |-> Read3(r + p[1], p[2], p[2]), tap |-> p[1]] :
                      p \in (0 .. 6) \X (0 .. job.CH - 1)})) : r \in 0 .. job.R - 1}
-----------------------------------------------------------------------------
ConvStart == Start3x3 \/ Start5x5 \/ Start7x7 \/ Start3d

ConvNext ==
  \/ Block3x3 \/ Block5x5
  \/ Head4 \/ Head3 \/ Unroll0 \/ Unroll1 \/ Tail4 \/ Tail3
  \/ Head4Channel \/ Head3Channel \/ Unroll0Channel \/ Unroll1Channel
  \/ Tail4Channel \/ Tail3Channel

ConvResult ==
  CASE job.kernel = "fconv2d_3x3" -> WindowResult(3)
    [] job.kernel = "iconv2d_5x5" -> WindowResult(5)
    [] job.kernel = "fconv2d_7x7" -> Result7x7
    [] job.kernel = "fconv3d" -> Result3d

ConvRows ==
  CASE job.kernel = "fconv2d_3x3" -> job.R + 2
    [] job.kernel = "iconv2d_5x5" -> job.R + 4
    [] OTHER -> job.R + 6
=============================================================================
