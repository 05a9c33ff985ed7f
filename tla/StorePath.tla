------------------------------ MODULE StorePath ------------------------------
(***************************************************************************)
(* The way of unit-stride stores from the address generator to the memory  *)
(* and of the answers back (hardware/src/vlsu/global_ldst.sv and           *)
(* align_stage.sv, wired in ara_cluster.sv).  The global load-store unit   *)
(* cuts a store at page ends and after 256 beats, the align stage counts   *)
(* the pieces of each store and lets only one answer for it through, and   *)
(* the global load-store unit gives that one to all clusters.              *)
(*                                                                         *)
(* An address waits in the cuts when the unit behind is not ready; the     *)
(* length of the store travels beside it through plain registers, which    *)
(* never wait.  A length is counted in pieces, a piece's data is one item. *)
(*                                                                         *)
(* A step is a clock cycle.  Chosen in each: whether the address generator *)
(* takes up the next store, and what the memory does.                      *)
(***************************************************************************)
EXTENDS Naturals, Sequences, FiniteSets, Functions, SequencesExt

CONSTANTS
  Trackers,  \* NumTrackers of the align stage
  FifoDepth, \* entries of the B FIFO
  Live,      \* VstuInsnQueueDepth: stores the clusters have unanswered
  Programs   \* what may run: [lens, gap, prompt, hasty]
             \*   lens:   the lengths of the stores, in pieces
             \*   gap:    idle cycles of the address generator between two stores
             \*   prompt: the memory takes addresses and data as they come
             \*   hasty:  the memory may answer a piece of a store before it has
             \*           taken the addresses of all its pieces

ASSUME SizesAssumption ==
  Trackers \in Nat \ {0, 1} /\ FifoDepth \in Nat \ {0} /\ Live \in Nat \ {0}
ASSUME ProgramsAssumption ==
  Programs \subseteq [lens : Seq(Nat \ {0}), gap : Nat, prompt : BOOLEAN, hasty : BOOLEAN]

VARIABLES
  prog,     \* the stores and the memory
  \* the address generator
  last,     \* the store it has taken up last; 0: none
  vl,       \* axi_addrgen_q.vl_cluster
  asking,   \* it shows the address of the store `last'
  rest,     \* cycles until it can take up another one
  \* to the global load-store unit
  awShuffle, \* i_shuffle_axi_cut: stores
  vlGlsu,   \* cluster_metadata_cut_glsu.vl
  \* the global load-store unit
  wReq,     \* the store in req_q.aw, 0 unless w_req_valid_q
  vlLeft,   \* vl_ldst_wr_q
  pushed,   \* fifo_push_q
  bFifo,    \* entries of i_b_fifo
  \* to the align stage
  awGlobal, \* i_global_axi_cut: stores, one entry per piece
  vlAlign,  \* cluster_metadata_cut_align.vl
  \* the align stage
  wrVl, wrCnt, bTrack, bPnt, bCommitPnt, \* *_q
  \* the memory and the clusters
  taken,    \* the pieces whose addresses the memory has got, by their stores
  answered, \* how many of them it has answered
  done      \* how many stores have been reported as done to the clusters

addrgenVars == <<last, vl, asking, rest>>
vars == <<prog, last, vl, asking, rest, awShuffle, vlGlsu, wReq, vlLeft, pushed, bFifo,
          awGlobal, vlAlign, wrVl, wrCnt, bTrack, bPnt, bCommitPnt, taken, answered, done>>

Entries == 0 .. Trackers - 1
HasRoom(q) == Len(q) < 2
OneIf(b) == IF b THEN 1 ELSE 0
\* How many of the pieces q are of store n.
Count(q, n) == Cardinality({k \in DOMAIN q : q[k] = n})

Init ==
  /\ prog \in Programs
  /\ last = 0 /\ vl = 0 /\ asking = FALSE /\ rest = 0
  /\ awShuffle = <<>> /\ vlGlsu = 0
  /\ wReq = 0 /\ vlLeft = 0 /\ pushed = FALSE /\ bFifo = 0
  /\ awGlobal = <<>> /\ vlAlign = 0
  /\ wrVl = 0 /\ wrCnt = 0 /\ bTrack = [k \in Entries |-> 0] /\ bPnt = 0 /\ bCommitPnt = 0
  /\ taken = <<>> /\ answered = 0 /\ done = 0
-----------------------------------------------------------------------------
(* The address generator.                                                   *)

CanTakeUp == ~asking /\ rest = 0 /\ last < Len(prog.lens) /\ last - done < Live
Asks == asking /\ HasRoom(awShuffle)

AddressGenerator(takeUp) ==
  /\ takeUp => CanTakeUp
  /\ last' = last + OneIf(takeUp)
  /\ vl' = IF takeUp THEN prog.lens[last + 1] ELSE vl
  /\ asking' = (takeUp \/ (asking /\ ~Asks))
  /\ rest' = IF Asks THEN prog.gap ELSE IF rest > 0 THEN rest - 1 ELSE 0
  /\ UNCHANGED prog

(* AXI AW of the global load-store unit.                                    *)

\* mutant: not held back while a store is being cut
AcceptsStoreAlways == awShuffle # <<>>
\* w_req_ready: no store is being cut
AcceptsStore == wReq = 0 /\ awShuffle # <<>>
Store == IF AcceptsStore THEN Head(awShuffle) ELSE wReq
\* vl_ldst_wr_d: what is left of the store that is being cut
Left == IF AcceptsStore /\ vlLeft = 0 THEN vlGlsu ELSE vlLeft
SendsPiece == Store # 0 /\ HasRoom(awGlobal)
LastPiece == SendsPiece /\ Left <= 1
\* mutant: an entry for every piece
PushesEach == SendsPiece
\* b_fifo_push_i: with the first piece
PushesB == SendsPiece /\ ~pushed

WriteRequests ==
  /\ awShuffle' = (IF AcceptsStore THEN Tail(awShuffle) ELSE awShuffle)
                  \o (IF Asks THEN <<last>> ELSE <<>>)
  /\ wReq' = IF LastPiece THEN 0 ELSE Store
  /\ vlLeft' = IF LastPiece THEN 0 ELSE IF SendsPiece THEN Left - 1 ELSE Left
  /\ pushed' = IF SendsPiece THEN ~LastPiece ELSE pushed

(* The align stage.                                                         *)

\* mutant: without a look at the trackers
TakesPieceLate(mem) == awGlobal # <<>> /\ mem.addr
\* aw_ready: the memory's, and a free tracker
TakesPiece(mem) == awGlobal # <<>> /\ mem.addr /\ wrCnt < Trackers
\* the store's last piece, judging by the length in the metadata
ClosesStore == wrVl + 1 >= vlAlign
Supplied == FoldLeft(LAMBDA sum, k : sum + prog.lens[k], 0,
                     [k \in 1 .. last - OneIf(asking) |-> k])
\* the data of a piece passes: blocked while no tracker is in use
TakesData(mem) == wrCnt > 0 /\ mem.data /\ Len(taken) - wrCnt < Supplied

\* mutant: every answer is let through
EachThrough(mem) == mem.answer
\* only the last of a store's answers is let through
LetThrough(mem) == mem.answer /\ bTrack[bCommitPnt] = 1

Align(mem) ==
  LET closes == TakesPiece(mem) /\ ClosesStore
      counted == IF TakesPiece(mem) THEN [bTrack EXCEPT ![bPnt] = (@ + 1) % (2 * Trackers)]
                                    ELSE bTrack
  IN /\ wrVl' = IF closes THEN 0 ELSE wrVl + OneIf(TakesPiece(mem))
     /\ bPnt' = IF closes THEN (bPnt + 1) % Trackers ELSE bPnt
     /\ wrCnt' = wrCnt + OneIf(TakesPiece(mem)) - OneIf(TakesData(mem))
     /\ bTrack' = IF mem.answer
                  THEN [counted EXCEPT ![bCommitPnt] = (@ + 2 * Trackers - 1) % (2 * Trackers)]
                  ELSE counted
     /\ bCommitPnt' = IF LetThrough(mem) THEN (bCommitPnt + 1) % Trackers ELSE bCommitPnt

(* AXI B of the global load-store unit: to all clusters.                    *)

Reports(mem) == LetThrough(mem) /\ bFifo > 0
WriteResponses(mem) ==
  /\ bFifo' = bFifo + OneIf(PushesB /\ bFifo < FifoDepth) - OneIf(Reports(mem))
  /\ done' = done + OneIf(Reports(mem))

(* The memory answers in order, and a piece after its data.                 *)

MayAnswer ==
  /\ answered < Len(taken) - wrCnt
  /\ prog.hasty \/ Count(taken, taken[answered + 1]) = prog.lens[taken[answered + 1]]
Memory(mem) ==
  /\ mem.answer => MayAnswer
  /\ prog.prompt => mem.addr /\ mem.data
  /\ taken' = IF TakesPiece(mem) THEN Append(taken, Head(awGlobal)) ELSE taken
  /\ answered' = answered + OneIf(mem.answer)

Registers(mem) ==
  /\ vlGlsu' = vl
  /\ vlAlign' = vlGlsu
  /\ awGlobal' = (IF TakesPiece(mem) THEN Tail(awGlobal) ELSE awGlobal)
                 \o (IF SendsPiece THEN <<Store>> ELSE <<>>)

Cycle(takeUp, mem) ==
  /\ AddressGenerator(takeUp)
  /\ WriteRequests /\ Registers(mem)
  /\ Align(mem) /\ WriteResponses(mem)
  /\ Memory(mem)

MemoryMoves == [addr : BOOLEAN, data : BOOLEAN, answer : BOOLEAN]
Next == \E takeUp \in BOOLEAN, mem \in MemoryMoves : Cycle(takeUp, mem)
Spec == Init /\ [][Next]_vars

\* The program goes on, and the memory takes and answers what it is given.
Does(P(_)) == \E takeUp \in BOOLEAN, mem \in MemoryMoves : P(mem) /\ Cycle(takeUp, mem)
Fairness ==
  /\ WF_vars(Next) /\ WF_vars(\E mem \in MemoryMoves : Cycle(TRUE, mem))
  /\ SF_vars(Does(TakesPiece)) /\ SF_vars(Does(TakesData))
  /\ SF_vars(Does(LAMBDA mem : mem.answer))
FairSpec == Spec /\ Fairness
-----------------------------------------------------------------------------
TypeOK ==
  /\ prog \in Programs
  /\ last \in 0 .. Len(prog.lens) /\ vl \in Nat /\ asking \in BOOLEAN /\ rest \in 0 .. prog.gap
  /\ awShuffle \in Seq(1 .. last) /\ Len(awShuffle) <= 2 /\ vlGlsu \in Nat
  /\ wReq \in 0 .. last /\ vlLeft \in Nat /\ pushed \in BOOLEAN /\ bFifo \in 0 .. FifoDepth
  /\ awGlobal \in Seq(1 .. last) /\ Len(awGlobal) <= 2 /\ vlAlign \in Nat
  /\ wrVl \in Nat /\ wrCnt \in 0 .. Trackers /\ bTrack \in [Entries -> 0 .. 2 * Trackers - 1]
  /\ bPnt \in Entries /\ bCommitPnt \in Entries
  /\ taken \in Seq(1 .. last) /\ answered \in 0 .. Len(taken) /\ done \in 0 .. last

AnsweredPieces(n) == Count(SubSeq(taken, 1, answered), n)

(* A store is reported as done with the last of its answers, not before and *)
(* not for another store: the align stage's count is right although pieces  *)
(* of the store are still being cut and later stores follow                 *)
(* (align_stage.sv:478-486).                                                *)
DoneWithTheLastAnswer ==
  \A n \in 1 .. Len(prog.lens) : n <= done <=> AnsweredPieces(n) = prog.lens[n]

(* Every store is cut into the pieces of its own length, although the       *)
(* length beside the address is not held while the address waits            *)
(* (global_ldst.sv:82-86, 266-270).                                         *)
CutByItsOwnLength ==
  LET sent == taken \o awGlobal IN
  /\ \A k \in 1 .. Len(sent) - 1 : sent[k + 1] \in {sent[k], sent[k] + 1}
  /\ \A n \in 1 .. last :
       IF n = wReq THEN Count(sent, n) < prog.lens[n]
       ELSE Count(sent, n) \in {0, prog.lens[n]}

(* Every store is answered: no entry of the B FIFO is missing or left over. *)
EveryStoreIsAnswered ==
  <>[](done = Len(prog.lens) /\ bFifo = 0 /\ answered = Len(taken))
=============================================================================
