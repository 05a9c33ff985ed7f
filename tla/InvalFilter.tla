---------------------------- MODULE InvalFilter ----------------------------
(***************************************************************************)
(* The AXI invalidation filter between Ara's memory port and the L2        *)
(* (hardware/src/axi_inval_filter.sv).  It lets every AXI channel through, *)
(* remembers the write bursts it lets through in a fall-through FIFO and   *)
(* asks the scalar core's L1 to invalidate every line those bursts touch.  *)
(*                                                                         *)
(* One step is one clock cycle.  An AW is its byte address and the number  *)
(* of bytes of the burst, (len + 1) << size; a cycle in which no AW is     *)
(* handshaken, or in which the filter is disabled (en_i = 0), brings       *)
(* NoBurst.                                                                *)
(***************************************************************************)
EXTENDS Naturals, Sequences

CONSTANTS
  MaxTxns,    \* depth of the AW FIFO
  LineBytes,  \* L1LineWidth: bytes of an L1 line
  NumSets,    \* sets of the L1; inv_cnt has clog2(NumSets) bits
  Bursts,     \* the write bursts that may arrive: [addr, bytes]
  NoBurst     \* no AW is pushed in this cycle

ASSUME MaxTxnsAssumption == MaxTxns \in Nat \ {0}
ASSUME LineBytesAssumption == LineBytes \in Nat \ {0}
ASSUME NumSetsAssumption == NumSets \in Nat \ {0, 1}
ASSUME BurstsAssumption ==
  /\ Bursts \subseteq [addr : Nat, bytes : Nat \ {0}]
  /\ NoBurst \notin Bursts

VARIABLES
  state,   \* state_q
  fifo,    \* i_aw_fifo
  offset,  \* inval_offset_q
  cnt,     \* inv_cnt_q
  \* History variables, which no action reads to decide anything:
  owed,       \* lines written by an accepted burst and not invalidated since
  swept,      \* sets invalidated since the filter last left Invalidated
  shortcut    \* Invalidated has been entered at least once

hist == <<owed, swept, shortcut>>
vars == <<state, fifo, offset, cnt, owed, swept, shortcut>>

\* fall-through: an arriving AW is visible in the cycle that brings it
Visible(aw) == IF aw = NoBurst THEN fifo ELSE Append(fifo, aw)

CanArriveLate(aw) == aw = NoBurst \/ Len(fifo) <= MaxTxns  \* mutant: full, off by one
\* aw_fifo_full refuses the AW on both sides of the filter
CanArrive(aw) == aw = NoBurst \/ Len(fifo) < MaxTxns

LineOf(a) == a \div LineBytes
SetOf(line) == line % NumSets
Lines(b) == LineOf(b.addr) .. LineOf(b.addr + b.bytes - 1)
ToLineEndAligned(b) == LineBytes  \* mutant: forgets that the address may be misaligned
ToLineEnd(b) == LineBytes - (b.addr % LineBytes)
CntPlus1 == (cnt + 1) % NumSets
ForgetPop(q) == q           \* mutant: the redundant burst stays at the head
DropRedundant(q) == Tail(q)

Init ==
  /\ state = "Idle" /\ fifo = <<>> /\ offset = 0 /\ cnt = 0
  /\ owed = {} /\ swept = {} /\ shortcut = FALSE

Owes(aw) == IF aw = NoBurst THEN owed ELSE owed \cup Lines(aw)

\* inval_valid_o and inval_ready_i: the line at inval_addr_o is invalidated
Invalidate(aw, addr) ==
  /\ owed' = Owes(aw) \ {LineOf(addr)}
  /\ swept' = swept \cup {SetOf(LineOf(addr))}

(***************************************************************************)
(* The cycles of the FSM.                                                  *)
(***************************************************************************)

\* Idle or Invalidating with a visible AW and the L1 not ready
WaitForL1(aw) ==
  /\ state # "Invalidated" /\ CanArrive(aw) /\ Visible(aw) # <<>>
  /\ fifo' = Visible(aw) /\ owed' = Owes(aw)
  /\ UNCHANGED <<state, offset, cnt, swept, shortcut>>

\* Idle: the first line of a burst that reaches into further lines
FirstLine(aw) ==
  LET q == Visible(aw) IN
  /\ state = "Idle" /\ CanArrive(aw) /\ q # <<>>
  /\ ToLineEnd(Head(q)) < Head(q).bytes
  /\ state' = "Invalidating" /\ fifo' = q
  /\ offset' = ToLineEnd(Head(q))
  /\ cnt' = CntPlus1
  /\ Invalidate(aw, Head(q).addr + offset)
  /\ UNCHANGED shortcut

\* Idle: the burst lies within one line.  The reset of inv_cnt in this branch
\* is conditional on aw_fifo_empty, which is false here.
OnlyLine(aw) ==
  LET q == Visible(aw) IN
  /\ state = "Idle" /\ CanArrive(aw) /\ q # <<>>
  /\ ToLineEnd(Head(q)) >= Head(q).bytes
  /\ fifo' = Tail(q) /\ cnt' = CntPlus1
  /\ Invalidate(aw, Head(q).addr + offset)
  /\ UNCHANGED <<state, offset, shortcut>>

\* Invalidating: inv_cnt says this was the last set of the cache
AllSetsDone(aw) ==
  LET q == Visible(aw) IN
  /\ state = "Invalidating" /\ CanArrive(aw) /\ q # <<>>
  /\ cnt = NumSets - 1
  /\ state' = "Invalidated" /\ offset' = 0 /\ cnt' = CntPlus1
  /\ fifo' = Tail(q)
  /\ Invalidate(aw, Head(q).addr + offset)
  /\ shortcut' = TRUE

\* Invalidating: the line the offset points at, not the burst's last
NextLine(aw) ==
  LET q == Visible(aw) IN
  /\ state = "Invalidating" /\ CanArrive(aw) /\ q # <<>>
  /\ cnt # NumSets - 1
  /\ offset + LineBytes < Head(q).bytes
  /\ offset' = offset + LineBytes /\ cnt' = CntPlus1
  /\ fifo' = q
  /\ Invalidate(aw, Head(q).addr + offset)
  /\ UNCHANGED <<state, shortcut>>

\* Invalidating: the burst's last line
LastLine(aw) ==
  LET q == Visible(aw) IN
  /\ state = "Invalidating" /\ CanArrive(aw) /\ q # <<>>
  /\ cnt # NumSets - 1
  /\ offset + LineBytes >= Head(q).bytes
  /\ state' = "Idle" /\ offset' = 0 /\ cnt' = CntPlus1
  /\ fifo' = Tail(q)
  /\ Invalidate(aw, Head(q).addr + offset)
  /\ UNCHANGED shortcut

\* Invalidated: inval_valid_o stays high, so the L1 may still take the head's
\* first line (inval), but the burst is popped whether it does or not.
PopRedundant(aw, inval) ==
  LET q == Visible(aw) IN
  /\ state = "Invalidated" /\ CanArrive(aw) /\ q # <<>>
  /\ fifo' = DropRedundant(q)
  /\ IF inval THEN Invalidate(aw, Head(q).addr + offset)
              ELSE owed' = Owes(aw) /\ UNCHANGED swept
  /\ UNCHANGED <<state, offset, cnt, shortcut>>

\* Invalidated and nothing left: start over
BackToIdle ==
  /\ state = "Invalidated" /\ fifo = <<>>
  /\ state' = "Idle" /\ cnt' = 0 /\ offset' = 0
  /\ swept' = {}
  /\ UNCHANGED <<fifo, owed, shortcut>>

\* a cycle in which the L1 accepts an invalidation request
L1Takes(aw) ==
  \/ FirstLine(aw) \/ OnlyLine(aw)
  \/ NextLine(aw) \/ LastLine(aw) \/ AllSetsDone(aw)

Next ==
  \/ \E aw \in Bursts \cup {NoBurst} :
       \/ WaitForL1(aw)
       \/ L1Takes(aw)
       \/ \E inval \in BOOLEAN : PopRedundant(aw, inval)
  \/ BackToIdle

(***************************************************************************)
(* The clock never stops, and the L1's invalidation port is ready again    *)
(* and again: an invalidation is served by the cache's miss unit, which    *)
(* serves it before any refill.                                            *)
(***************************************************************************)
Fairness ==
  /\ WF_vars(\E aw \in Bursts \cup {NoBurst} : L1Takes(aw))
  /\ WF_vars(\E aw \in Bursts \cup {NoBurst}, inval \in BOOLEAN :
               PopRedundant(aw, inval))
  /\ WF_vars(BackToIdle)

Spec == Init /\ [][Next]_vars /\ Fairness

-----------------------------------------------------------------------------
(***************************************************************************)
(* Properties                                                              *)
(***************************************************************************)

\* The types of the registers, and of the history variables the filter keeps.
TypeOK ==
  /\ state \in {"Idle", "Invalidating", "Invalidated"}
  /\ fifo \in Seq(Bursts)
  /\ Len(fifo) <= MaxTxns
  /\ offset \in Nat
  /\ cnt \in 0 .. NumSets - 1
  /\ swept \subseteq 0 .. NumSets - 1
  /\ shortcut \in BOOLEAN

\* The FSM never walks without a burst, and the address it presents while it
\* walks is the first byte of a line inside the burst at the FIFO's head: the
\* filter invalidates no line that nobody wrote (axi_inval_filter.sv:100-127).
WalkInsideHead ==
  /\ state # "Invalidating" => offset = 0
  /\ state = "Invalidating" =>
       /\ fifo # <<>>
       /\ 0 < offset /\ offset < Head(fifo).bytes
       /\ (Head(fifo).addr + offset) % LineBytes = 0

\* Lines the FSM still has to invalidate for the bursts in the FIFO: of the
\* head those from the current offset on, of the others all.
StillQueued ==
  UNION {IF i = 1
           THEN LineOf(fifo[1].addr + offset) .. LineOf(fifo[1].addr + fifo[1].bytes - 1)
           ELSE Lines(fifo[i]) : i \in 1 .. Len(fifo)}

\* Until the all-sets shortcut is taken for the first time, a written line that
\* was not invalidated since is one the FSM will still walk over: no line of a
\* burst is skipped, however arrivals and a busy L1 interleave.
NoLineSkipped == ~shortcut => owed \subseteq StillQueued

\* A full FIFO stalls the write channel of the whole vector unit: it must not
\* stay full.
FullIsTransient == (Len(fifo) = MaxTxns) ~> (Len(fifo) < MaxTxns)

\* axi_inval_filter.sv:118: "If all the sets have been invalidated, go to state
\* Invalidated" -- in Invalidated bursts are dropped without invalidation, which
\* is only sound when every set of the L1 really was invalidated.
InvalidatedMeansAllSets == state = "Invalidated" => swept = 0 .. NumSets - 1
=============================================================================
