------------------------ MODULE InvalFilter_proofs ------------------------
(***************************************************************************)
(* What holds of the invalidation filter for every FIFO depth, line size,  *)
(* number of sets and set of bursts.                                       *)
(***************************************************************************)
EXTENDS InvalFilter, DivModLemmas, TLAPS

\* Appending to or popping from the FIFO keeps it a FIFO of at most MaxTxns
\* bursts (the push is guarded by aw_fifo_full, the pop by its being visible).
LEMMA FifoLemma ==
  ASSUME fifo \in Seq(Bursts), Len(fifo) <= MaxTxns,
         NEW aw \in Bursts \cup {NoBurst}, CanArrive(aw)
  PROVE  /\ Visible(aw) \in Seq(Bursts)
         /\ Len(Visible(aw)) <= MaxTxns
         /\ Visible(aw) # <<>> => /\ Head(Visible(aw)) \in Bursts
                                  /\ Tail(Visible(aw)) \in Seq(Bursts)
                                  /\ Len(Tail(Visible(aw))) <= MaxTxns
         /\ fifo # <<>> => Visible(aw) # <<>> /\ Head(Visible(aw)) = Head(fifo)
<1>1. CASE aw = NoBurst
  BY <1>1, MaxTxnsAssumption DEF Visible
<1>2. CASE aw # NoBurst
  BY <1>2, MaxTxnsAssumption DEF Visible, CanArrive
<1>3. QED
  BY <1>1, <1>2

LEMMA CntLemma ==
  ASSUME cnt \in 0 .. NumSets - 1
  PROVE  CntPlus1 \in 0 .. NumSets - 1
BY NumSetsAssumption DEF CntPlus1

LEMMA SetLemma ==
  ASSUME NEW a \in Nat
  PROVE  SetOf(LineOf(a)) \in 0 .. NumSets - 1
<1>1. LineOf(a) \in Nat
  BY LineBytesAssumption DEF LineOf
<1>2. QED
  BY <1>1, NumSetsAssumption DEF SetOf

LEMMA LineEndLemma ==
  ASSUME NEW b \in Bursts
  PROVE  /\ b.addr \in Nat /\ b.bytes \in Nat \ {0}
         /\ ToLineEnd(b) \in 1 .. LineBytes
<1>1. b.addr \in Nat /\ b.bytes \in Nat \ {0}
  BY BurstsAssumption
<1>2. b.addr % LineBytes \in 0 .. LineBytes - 1
  BY <1>1, LineBytesAssumption
<1>3. QED
  BY <1>1, <1>2, LineBytesAssumption DEF ToLineEnd

\* An accepted invalidation touches one of the cache's sets.
LEMMA InvalidateLemma ==
  ASSUME offset \in Nat, swept \subseteq 0 .. NumSets - 1,
         NEW aw \in Bursts \cup {NoBurst}, NEW b \in Bursts,
         Invalidate(aw, b.addr + offset)
  PROVE  swept' \subseteq 0 .. NumSets - 1
<1>1. b.addr + offset \in Nat
  BY LineEndLemma
<1>2. SetOf(LineOf(b.addr + offset)) \in 0 .. NumSets - 1
  BY <1>1, SetLemma
<1>3. QED
  BY <1>2 DEF Invalidate

LEMMA TypeInit == Init => TypeOK
<1> SUFFICES ASSUME Init PROVE TypeOK
  OBVIOUS
<1>1. fifo \in Seq(Bursts) /\ Len(fifo) <= MaxTxns
  BY MaxTxnsAssumption DEF Init
<1>2. cnt \in 0 .. NumSets - 1 /\ offset \in Nat
  BY NumSetsAssumption DEF Init
<1>3. QED
  BY <1>1, <1>2 DEF Init, TypeOK

LEMMA TypeNext == TypeOK /\ [Next]_vars => TypeOK'
<1> SUFFICES ASSUME TypeOK, [Next]_vars PROVE TypeOK'
  OBVIOUS
<1> USE DEF TypeOK
<1>1. ASSUME NEW aw \in Bursts \cup {NoBurst}, WaitForL1(aw) PROVE TypeOK'
  BY <1>1, FifoLemma DEF WaitForL1
<1>2. ASSUME NEW aw \in Bursts \cup {NoBurst}, FirstLine(aw) PROVE TypeOK'
  <2>1. /\ Visible(aw) # <<>> /\ Head(Visible(aw)) \in Bursts
        /\ Visible(aw) \in Seq(Bursts) /\ Len(Visible(aw)) <= MaxTxns
    BY <1>2, FifoLemma DEF FirstLine
  <2>2. offset' \in Nat
    BY <1>2, <2>1, LineEndLemma, LineBytesAssumption DEF FirstLine
  <2>3. swept' \subseteq 0 .. NumSets - 1
    BY <1>2, <2>1, InvalidateLemma DEF FirstLine
  <2>4. QED
    BY <1>2, <2>1, <2>2, <2>3, CntLemma DEF FirstLine
<1>3. ASSUME NEW aw \in Bursts \cup {NoBurst}, OnlyLine(aw) PROVE TypeOK'
  <2>1. /\ Visible(aw) # <<>> /\ Head(Visible(aw)) \in Bursts
        /\ Tail(Visible(aw)) \in Seq(Bursts) /\ Len(Tail(Visible(aw))) <= MaxTxns
    BY <1>3, FifoLemma DEF OnlyLine
  <2>2. swept' \subseteq 0 .. NumSets - 1
    BY <1>3, <2>1, InvalidateLemma DEF OnlyLine
  <2>3. QED
    BY <1>3, <2>1, <2>2, CntLemma DEF OnlyLine
<1>4. ASSUME NEW aw \in Bursts \cup {NoBurst}, NextLine(aw) PROVE TypeOK'
  <2>1. /\ Visible(aw) # <<>> /\ Head(Visible(aw)) \in Bursts
        /\ Visible(aw) \in Seq(Bursts) /\ Len(Visible(aw)) <= MaxTxns
    BY <1>4, FifoLemma DEF NextLine
  <2>2. offset' \in Nat
    BY <1>4, LineBytesAssumption DEF NextLine
  <2>3. swept' \subseteq 0 .. NumSets - 1
    BY <1>4, <2>1, InvalidateLemma DEF NextLine
  <2>4. QED
    BY <1>4, <2>1, <2>2, <2>3, CntLemma DEF NextLine
<1>5. ASSUME NEW aw \in Bursts \cup {NoBurst}, LastLine(aw) PROVE TypeOK'
  <2>1. /\ Visible(aw) # <<>> /\ Head(Visible(aw)) \in Bursts
        /\ Tail(Visible(aw)) \in Seq(Bursts) /\ Len(Tail(Visible(aw))) <= MaxTxns
    BY <1>5, FifoLemma DEF LastLine
  <2>2. swept' \subseteq 0 .. NumSets - 1
    BY <1>5, <2>1, InvalidateLemma DEF LastLine
  <2>3. QED
    BY <1>5, <2>1, <2>2, CntLemma DEF LastLine
<1>6. ASSUME NEW aw \in Bursts \cup {NoBurst}, AllSetsDone(aw) PROVE TypeOK'
  <2>1. /\ Visible(aw) # <<>> /\ Head(Visible(aw)) \in Bursts
        /\ Tail(Visible(aw)) \in Seq(Bursts) /\ Len(Tail(Visible(aw))) <= MaxTxns
    BY <1>6, FifoLemma DEF AllSetsDone
  <2>2. swept' \subseteq 0 .. NumSets - 1
    BY <1>6, <2>1, InvalidateLemma DEF AllSetsDone
  <2>3. QED
    BY <1>6, <2>1, <2>2, CntLemma DEF AllSetsDone
<1>7. ASSUME NEW aw \in Bursts \cup {NoBurst}, NEW inval \in BOOLEAN,
             PopRedundant(aw, inval)
      PROVE  TypeOK'
  <2>1. /\ Visible(aw) # <<>> /\ Head(Visible(aw)) \in Bursts
        /\ Tail(Visible(aw)) \in Seq(Bursts) /\ Len(Tail(Visible(aw))) <= MaxTxns
    BY <1>7, FifoLemma DEF PopRedundant
  <2>2. swept' \subseteq 0 .. NumSets - 1
    BY <1>7, <2>1, InvalidateLemma DEF PopRedundant
  <2>3. QED
    BY <1>7, <2>1, <2>2 DEF PopRedundant, DropRedundant
<1>8. CASE BackToIdle
  BY <1>8, NumSetsAssumption DEF BackToIdle
<1>9. CASE UNCHANGED vars
  BY <1>9 DEF vars
<1>10. QED
  BY <1>1, <1>2, <1>3, <1>4, <1>5, <1>6, <1>7, <1>8, <1>9 DEF Next, L1Takes

\* Type correctness of the filter: the FIFO never holds more than MaxTxns
\* bursts and the counter never leaves the sets of the L1.
THEOREM TypeCorrect == Spec => []TypeOK
BY TypeInit, TypeNext, PTL DEF Spec

-----------------------------------------------------------------------------
(***************************************************************************)
(* The walk over a burst.                                                  *)
(***************************************************************************)

\* From the start of the walk to the line's end, and from one line to the next.
LEMMA NextLineLemma ==
  ASSUME NEW b \in Bursts, NEW off \in Nat
  PROVE  /\ (b.addr + ToLineEnd(b)) % LineBytes = 0
         /\ LineOf(b.addr + ToLineEnd(b)) = LineOf(b.addr) + 1
         /\ (b.addr + (off + LineBytes)) % LineBytes = (b.addr + off) % LineBytes
         /\ LineOf(b.addr + (off + LineBytes)) = LineOf(b.addr + off) + 1
<1>1. b.addr \in Nat /\ b.addr + off \in Nat
  BY LineEndLemma
<1>2. /\ (b.addr + (LineBytes - (b.addr % LineBytes))) % LineBytes = 0
      /\ (b.addr + (LineBytes - (b.addr % LineBytes))) \div LineBytes
           = (b.addr \div LineBytes) + 1
  BY <1>1, LineBytesAssumption, ToNextMultiple
<1>3. /\ ((b.addr + off) + LineBytes) \div LineBytes = ((b.addr + off) \div LineBytes) + 1
      /\ ((b.addr + off) + LineBytes) % LineBytes = (b.addr + off) % LineBytes
  BY <1>1, LineBytesAssumption, DivModPlusDivisor
<1>4. b.addr + (off + LineBytes) = (b.addr + off) + LineBytes
  BY <1>1, LineBytesAssumption
<1>5. QED
  BY <1>2, <1>3, <1>4 DEF ToLineEnd, LineOf

LEMMA WalkNext == TypeOK /\ WalkInsideHead /\ [Next]_vars => WalkInsideHead'
<1> SUFFICES ASSUME TypeOK, WalkInsideHead, [Next]_vars PROVE WalkInsideHead'
  OBVIOUS
<1>1. /\ fifo \in Seq(Bursts) /\ Len(fifo) <= MaxTxns /\ offset \in Nat
      /\ state \in {"Idle", "Invalidating", "Invalidated"}
  BY DEF TypeOK
<1>2. ASSUME NEW aw \in Bursts \cup {NoBurst}, WaitForL1(aw) PROVE WalkInsideHead'
  <2>1. fifo' = Visible(aw) /\ state' = state /\ offset' = offset
    BY <1>2 DEF WaitForL1
  <2>2. fifo # <<>> => Visible(aw) # <<>> /\ Head(Visible(aw)) = Head(fifo)
    BY <1>1, <1>2, FifoLemma DEF WaitForL1
  <2>3. QED
    BY <2>1, <2>2 DEF WalkInsideHead
<1>3. ASSUME NEW aw \in Bursts \cup {NoBurst}, FirstLine(aw) PROVE WalkInsideHead'
  <2> DEFINE b == Head(Visible(aw))
  <2>1. Visible(aw) # <<>> /\ b \in Bursts
    BY <1>1, <1>3, FifoLemma DEF FirstLine
  <2>2. /\ fifo' = Visible(aw) /\ state' = "Invalidating"
        /\ offset' = ToLineEnd(b) /\ ToLineEnd(b) < b.bytes
    BY <1>3 DEF FirstLine
  <2> HIDE DEF b
  <2>3. 0 < ToLineEnd(b) /\ (b.addr + ToLineEnd(b)) % LineBytes = 0
    <3>1. (b.addr + ToLineEnd(b)) % LineBytes = 0
      BY <2>1, 0 \in Nat, NextLineLemma
    <3>2. QED
      BY <2>1, <3>1, LineEndLemma, LineBytesAssumption
  <2>4. QED
    BY <2>1, <2>2, <2>3 DEF WalkInsideHead, b
<1>4. ASSUME NEW aw \in Bursts \cup {NoBurst}, NextLine(aw) PROVE WalkInsideHead'
  <2> DEFINE b == Head(fifo)
  <2>1. state = "Invalidating" /\ fifo # <<>> /\ (b.addr + offset) % LineBytes = 0
    BY <1>4 DEF NextLine, WalkInsideHead
  <2>2. b \in Bursts /\ Visible(aw) # <<>> /\ Head(Visible(aw)) = b
    BY <1>1, <1>4, <2>1, FifoLemma DEF NextLine
  <2>3. /\ fifo' = Visible(aw) /\ state' = "Invalidating"
        /\ offset' = offset + LineBytes /\ offset + LineBytes < b.bytes
    BY <1>4, <2>1, <2>2 DEF NextLine
  <2> HIDE DEF b
  <2>4. (b.addr + offset') % LineBytes = 0 /\ 0 < offset'
    <3>1. (b.addr + (offset + LineBytes)) % LineBytes = 0
      BY <1>1, <2>1, <2>2, NextLineLemma
    <3>2. QED
      BY <1>1, <2>3, <3>1, LineBytesAssumption
  <2>5. Head(fifo') = b /\ fifo' # <<>>
    BY <2>2, <2>3
  <2>6. QED
    BY <2>3, <2>4, <2>5 DEF WalkInsideHead
<1>5. ASSUME NEW aw \in Bursts \cup {NoBurst},
             OnlyLine(aw) \/ LastLine(aw) \/ AllSetsDone(aw)
                          \/ \E inval \in BOOLEAN : PopRedundant(aw, inval)
      PROVE  WalkInsideHead'
  \* the walk is over, or none has begun
  <2>1. state' # "Invalidating" /\ offset' = 0
    BY <1>5 DEF OnlyLine, LastLine, AllSetsDone, PopRedundant, WalkInsideHead
  <2>2. QED
    BY <2>1 DEF WalkInsideHead
<1>6. CASE BackToIdle
  BY <1>6 DEF BackToIdle, WalkInsideHead
<1>7. CASE UNCHANGED vars
  BY <1>7 DEF vars, WalkInsideHead
<1>8. QED
  BY <1>2, <1>3, <1>4, <1>5, <1>6, <1>7 DEF Next, L1Takes

\* The address the filter presents to the L1 while it walks is the first byte
\* of a line inside the burst at the FIFO's head, for every line size and every
\* alignment and length of the burst (axi_inval_filter.sv:100-127).
THEOREM WalkStaysInside == Spec => []WalkInsideHead
<1>1. Init => WalkInsideHead
  BY DEF Init, WalkInsideHead
<1>2. QED
  BY <1>1, TypeInit, TypeNext, WalkNext, PTL DEF Spec

-----------------------------------------------------------------------------
(***************************************************************************)
(* No line is skipped.                                                     *)
(***************************************************************************)

\* The lines of burst b from offset off on, and those of a queue whose head
\* has been walked up to off.
LinesFrom(b, off) == LineOf(b.addr + off) .. LineOf(b.addr + b.bytes - 1)
QueuedFrom(q, off) ==
  UNION {IF i = 1 THEN LinesFrom(q[1], off) ELSE Lines(q[i]) : i \in 1 .. Len(q)}

LEMMA LineType ==
  ASSUME NEW b \in Bursts, NEW off \in Nat
  PROVE  /\ b.addr + off \in Nat /\ b.addr + b.bytes - 1 \in Nat
         /\ LineOf(b.addr + off) \in Nat /\ LineOf(b.addr + b.bytes - 1) \in Nat
         /\ Lines(b) = LinesFrom(b, 0)
<1>1. b.addr \in Nat /\ b.bytes \in Nat \ {0}
  BY LineEndLemma
<1>2. \A a \in Nat : LineOf(a) \in Nat
  BY LineBytesAssumption DEF LineOf
<1>3. b.addr + off \in Nat /\ b.addr + b.bytes - 1 \in Nat /\ b.addr + 0 = b.addr
  BY <1>1
<1>4. Lines(b) = LinesFrom(b, 0)
  BY <1>3 DEF Lines, LinesFrom
<1>5. QED
  BY <1>2, <1>3, <1>4

\* A burst that arrives adds its lines and takes none away.
LEMMA PushLines ==
  ASSUME fifo \in Seq(Bursts), NEW aw \in Bursts \cup {NoBurst}, NEW off \in Nat,
         fifo = <<>> => off = 0, owed \subseteq QueuedFrom(fifo, off)
  PROVE  Owes(aw) \subseteq QueuedFrom(Visible(aw), off)
<1>1. CASE aw = NoBurst
  BY <1>1 DEF Owes, Visible
<1>2. CASE aw # NoBurst
  <2> DEFINE q == Append(fifo, aw)
  <2>1. aw \in Bursts /\ Visible(aw) = q /\ Owes(aw) = owed \cup Lines(aw)
    BY <1>2 DEF Visible, Owes
  <2>2. /\ Len(q) = Len(fifo) + 1 /\ Len(fifo) \in Nat /\ q[Len(q)] = aw
        /\ \A i \in 1 .. Len(fifo) : q[i] = fifo[i]
    BY <2>1
  <2> HIDE DEF q
  <2>3. ASSUME NEW x \in QueuedFrom(fifo, off) PROVE x \in QueuedFrom(q, off)
    <3>1. PICK i \in 1 .. Len(fifo) :
            x \in (IF i = 1 THEN LinesFrom(fifo[1], off) ELSE Lines(fifo[i]))
      BY DEF QueuedFrom
    <3>2. i \in 1 .. Len(q) /\ q[i] = fifo[i]
      BY <2>2, <3>1
    <3>3. QED
      BY <3>1, <3>2 DEF QueuedFrom
  <2>4. ASSUME NEW x \in Lines(aw) PROVE x \in QueuedFrom(q, off)
    <3> DEFINE n == Len(q)
    <3>1. n \in 1 .. Len(q) /\ q[n] = aw
      BY <2>2
    <3>2. CASE n = 1
      <4>1. off = 0
        <5>1. Len(q) = 1 /\ Len(q) = Len(fifo) + 1 /\ Len(fifo) \in Nat
          BY <2>2, <3>2
        <5>2. Len(fifo) = 0
          BY <5>1
        <5>3. QED
          BY <5>2
      <4>2. x \in LinesFrom(q[1], off)
        BY <2>1, <2>4, <3>1, <3>2, <4>1, LineType
      <4>3. QED
        BY <3>1, <3>2, <4>2 DEF QueuedFrom
    <3>3. CASE n # 1
      BY <2>4, <3>1, <3>3 DEF QueuedFrom
    <3>4. QED
      BY <3>2, <3>3
  <2>5. QED
    BY <2>1, <2>3, <2>4
<1>3. QED
  BY <1>1, <1>2

\* A burst that leaves takes only its own lines away.
LEMMA PopLines ==
  ASSUME NEW q \in Seq(Bursts), q # <<>>, NEW off \in Nat
  PROVE  QueuedFrom(q, off) \subseteq LinesFrom(Head(q), off) \cup QueuedFrom(Tail(q), 0)
<1> SUFFICES ASSUME NEW x \in QueuedFrom(q, off), x \notin LinesFrom(Head(q), off)
             PROVE  x \in QueuedFrom(Tail(q), 0)
  OBVIOUS
<1>1. PICK i \in 1 .. Len(q) : x \in (IF i = 1 THEN LinesFrom(q[1], off) ELSE Lines(q[i]))
  BY DEF QueuedFrom
<1>2. i # 1 /\ x \in Lines(q[i])
  BY <1>1
<1> DEFINE t == Tail(q)
           j == i - 1
<1>3. j \in 1 .. Len(t) /\ t[j] = q[i] /\ t[j] \in Bursts
  BY <1>1, <1>2
<1> HIDE DEF t, j
<1>4. x \in LinesFrom(t[j], 0)
  BY <1>2, <1>3, LineType
<1>5. x \in (IF j = 1 THEN LinesFrom(t[1], 0) ELSE Lines(t[j]))
  BY <1>2, <1>3, <1>4
<1>6. x \in QueuedFrom(t, 0)
  BY <1>3, <1>5 DEF QueuedFrom
<1>7. QED
  BY <1>6 DEF t

\* A step of the walk by one line takes only that line away.
LEMMA WalkLines ==
  ASSUME NEW q \in Seq(Bursts), q # <<>>, NEW off \in Nat, NEW next \in Nat,
         LineOf(Head(q).addr + next) = LineOf(Head(q).addr + off) + 1
  PROVE  QueuedFrom(q, off) \subseteq {LineOf(Head(q).addr + off)} \cup QueuedFrom(q, next)
<1> SUFFICES ASSUME NEW x \in QueuedFrom(q, off), x # LineOf(Head(q).addr + off)
             PROVE  x \in QueuedFrom(q, next)
  OBVIOUS
<1>1. PICK i \in 1 .. Len(q) : x \in (IF i = 1 THEN LinesFrom(q[1], off) ELSE Lines(q[i]))
  BY DEF QueuedFrom
<1>2. CASE i # 1
  BY <1>1, <1>2 DEF QueuedFrom
<1>3. CASE i = 1
  <2>1. Head(q) \in Bursts /\ Head(q) = q[1]
    OBVIOUS
  <2>2. LineOf(Head(q).addr + off) \in Nat /\ LineOf(Head(q).addr + Head(q).bytes - 1) \in Nat
    BY <2>1, LineType
  <2>3. x \in LinesFrom(q[1], next)
    BY <1>1, <1>3, <2>1, <2>2 DEF LinesFrom
  <2>4. QED
    BY <1>1, <1>3, <2>3 DEF QueuedFrom
<1>4. QED
  BY <1>2, <1>3

\* The last line of a burst is the one the walk stands on.
LEMMA LastLines ==
  ASSUME NEW b \in Bursts, NEW off \in Nat,
         \/ off = 0 /\ ToLineEnd(b) >= b.bytes
         \/ (b.addr + off) % LineBytes = 0 /\ off + LineBytes >= b.bytes
  PROVE  LinesFrom(b, off) \subseteq {LineOf(b.addr + off)}
<1> DEFINE end == b.addr + b.bytes - 1
<1>1. /\ b.addr \in Nat /\ b.bytes \in Nat \ {0} /\ end \in Nat
      /\ LineOf(b.addr + off) \in Nat /\ LineOf(end) \in Nat
  BY LineEndLemma, LineType
<1>2. PICK next \in Nat : /\ end < b.addr + next
                          /\ (b.addr + next) % LineBytes = 0
                          /\ LineOf(b.addr + next) = LineOf(b.addr + off) + 1
  <2>1. CASE off = 0 /\ ToLineEnd(b) >= b.bytes
    <3>1. /\ ToLineEnd(b) \in Nat
          /\ (b.addr + ToLineEnd(b)) % LineBytes = 0
          /\ LineOf(b.addr + ToLineEnd(b)) = LineOf(b.addr) + 1
      BY LineEndLemma, NextLineLemma, LineBytesAssumption
    <3>2. b.addr + off = b.addr /\ end < b.addr + ToLineEnd(b)
      BY <1>1, <2>1, <3>1
    <3>3. QED
      BY <3>1, <3>2
  <2>2. CASE (b.addr + off) % LineBytes = 0 /\ off + LineBytes >= b.bytes
    <3>1. /\ off + LineBytes \in Nat
          /\ (b.addr + (off + LineBytes)) % LineBytes = 0
          /\ LineOf(b.addr + (off + LineBytes)) = LineOf(b.addr + off) + 1
      BY <2>2, NextLineLemma, LineBytesAssumption
    <3>2. end < b.addr + (off + LineBytes)
      BY <1>1, <2>2, <3>1, LineBytesAssumption
    <3>3. QED
      BY <3>1, <3>2
  <2>3. QED
    BY <2>1, <2>2
<1>3. LineOf(end) < LineOf(b.addr + next)
  <2>1. /\ end \in Nat /\ b.addr + next \in Nat /\ end < b.addr + next
        /\ (b.addr + next) % LineBytes = 0
    BY <1>1, <1>2
  <2> HIDE DEF end
  <2>2. \A a \in Nat, c \in Nat : a < c /\ c % LineBytes = 0
          => a \div LineBytes < c \div LineBytes
    BY LineBytesAssumption
  <2>3. QED
    BY <2>1, <2>2 DEF LineOf
<1>4. LineOf(end) <= LineOf(b.addr + off)
  BY <1>1, <1>2, <1>3
<1>5. QED
  BY <1>1, <1>4 DEF LinesFrom

\* Until the shortcut is taken nothing is dropped, and what is owed is queued.
Unskipped ==
  /\ ~shortcut => state # "Invalidated"
  /\ NoLineSkipped

SkipInv == TypeOK /\ WalkInsideHead /\ Unskipped

LEMMA StillQueuedLemma == StillQueued = QueuedFrom(fifo, offset)
BY DEF StillQueued, QueuedFrom, LinesFrom

\* What a cycle keeps or brings: the queue as the cycle sees it.
LEMMA SeenLines ==
  ASSUME SkipInv, ~shortcut, NEW aw \in Bursts \cup {NoBurst}, CanArrive(aw)
  PROVE  /\ Visible(aw) \in Seq(Bursts)
         /\ Owes(aw) \subseteq QueuedFrom(Visible(aw), offset)
<1>1. /\ fifo \in Seq(Bursts) /\ Len(fifo) <= MaxTxns /\ offset \in Nat
      /\ owed \subseteq QueuedFrom(fifo, offset)
  BY StillQueuedLemma DEF SkipInv, TypeOK, Unskipped, NoLineSkipped
<1>2. fifo = <<>> => offset = 0
  BY DEF SkipInv, WalkInsideHead
<1>3. QED
  BY <1>1, <1>2, FifoLemma, PushLines

LEMMA SkipNext == SkipInv /\ [Next]_vars => Unskipped'
<1> SUFFICES ASSUME SkipInv, [Next]_vars PROVE Unskipped'
  OBVIOUS
<1>1. /\ fifo \in Seq(Bursts) /\ Len(fifo) <= MaxTxns /\ offset \in Nat
      /\ state \in {"Idle", "Invalidating", "Invalidated"} /\ shortcut \in BOOLEAN
      /\ state # "Invalidating" => offset = 0
  BY DEF SkipInv, TypeOK, WalkInsideHead
<1>2. StillQueued' = QueuedFrom(fifo', offset')
  BY DEF StillQueued, QueuedFrom, LinesFrom
<1>3. ASSUME NEW aw \in Bursts \cup {NoBurst}, WaitForL1(aw) PROVE Unskipped'
  <2>1. /\ fifo' = Visible(aw) /\ owed' = Owes(aw) /\ offset' = offset
        /\ state' = state /\ shortcut' = shortcut /\ state # "Invalidated"
        /\ CanArrive(aw)
    BY <1>3 DEF WaitForL1
  <2>2. QED
    BY <1>2, <2>1, SeenLines DEF Unskipped, NoLineSkipped
<1>4. ASSUME NEW aw \in Bursts \cup {NoBurst}, FirstLine(aw) \/ NextLine(aw)
      PROVE  Unskipped'
  <2> DEFINE q == Visible(aw)
             b == Head(q)
  <2>1. /\ q # <<>> /\ CanArrive(aw) /\ fifo' = q
        /\ state' = "Invalidating" /\ shortcut' = shortcut
        /\ owed' = Owes(aw) \ {LineOf(b.addr + offset)}
    BY <1>4 DEF FirstLine, NextLine, Invalidate
  <2>2. b \in Bursts
    BY <1>1, <2>1, FifoLemma
  <2> HIDE DEF q, b
  <2>3. offset' \in Nat /\ LineOf(b.addr + offset') = LineOf(b.addr + offset) + 1
    <3>1. CASE FirstLine(aw)
      <4>1. offset' = ToLineEnd(b) /\ offset = 0
        BY <1>1, <3>1 DEF FirstLine, q, b
      <4>2. b.addr + offset = b.addr /\ offset' \in Nat
        BY <2>2, <4>1, LineEndLemma, LineBytesAssumption
      <4>3. QED
        BY <1>1, <2>2, <4>1, <4>2, NextLineLemma
    <3>2. CASE NextLine(aw)
      <4>1. offset' = offset + LineBytes
        BY <3>2 DEF NextLine
      <4>2. QED
        BY <1>1, <2>2, <4>1, NextLineLemma, LineBytesAssumption
    <3>3. QED
      BY <1>4, <3>1, <3>2
  <2>4. ASSUME ~shortcut PROVE owed' \subseteq StillQueued'
    <3>1. q \in Seq(Bursts) /\ Owes(aw) \subseteq QueuedFrom(q, offset)
      BY <2>1, <2>4, SeenLines DEF q
    <3>2. QueuedFrom(q, offset) \subseteq {LineOf(b.addr + offset)} \cup QueuedFrom(q, offset')
      BY <1>1, <2>1, <2>3, <3>1, WalkLines DEF b
    <3>3. QED
      BY <1>2, <2>1, <3>1, <3>2
  <2>5. QED
    BY <2>1, <2>4 DEF Unskipped, NoLineSkipped
<1>5. ASSUME NEW aw \in Bursts \cup {NoBurst}, OnlyLine(aw) \/ LastLine(aw)
      PROVE  Unskipped'
  <2> DEFINE q == Visible(aw)
             b == Head(q)
  <2>1. /\ q # <<>> /\ CanArrive(aw) /\ fifo' = Tail(q)
        /\ state' = "Idle" /\ shortcut' = shortcut /\ offset' = 0
        /\ owed' = Owes(aw) \ {LineOf(b.addr + offset)}
    BY <1>1, <1>5 DEF OnlyLine, LastLine, Invalidate
  <2>2. b \in Bursts
    BY <1>1, <2>1, FifoLemma
  <2>3. \/ offset = 0 /\ ToLineEnd(b) >= b.bytes
        \/ (b.addr + offset) % LineBytes = 0 /\ offset + LineBytes >= b.bytes
    <3>1. CASE OnlyLine(aw)
      BY <1>1, <3>1 DEF OnlyLine
    <3>2. CASE LastLine(aw)
      <4>1. state = "Invalidating" /\ offset + LineBytes >= b.bytes
        BY <3>2 DEF LastLine
      <4>2. fifo # <<>> /\ (Head(fifo).addr + offset) % LineBytes = 0
        BY <4>1 DEF SkipInv, WalkInsideHead
      <4>3. b = Head(fifo)
        BY <1>1, <2>1, <4>2, FifoLemma
      <4>4. QED
        BY <4>1, <4>2, <4>3
    <3>3. QED
      BY <1>5, <3>1, <3>2
  <2> HIDE DEF q, b
  <2>4. ASSUME ~shortcut PROVE owed' \subseteq StillQueued'
    <3>1. q \in Seq(Bursts) /\ Owes(aw) \subseteq QueuedFrom(q, offset)
      BY <2>1, <2>4, SeenLines DEF q
    <3>2. QueuedFrom(q, offset) \subseteq LinesFrom(b, offset) \cup QueuedFrom(Tail(q), 0)
      BY <1>1, <2>1, <3>1, PopLines DEF b
    <3>3. LinesFrom(b, offset) \subseteq {LineOf(b.addr + offset)}
      BY <1>1, <2>2, <2>3, LastLines
    <3>4. QED
      BY <1>2, <2>1, <3>1, <3>2, <3>3
  <2>5. QED
    BY <2>1, <2>4 DEF Unskipped, NoLineSkipped
<1>6. ASSUME NEW aw \in Bursts \cup {NoBurst}, AllSetsDone(aw) PROVE Unskipped'
  BY <1>6 DEF AllSetsDone, Unskipped, NoLineSkipped
<1>7. ASSUME NEW aw \in Bursts \cup {NoBurst}, NEW inval \in BOOLEAN,
             PopRedundant(aw, inval)
      PROVE  Unskipped'
  BY <1>7 DEF PopRedundant, SkipInv, Unskipped, NoLineSkipped
<1>8. CASE BackToIdle
  BY <1>8 DEF BackToIdle, SkipInv, Unskipped, NoLineSkipped
<1>9. CASE UNCHANGED vars
  <2>1. StillQueued' = StillQueued
    BY <1>2, <1>9, StillQueuedLemma DEF vars
  <2>2. QED
    BY <1>9, <2>1 DEF vars, SkipInv, Unskipped, NoLineSkipped
<1>10. QED
  BY <1>3, <1>4, <1>5, <1>6, <1>7, <1>8, <1>9 DEF Next, L1Takes

\* Until the all-sets shortcut is taken for the first time, every line that was
\* written and not invalidated since is one the filter still walks over, for
\* every line size, FIFO depth, alignment and length of the bursts, and however
\* arrivals and a busy L1 interleave (axi_inval_filter.sv:88-135).
THEOREM NoLineIsSkipped == Spec => []NoLineSkipped
<1>1. Init => SkipInv
  <2>1. Init => WalkInsideHead /\ Unskipped
    BY DEF Init, WalkInsideHead, Unskipped, NoLineSkipped
  <2>2. QED
    BY <2>1, TypeInit DEF SkipInv
<1>2. SkipInv /\ [Next]_vars => SkipInv'
  BY TypeNext, WalkNext, SkipNext DEF SkipInv
<1>3. SkipInv => NoLineSkipped
  BY DEF SkipInv, Unskipped
<1>4. QED
  BY <1>1, <1>2, <1>3, PTL DEF Spec
=============================================================================
