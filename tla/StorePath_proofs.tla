-------------------------- MODULE StorePath_proofs --------------------------
(***************************************************************************)
(* The way of stores to the memory and of the answers back.  TypeCorrect:  *)
(* types, for every program and memory.  CutAlwaysOwn: the pieces leave in *)
(* order and are those of the store's own length, in programs of stores of *)
(* one length.  DoneAlwaysLast: a store is reported as done with its last  *)
(* answer, when moreover the trackers, the FIFO and their counts are large *)
(* enough and the memory takes all addresses of a store before it answers. *)
(*                                                                         *)
(* Upto(n, l) is the number of pieces of the first n stores.  It is left   *)
(* opaque: n and l are both variable, and the product is out of the        *)
(* solver's reach but for the few facts the first lemmas state.            *)
(***************************************************************************)
EXTENDS StorePath, DivModLemmas, SequenceTheorems, FiniteSetTheorems

-----------------------------------------------------------------------------
(* Cuts: registers of two entries.                                          *)

\* a: one leaves, b: x follows
Moved(q, a, b, x) ==
  (IF a = 1 THEN Tail(q) ELSE q) \o (IF b = 1 THEN <<x>> ELSE <<>>)

LEMMA OneIfIs ==
  ASSUME NEW b \in BOOLEAN
  PROVE  OneIf(b) \in {0, 1} /\ (b <=> OneIf(b) = 1) /\ (~b <=> OneIf(b) = 0)
BY DEF OneIf

\* that r is q after this
MovesTo(q, a, b, x, S, r) ==
  /\ r \in Seq(S)
  /\ Len(r) = Len(q) - a + b
  /\ \A k \in 1 .. Len(q) - a : r[k] = q[k + a]
  /\ b = 1 => r[Len(q) - a + 1] = x

LEMMA MovedQueue ==
  ASSUME NEW S, NEW q \in Seq(S), NEW a \in {0, 1}, NEW b \in {0, 1}, NEW x,
         a = 1 => q # <<>>, b = 1 => x \in S
  PROVE  MovesTo(q, a, b, x, S, Moved(q, a, b, x))
<1> DEFINE kept == IF a = 1 THEN Tail(q) ELSE q
           more == IF b = 1 THEN <<x>> ELSE <<>>
<1>1. /\ kept \in Seq(S) /\ Len(kept) = Len(q) - a /\ Len(kept) \in Nat
      /\ \A k \in 1 .. Len(kept) : kept[k] = q[k + a]
  <2>1. CASE a = 1
    <3>1. Tail(q) \in Seq(S) /\ Len(Tail(q)) = Len(q) - 1
          /\ \A k \in 1 .. Len(Tail(q)) : Tail(q)[k] = q[k + 1]
      BY <2>1, HeadTailProperties
    <3>2. QED
      BY <2>1, <3>1, LenProperties
  <2>2. CASE a = 0
    <3>1. \A k \in 1 .. Len(q) : q[k] = q[k + 0]
      OBVIOUS
    <3>2. QED
      BY <2>2, <3>1, LenProperties
  <2>3. QED
    BY <2>1, <2>2
<1>2. /\ more \in Seq(S) /\ Len(more) = b /\ (b = 1 => more[1] = x)
  OBVIOUS
<1> HIDE DEF kept, more
<1>3. /\ kept \o more \in Seq(S) /\ Len(kept \o more) = Len(kept) + Len(more)
      /\ \A k \in 1 .. Len(kept) + Len(more) :
           (kept \o more)[k] = IF k <= Len(kept) THEN kept[k] ELSE more[k - Len(kept)]
  BY <1>1, <1>2, ConcatProperties
<1>4. \A k \in 1 .. Len(kept) : (kept \o more)[k] = kept[k]
  BY <1>1, <1>2, <1>3
<1>5. b = 1 => (kept \o more)[Len(kept) + 1] = x
  BY <1>1, <1>2, <1>3
<1>6. Moved(q, a, b, x) = kept \o more
  BY DEF Moved, kept, more
<1>7. QED
  BY <1>1, <1>2, <1>3, <1>4, <1>5, <1>6 DEF MovesTo
-----------------------------------------------------------------------------
(* Types.  An answer that is let through finds an entry in the B FIFO only  *)
(* when a store has been started and not reported, so no more are reported  *)
(* than were taken up.                                                      *)

Asked == last - OneIf(asking)
Accepted == Asked - Len(awShuffle)
Started == Accepted - OneIf(wReq # 0 /\ ~pushed)

TypeInv ==
  /\ TypeOK
  /\ asking => last # 0
  /\ pushed => wReq # 0
  /\ done + bFifo <= Started
  /\ answered + wrCnt <= Len(taken)

LEMMA InitTypes == Init => TypeInv
<1> SUFFICES ASSUME Init PROVE TypeInv
  OBVIOUS
<1> USE SizesAssumption, ProgramsAssumption DEF Init
<1>1. /\ prog \in [lens : Seq(Nat \ {0}), gap : Nat, prompt : BOOLEAN, hasty : BOOLEAN]
      /\ Len(prog.lens) \in Nat /\ prog.gap \in Nat
  <2>1. prog \in [lens : Seq(Nat \ {0}), gap : Nat, prompt : BOOLEAN, hasty : BOOLEAN]
    OBVIOUS
  <2>2. prog.lens \in Seq(Nat \ {0}) /\ prog.gap \in Nat
    BY <2>1
  <2>3. QED
    BY <2>1, <2>2, LenProperties
<1>2. <<>> \in Seq(1 .. 0) /\ Len(<<>>) = 0
  OBVIOUS
<1>3. 0 \in 0 .. 2 * Trackers - 1 /\ 0 \in Entries /\ 0 \in 0 .. Trackers
  BY DEF Entries
<1>4. bTrack \in [Entries -> 0 .. 2 * Trackers - 1]
  BY <1>3
<1>5. TypeOK
  BY <1>1, <1>2, <1>3, <1>4 DEF TypeOK
<1>6. done + bFifo <= Started /\ answered + wrCnt <= Len(taken)
  BY <1>2 DEF Started, Accepted, Asked, OneIf
<1>7. QED
  BY <1>5, <1>6 DEF TypeInv

LEMMA ProgramFacts ==
  ASSUME TypeOK
  PROVE  /\ prog.lens \in Seq(Nat \ {0}) /\ Len(prog.lens) \in Nat /\ prog.gap \in Nat
         /\ \A n \in 1 .. Len(prog.lens) : prog.lens[n] \in Nat \ {0}
<1>1. prog \in [lens : Seq(Nat \ {0}), gap : Nat, prompt : BOOLEAN, hasty : BOOLEAN]
  BY ProgramsAssumption DEF TypeOK
<1>2. prog.lens \in Seq(Nat \ {0}) /\ prog.gap \in Nat
  BY <1>1
<1>3. QED
  BY <1>2, LenProperties, ElementOfSeq

\* The address generator.
LEMMA AddressStep ==
  ASSUME TypeInv, NEW takeUp \in BOOLEAN, AddressGenerator(takeUp)
  PROVE  /\ prog' = prog /\ last' \in last .. Len(prog.lens) /\ vl' \in Nat /\ asking' \in BOOLEAN
         /\ rest' \in 0 .. prog.gap
         /\ (asking' => last' # 0)
         /\ Asks \in BOOLEAN
         /\ last' - OneIf(asking') = last - OneIf(asking) + OneIf(Asks)
         /\ (Asks => asking /\ last \in 1 .. last)
<1> USE DEF TypeInv
<1>1. /\ last \in 0 .. Len(prog.lens) /\ vl \in Nat /\ asking \in BOOLEAN
      /\ rest \in 0 .. prog.gap /\ Len(prog.lens) \in Nat /\ prog.gap \in Nat
      /\ \A n \in 1 .. Len(prog.lens) : prog.lens[n] \in Nat \ {0}
  BY ProgramFacts DEF TypeOK
<1>2. Asks \in BOOLEAN /\ (Asks => asking)
  BY DEF Asks
<1>3. /\ takeUp => CanTakeUp
      /\ last' = last + OneIf(takeUp)
      /\ vl' = IF takeUp THEN prog.lens[last + 1] ELSE vl
      /\ asking' = (takeUp \/ (asking /\ ~Asks))
      /\ rest' = IF Asks THEN prog.gap ELSE IF rest > 0 THEN rest - 1 ELSE 0
      /\ prog' = prog
  BY DEF AddressGenerator
<1>4. takeUp => ~asking /\ last < Len(prog.lens)
  BY <1>3 DEF CanTakeUp
<1>5. rest' \in 0 .. prog.gap
  BY <1>1, <1>2, <1>3
<1>6. vl' \in Nat
  BY <1>1, <1>3, <1>4
<1>7. last' \in last .. Len(prog.lens)
  BY <1>1, <1>3, <1>4 DEF OneIf
<1>8. last' - OneIf(asking') = last - OneIf(asking) + OneIf(Asks)
  BY <1>1, <1>2, <1>3, <1>4 DEF OneIf
<1>9. (asking' => last' # 0) /\ (Asks => asking /\ last \in 1 .. last)
  BY <1>1, <1>2, <1>3 DEF OneIf
<1>10. asking' \in BOOLEAN
  BY <1>1, <1>2, <1>3
<1>11. QED
  BY <1>2, <1>3, <1>5, <1>6, <1>7, <1>8, <1>9, <1>10

\* The global load-store unit, and what it takes and sends.
LEMMA RequestFacts ==
  ASSUME TypeInv
  PROVE  /\ AcceptsStore \in BOOLEAN /\ SendsPiece \in BOOLEAN /\ LastPiece \in BOOLEAN
         /\ PushesB \in BOOLEAN
         /\ (AcceptsStore => wReq = 0 /\ awShuffle # <<>> /\ Store = awShuffle[1] /\ Store # 0)
         /\ (~AcceptsStore => Store = wReq)
         /\ (wReq = 0 /\ ~AcceptsStore => awShuffle = <<>>)
         /\ Store \in 0 .. last /\ Left \in Nat
         /\ (SendsPiece => Store # 0 /\ HasRoom(awGlobal))
         /\ (LastPiece <=> SendsPiece /\ Left <= 1)
         /\ (PushesB <=> SendsPiece /\ ~pushed)
<1>1. /\ awShuffle \in Seq(1 .. last) /\ wReq \in 0 .. last /\ last \in Nat
      /\ vlLeft \in Nat /\ vlGlsu \in Nat /\ pushed \in BOOLEAN
  BY ProgramFacts DEF TypeInv, TypeOK
<1>2. Left \in Nat
  BY <1>1 DEF Left
<1>3. /\ AcceptsStore \in BOOLEAN /\ SendsPiece \in BOOLEAN /\ LastPiece \in BOOLEAN
      /\ PushesB \in BOOLEAN
  BY DEF AcceptsStore, SendsPiece, LastPiece, PushesB
<1>4. AcceptsStore => Store = awShuffle[1] /\ Store \in 1 .. last
  <2>1. CASE AcceptsStore
    <3>1. awShuffle # <<>> /\ Store = Head(awShuffle)
      BY <2>1 DEF AcceptsStore, Store
    <3>2. Head(awShuffle) = awShuffle[1] /\ Head(awShuffle) \in 1 .. last
      BY <1>1, <3>1, HeadTailProperties
    <3>3. QED
      BY <3>1, <3>2
  <2>2. QED
    BY <2>1
<1>5. /\ (AcceptsStore => wReq = 0 /\ awShuffle # <<>>)
      /\ (~AcceptsStore => Store = wReq)
      /\ (wReq = 0 /\ ~AcceptsStore => awShuffle = <<>>)
  BY DEF AcceptsStore, Store
<1>6. /\ (SendsPiece => Store # 0 /\ HasRoom(awGlobal))
      /\ (LastPiece <=> SendsPiece /\ Left <= 1)
      /\ (PushesB <=> SendsPiece /\ ~pushed)
  BY DEF SendsPiece, LastPiece, PushesB
<1>7. Store \in 0 .. last /\ (AcceptsStore => Store # 0)
  BY <1>1, <1>4, <1>5
<1>8. QED
  BY <1>2, <1>3, <1>4, <1>5, <1>6, <1>7

\* The two cuts.
LEMMA ShuffleCut ==
  ASSUME TypeInv, NEW takeUp \in BOOLEAN, AddressGenerator(takeUp), WriteRequests
  PROVE  /\ MovesTo(awShuffle, OneIf(AcceptsStore), OneIf(Asks), last, 1 .. last, awShuffle')
         /\ Len(awShuffle') <= 2
<1>1. /\ awShuffle \in Seq(1 .. last) /\ Len(awShuffle) <= 2 /\ Len(awShuffle) \in Nat
  BY LenProperties DEF TypeInv, TypeOK
<1>2. AcceptsStore \in BOOLEAN /\ (AcceptsStore => awShuffle # <<>>)
  BY RequestFacts
<1>3. Asks \in BOOLEAN /\ (Asks => last \in 1 .. last)
  BY AddressStep
<1>4. Asks => Len(awShuffle) < 2
  BY DEF Asks, HasRoom
<1>5. PICK a \in {0, 1} : a = OneIf(AcceptsStore) /\ (a = 1 <=> AcceptsStore)
  BY <1>2, OneIfIs
<1>6. PICK b \in {0, 1} : b = OneIf(Asks) /\ (b = 1 <=> Asks)
  BY <1>3, OneIfIs
<1>7. awShuffle' = Moved(awShuffle, a, b, last)
  BY <1>5, <1>6 DEF WriteRequests, Moved
<1>8. MovesTo(awShuffle, a, b, last, 1 .. last, awShuffle')
  BY <1>1, <1>2, <1>3, <1>5, <1>6, <1>7, MovedQueue
<1>9. Len(awShuffle') <= 2
  BY <1>1, <1>4, <1>6, <1>8 DEF MovesTo
<1>10. QED
  BY <1>5, <1>6, <1>8, <1>9

LEMMA GlobalCut ==
  ASSUME TypeInv, NEW mem \in MemoryMoves, Registers(mem)
  PROVE  /\ MovesTo(awGlobal, OneIf(TakesPiece(mem)), OneIf(SendsPiece), Store, 1 .. last, awGlobal')
         /\ Len(awGlobal') <= 2
<1>1. /\ awGlobal \in Seq(1 .. last) /\ Len(awGlobal) <= 2 /\ Len(awGlobal) \in Nat
  BY LenProperties DEF TypeInv, TypeOK
<1>2. TakesPiece(mem) \in BOOLEAN /\ (TakesPiece(mem) => awGlobal # <<>>)
  BY DEF TakesPiece
<1>3. SendsPiece \in BOOLEAN /\ (SendsPiece => Store \in 1 .. last)
  <2>1. SendsPiece \in BOOLEAN /\ Store \in 0 .. last /\ (SendsPiece => Store # 0)
    BY RequestFacts
  <2>2. last \in Nat
    BY ProgramFacts DEF TypeInv, TypeOK
  <2>3. QED
    BY <2>1, <2>2
<1>4. SendsPiece => Len(awGlobal) < 2
  BY DEF SendsPiece, HasRoom
<1>5. PICK a \in {0, 1} : a = OneIf(TakesPiece(mem)) /\ (a = 1 <=> TakesPiece(mem))
  BY <1>2, OneIfIs
<1>6. PICK b \in {0, 1} : b = OneIf(SendsPiece) /\ (b = 1 <=> SendsPiece)
  BY <1>3, OneIfIs
<1>7. awGlobal' = Moved(awGlobal, a, b, Store)
  BY <1>5, <1>6 DEF Registers, Moved
<1>8. MovesTo(awGlobal, a, b, Store, 1 .. last, awGlobal')
  BY <1>1, <1>2, <1>3, <1>5, <1>6, <1>7, MovedQueue
<1>9. Len(awGlobal') <= 2
  BY <1>1, <1>4, <1>6, <1>8 DEF MovesTo
<1>10. QED
  BY <1>5, <1>6, <1>8, <1>9

LEMMA RequestStep ==
  ASSUME TypeInv, NEW takeUp \in BOOLEAN, AddressGenerator(takeUp), WriteRequests
  PROVE  /\ wReq' \in 0 .. last /\ vlLeft' \in Nat /\ pushed' \in BOOLEAN
         /\ (pushed' => wReq' # 0)
         /\ Asked \in 0 .. last /\ Accepted \in Int /\ Started \in Int /\ Started <= last
         /\ Accepted' = Accepted + OneIf(AcceptsStore)
         /\ Started' = Started + OneIf(PushesB)
<1> DEFINE S == Store
           Lf == Left
<1>1. /\ last \in Nat /\ asking \in BOOLEAN /\ (asking => last # 0) /\ Len(awShuffle) \in Nat
      /\ wReq \in 0 .. last /\ pushed \in BOOLEAN /\ (pushed => wReq # 0)
  BY ProgramFacts, LenProperties DEF TypeInv, TypeOK
<1>2. /\ AcceptsStore \in BOOLEAN /\ SendsPiece \in BOOLEAN /\ LastPiece \in BOOLEAN
      /\ PushesB \in BOOLEAN
      /\ (AcceptsStore => wReq = 0 /\ S # 0)
      /\ (~AcceptsStore => S = wReq)
      /\ S \in 0 .. last /\ Lf \in Nat
      /\ (SendsPiece => S # 0)
      /\ (LastPiece <=> SendsPiece /\ Lf <= 1)
      /\ (PushesB <=> SendsPiece /\ ~pushed)
  BY RequestFacts
<1>3. /\ wReq' = IF LastPiece THEN 0 ELSE S
      /\ vlLeft' = IF LastPiece THEN 0 ELSE IF SendsPiece THEN Lf - 1 ELSE Lf
      /\ pushed' = IF SendsPiece THEN ~LastPiece ELSE pushed
  BY DEF WriteRequests
<1> HIDE DEF S, Lf
<1>4. vlLeft' \in Nat
  BY <1>2, <1>3
<1>5. wReq' \in 0 .. last /\ pushed' \in BOOLEAN /\ (pushed' => wReq' # 0)
  BY <1>1, <1>2, <1>3
<1>6. Asked \in 0 .. last /\ Accepted \in Int /\ Started \in Int /\ Started <= last
  <2>1. /\ OneIf(asking) \in {0, 1} /\ (asking <=> OneIf(asking) = 1)
        /\ OneIf(wReq # 0 /\ ~pushed) \in {0, 1}
    BY <1>1, OneIfIs
  <2>2. Asked \in 0 .. last
    BY <1>1, <2>1 DEF Asked
  <2>3. Accepted \in Int /\ Accepted <= last
    BY <1>1, <2>2 DEF Accepted
  <2>4. QED
    BY <1>1, <2>1, <2>2, <2>3 DEF Started
<1>7. Accepted' = Accepted + OneIf(AcceptsStore)
  <2>1. Asks \in BOOLEAN /\ last' \in Nat /\ asking' \in BOOLEAN
        /\ last' - OneIf(asking') = last - OneIf(asking) + OneIf(Asks)
    BY <1>1, AddressStep, ProgramFacts DEF TypeInv
  <2>2. Len(awShuffle') = Len(awShuffle) - OneIf(AcceptsStore) + OneIf(Asks)
    BY ShuffleCut DEF MovesTo
  <2>3. OneIf(asking) \in {0, 1} /\ OneIf(asking') \in {0, 1} /\ OneIf(Asks) \in {0, 1}
        /\ OneIf(AcceptsStore) \in {0, 1}
    BY <1>1, <1>2, <2>1, OneIfIs
  <2>4. QED
    BY <1>1, <2>1, <2>2, <2>3 DEF Accepted, Asked
<1>8. OneIf(wReq' # 0 /\ ~pushed') = OneIf(wReq # 0 /\ ~pushed) + OneIf(AcceptsStore) - OneIf(PushesB)
  BY <1>1, <1>2, <1>3 DEF OneIf
<1>9. Started' = Started + OneIf(PushesB)
  <2>1. Started' = Accepted' - OneIf(wReq' # 0 /\ ~pushed')
    BY DEF Started
  <2>2. Started = Accepted - OneIf(wReq # 0 /\ ~pushed)
    BY DEF Started
  <2>3. OneIf(wReq # 0 /\ ~pushed) \in {0, 1} /\ OneIf(AcceptsStore) \in {0, 1}
        /\ OneIf(PushesB) \in {0, 1}
    BY <1>2, OneIfIs
  <2>4. QED
    BY <1>6, <1>7, <1>8, <2>1, <2>2, <2>3
<1>10. QED
  BY <1>4, <1>5, <1>6, <1>7, <1>9

\* A counter of the align stage stays in its width.
LEMMA CountStays ==
  ASSUME NEW x \in Nat
  PROVE  x % (2 * Trackers) \in 0 .. 2 * Trackers - 1 /\ x % Trackers \in Entries
<1>1. 2 * Trackers \in Nat \ {0} /\ Trackers \in Nat \ {0}
  BY SizesAssumption
<1>2. QED
  BY <1>1, DivModParts DEF Entries

LEMMA AlignStep ==
  ASSUME TypeInv, NEW mem \in MemoryMoves, Align(mem), Memory(mem)
  PROVE  /\ wrVl' \in Nat /\ wrCnt' \in 0 .. Trackers /\ bPnt' \in Entries
         /\ bCommitPnt' \in Entries /\ bTrack' \in [Entries -> 0 .. 2 * Trackers - 1]
         /\ taken' \in Seq(1 .. last) /\ Len(taken') = Len(taken) + OneIf(TakesPiece(mem))
         /\ answered' = answered + OneIf(mem.answer)
         /\ answered' \in 0 .. Len(taken') /\ answered' + wrCnt' <= Len(taken')
<1>1. /\ wrVl \in Nat /\ wrCnt \in 0 .. Trackers /\ bPnt \in Entries /\ bCommitPnt \in Entries
      /\ bTrack \in [Entries -> 0 .. 2 * Trackers - 1]
      /\ taken \in Seq(1 .. last) /\ answered \in 0 .. Len(taken) /\ Len(taken) \in Nat
      /\ answered + wrCnt <= Len(taken) /\ awGlobal \in Seq(1 .. last)
  BY LenProperties DEF TypeInv, TypeOK
<1>2. /\ TakesPiece(mem) \in BOOLEAN /\ TakesData(mem) \in BOOLEAN /\ mem.answer \in BOOLEAN
      /\ (TakesPiece(mem) => awGlobal # <<>> /\ wrCnt < Trackers)
      /\ (TakesData(mem) => wrCnt > 0)
  BY DEF TakesPiece, TakesData, MemoryMoves
<1>3. /\ mem.answer => answered < Len(taken) - wrCnt
      /\ taken' = IF TakesPiece(mem) THEN Append(taken, Head(awGlobal)) ELSE taken
      /\ answered' = answered + OneIf(mem.answer)
  BY DEF Memory, MayAnswer
<1>4. wrCnt' = wrCnt + OneIf(TakesPiece(mem)) - OneIf(TakesData(mem))
  BY DEF Align
<1>5. taken' \in Seq(1 .. last) /\ Len(taken') = Len(taken) + OneIf(TakesPiece(mem))
  <2>1. CASE TakesPiece(mem)
    <3>1. Head(awGlobal) \in 1 .. last
      BY <1>1, <1>2, <2>1, HeadTailProperties
    <3>2. /\ Append(taken, Head(awGlobal)) \in Seq(1 .. last)
          /\ Len(Append(taken, Head(awGlobal))) = Len(taken) + 1
      BY <1>1, <3>1, AppendProperties
    <3>3. QED
      BY <1>3, <2>1, <3>2 DEF OneIf
  <2>2. CASE ~TakesPiece(mem)
    BY <1>1, <1>3, <2>2 DEF OneIf
  <2>3. QED
    BY <2>1, <2>2
<1>6. wrCnt' \in 0 .. Trackers
  <2>1. Trackers \in Nat
    BY SizesAssumption
  <2>2. QED
    BY <1>1, <1>2, <1>4, <2>1 DEF OneIf
<1>7. answered' \in 0 .. Len(taken') /\ answered' + wrCnt' <= Len(taken')
  <2>1. Trackers \in Nat
    BY SizesAssumption
  <2>2. /\ OneIf(mem.answer) \in {0, 1} /\ OneIf(TakesPiece(mem)) \in {0, 1}
        /\ OneIf(TakesData(mem)) \in {0, 1}
        /\ (OneIf(mem.answer) = 1 => answered < Len(taken) - wrCnt)
    BY <1>2, <1>3, OneIfIs
  <2>3. answered' + wrCnt' <= Len(taken')
    BY <1>1, <1>3, <1>4, <1>5, <2>1, <2>2
  <2>4. QED
    BY <1>1, <1>3, <1>5, <1>6, <2>1, <2>2, <2>3
<1>8. wrVl' \in Nat /\ bPnt' \in Entries /\ bCommitPnt' \in Entries
  <2>1. bPnt + 1 \in Nat /\ bCommitPnt + 1 \in Nat
    BY <1>1, SizesAssumption DEF Entries
  <2>2. (bPnt + 1) % Trackers \in Entries /\ (bCommitPnt + 1) % Trackers \in Entries
    BY <2>1, CountStays
  <2>3. wrVl' = 0 \/ wrVl' = wrVl + OneIf(TakesPiece(mem))
    BY DEF Align
  <2>4. (bPnt' = bPnt \/ bPnt' = (bPnt + 1) % Trackers)
        /\ (bCommitPnt' = bCommitPnt \/ bCommitPnt' = (bCommitPnt + 1) % Trackers)
    BY DEF Align
  <2>5. OneIf(TakesPiece(mem)) \in {0, 1}
    BY <1>2, OneIfIs
  <2>6. QED
    BY <1>1, <2>2, <2>3, <2>4, <2>5
<1>9. bTrack' \in [Entries -> 0 .. 2 * Trackers - 1]
  <2> DEFINE R == 0 .. 2 * Trackers - 1
             counted == IF TakesPiece(mem)
                        THEN [bTrack EXCEPT ![bPnt] = (@ + 1) % (2 * Trackers)] ELSE bTrack
  <2>1. bTrack' = IF mem.answer
                  THEN [counted EXCEPT ![bCommitPnt] = (@ + 2 * Trackers - 1) % (2 * Trackers)]
                  ELSE counted
    BY DEF Align
  <2>2. \A x \in R : /\ (x + 1) % (2 * Trackers) \in R
                     /\ (x + 2 * Trackers - 1) % (2 * Trackers) \in R
    <3>1. ASSUME NEW x \in R PROVE x + 1 \in Nat /\ x + 2 * Trackers - 1 \in Nat
      BY SizesAssumption
    <3>2. QED
      BY <3>1, CountStays
  <2> HIDE DEF R
  <2>3. bTrack \in [Entries -> R]
    BY <1>1 DEF R
  <2>4. counted \in [Entries -> R]
    BY <1>1, <2>2, <2>3
  <2> HIDE DEF counted
  <2>5. bTrack' \in [Entries -> R]
    BY <1>1, <2>1, <2>2, <2>4
  <2>6. QED
    BY <2>5 DEF R
<1>10. QED
  BY <1>3, <1>5, <1>6, <1>7, <1>8, <1>9

LEMMA ResponseStep ==
  ASSUME TypeInv, NEW takeUp \in BOOLEAN, NEW mem \in MemoryMoves,
         AddressGenerator(takeUp), WriteRequests, WriteResponses(mem)
  PROVE  /\ bFifo' \in 0 .. FifoDepth /\ done' \in Nat /\ done' + bFifo' <= Started'
<1>1. /\ bFifo \in 0 .. FifoDepth /\ done \in Nat /\ done + bFifo <= Started
      /\ FifoDepth \in Nat
  BY SizesAssumption, ProgramFacts DEF TypeInv, TypeOK
<1>2. Started \in Int /\ Started' = Started + OneIf(PushesB) /\ PushesB \in BOOLEAN
  BY RequestStep, RequestFacts
<1>3. /\ bFifo' = bFifo + OneIf(PushesB /\ bFifo < FifoDepth) - OneIf(Reports(mem))
      /\ done' = done + OneIf(Reports(mem))
      /\ Reports(mem) \in BOOLEAN /\ (Reports(mem) => bFifo > 0)
  BY DEF WriteResponses, Reports
<1>4. QED
  BY <1>1, <1>2, <1>3 DEF OneIf

LEMMA TypeStep == TypeInv /\ [Next]_vars => TypeInv'
<1> SUFFICES ASSUME TypeInv, [Next]_vars PROVE TypeInv'
  OBVIOUS
<1>1. ASSUME NEW takeUp \in BOOLEAN, NEW mem \in MemoryMoves, Cycle(takeUp, mem)
      PROVE  TypeInv'
  <2>1. /\ AddressGenerator(takeUp) /\ WriteRequests /\ Registers(mem)
        /\ Align(mem) /\ WriteResponses(mem) /\ Memory(mem)
    BY <1>1 DEF Cycle
  <2>2. /\ prog' = prog /\ last' \in last .. Len(prog.lens) /\ vl' \in Nat
        /\ asking' \in BOOLEAN /\ rest' \in 0 .. prog.gap /\ (asking' => last' # 0)
    BY <2>1, AddressStep
  <2>3. prog \in Programs /\ last \in Nat /\ Len(prog.lens) \in Nat /\ vlGlsu \in Nat
    BY ProgramFacts DEF TypeInv, TypeOK
  <2>4. last' \in Nat /\ 1 .. last \subseteq 1 .. last' /\ 0 .. last \subseteq 0 .. last'
    BY <2>2, <2>3
  <2>5. /\ awShuffle' \in Seq(1 .. last') /\ Len(awShuffle') <= 2
        /\ awGlobal' \in Seq(1 .. last') /\ Len(awGlobal') <= 2
    <3>1. /\ awShuffle' \in Seq(1 .. last) /\ Len(awShuffle') <= 2
          /\ awGlobal' \in Seq(1 .. last) /\ Len(awGlobal') <= 2
      BY <2>1, ShuffleCut, GlobalCut DEF MovesTo
    <3>2. QED
      BY <2>4, <3>1, SeqMonotonic
  <2>6. /\ wrVl' \in Nat /\ wrCnt' \in 0 .. Trackers /\ bPnt' \in Entries
        /\ bCommitPnt' \in Entries /\ bTrack' \in [Entries -> 0 .. 2 * Trackers - 1]
        /\ taken' \in Seq(1 .. last)
        /\ answered' \in 0 .. Len(taken') /\ answered' + wrCnt' <= Len(taken')
    BY <2>1, AlignStep
  <2>7. taken' \in Seq(1 .. last')
    BY <2>4, <2>6, SeqMonotonic
  <2>8. /\ wReq' \in 0 .. last' /\ vlLeft' \in Nat /\ pushed' \in BOOLEAN
        /\ (pushed' => wReq' # 0)
    BY <2>1, <2>4, RequestStep
  <2>9. bFifo' \in 0 .. FifoDepth /\ done' \in Nat /\ done' + bFifo' <= Started'
    BY <2>1, ResponseStep
  <2>10. done' \in 0 .. last'
    <3>1. Started' <= last'
      <4>1. /\ Len(awShuffle') \in Nat /\ OneIf(asking') \in {0, 1}
            /\ OneIf(wReq' # 0 /\ ~pushed') \in {0, 1}
        BY <2>2, <2>5, LenProperties, OneIfIs
      <4>2. Started' = last' - OneIf(asking') - Len(awShuffle') - OneIf(wReq' # 0 /\ ~pushed')
        BY DEF Started, Accepted, Asked
      <4>3. QED
        BY <2>4, <4>1, <4>2
    <3>2. Started' \in Int
      <4>1. Started \in Int /\ Started' = Started + OneIf(PushesB) /\ OneIf(PushesB) \in {0, 1}
        BY <2>1, RequestStep, RequestFacts, OneIfIs
      <4>2. QED
        BY <4>1
    <3>3. bFifo' \in Nat
      BY <2>9, SizesAssumption
    <3>4. last' \in Nat /\ done' \in Nat
      BY <2>4, <2>9
    <3>5. done' <= last'
      <4>1. \A d, f, l \in Nat, n \in Int : d + f <= n /\ n <= l => d <= l
        OBVIOUS
      <4>2. QED
        BY <2>9, <3>1, <3>2, <3>3, <3>4, <4>1, Zenon
    <3>6. QED
      BY <3>4, <3>5
  <2>11. vlGlsu' \in Nat /\ vlAlign' \in Nat
    BY <2>1, <2>3 DEF Registers, TypeInv, TypeOK
  <2>12. prog' \in Programs /\ last' \in 0 .. Len(prog'.lens) /\ rest' \in 0 .. prog'.gap
    BY <2>2, <2>3, <2>4
  <2>13. TypeOK'
    BY <2>2, <2>5, <2>6, <2>7, <2>8, <2>9, <2>10, <2>11, <2>12 DEF TypeOK
  <2>14. QED
    BY <2>2, <2>6, <2>8, <2>9, <2>13 DEF TypeInv
<1>2. CASE UNCHANGED vars
  BY <1>2 DEF vars, TypeInv, TypeOK, Started, Accepted, Asked
<1>3. QED
  BY <1>1, <1>2 DEF Next

\* The inductive invariant under the types.
THEOREM TypesAlways == Spec => []TypeInv
<1>1. Init => TypeInv
  BY InitTypes
<1>2. TypeInv /\ [Next]_vars => TypeInv'
  BY TypeStep
<1>3. QED
  BY <1>1, <1>2, PTL DEF Spec

\* Every register keeps its width, and no more stores are reported as done to
\* the clusters than the address generator has taken up.
THEOREM TypeCorrect == Spec => []TypeOK
<1>1. TypeInv => TypeOK
  BY DEF TypeInv
<1>2. QED
  BY <1>1, TypesAlways, PTL
-----------------------------------------------------------------------------
(* Stores of one length l: which piece is of which store.                   *)

\* the pieces of the first n stores
Upto(n, l) == n * l
\* piece k is of store n
PieceOf(k, n, l) == Upto(n - 1, l) < k /\ k <= Upto(n, l)
\* how many of the first m pieces are of store n
PartOf(m, n, l) ==
  IF m <= Upto(n - 1, l) THEN 0
  ELSE IF m >= Upto(n, l) THEN l ELSE m - Upto(n - 1, l)

LEMMA UptoNext ==
  ASSUME NEW l \in Nat \ {0}, NEW n \in Nat
  PROVE  Upto(n, l) \in Nat /\ Upto(0, l) = 0 /\ Upto(n + 1, l) = Upto(n, l) + l
BY DEF Upto

LEMMA UptoBefore ==
  ASSUME NEW l \in Nat \ {0}, NEW n \in Nat \ {0}
  PROVE  /\ Upto(n - 1, l) \in Nat /\ Upto(n, l) \in Nat /\ n - 1 \in Nat
         /\ Upto(n, l) = Upto(n - 1, l) + l
<1>1. n - 1 \in Nat /\ (n - 1) + 1 = n
  OBVIOUS
<1>2. QED
  BY <1>1, UptoNext

LEMMA UptoGrows ==
  ASSUME NEW l \in Nat \ {0}, NEW m \in Nat, NEW n \in Nat, m <= n
  PROVE  Upto(m, l) <= Upto(n, l)
<1>1. PICK d \in Nat : n = m + d
  <2>1. n - m \in Nat /\ n = m + (n - m)
    OBVIOUS
  <2>2. QED
    BY <2>1
<1>2. (m + d) * l = m * l + d * l /\ m * l \in Nat /\ d * l \in Nat
  OBVIOUS
<1>3. QED
  BY <1>1, <1>2 DEF Upto

LEMMA UptoApart ==
  ASSUME NEW l \in Nat \ {0}, NEW m \in Nat, NEW n \in Nat
  PROVE  /\ m < n => Upto(m, l) + l <= Upto(n, l)
         /\ Upto(m, l) < Upto(n, l) + l => m <= n
         /\ Upto(m, l) <= Upto(n, l) => m <= n
<1>1. ASSUME NEW i \in Nat, NEW j \in Nat, i < j PROVE Upto(i, l) + l <= Upto(j, l)
  <2>1. Upto(i + 1, l) <= Upto(j, l)
    BY <1>1, UptoGrows
  <2>2. QED
    BY <2>1, UptoNext
<1>2. Upto(m, l) \in Nat /\ Upto(n, l) \in Nat
  BY UptoNext
<1>3. m <= n \/ n < m
  OBVIOUS
<1>4. QED
  BY <1>1, <1>2, <1>3

LEMMA PieceUnique ==
  ASSUME NEW l \in Nat \ {0}, NEW k \in Nat, NEW m \in Nat \ {0}, NEW n \in Nat \ {0},
         PieceOf(k, m, l), PieceOf(k, n, l)
  PROVE  m = n
<1>1. ASSUME NEW i \in Nat \ {0}, NEW j \in Nat \ {0}, PieceOf(k, i, l), PieceOf(k, j, l)
      PROVE  i <= j
  <2>1. /\ Upto(i - 1, l) \in Nat /\ i - 1 \in Nat /\ Upto(j, l) \in Nat
        /\ Upto(j, l) = Upto(j - 1, l) + l /\ j - 1 \in Nat /\ Upto(j - 1, l) \in Nat
    BY UptoBefore
  <2>2. Upto(i - 1, l) < Upto(j - 1, l) + l
    BY <1>1, <2>1 DEF PieceOf
  <2>3. i - 1 <= j - 1
    BY <2>1, <2>2, UptoApart
  <2>4. QED
    BY <2>3
<1>2. QED
  BY <1>1

LEMMA PieceNext ==
  ASSUME NEW l \in Nat \ {0}, NEW k \in Nat, NEW m \in Nat \ {0}, NEW n \in Nat \ {0},
         PieceOf(k, m, l), PieceOf(k + 1, n, l)
  PROVE  n \in {m, m + 1}
<1>1. /\ m - 1 \in Nat /\ n - 1 \in Nat
      /\ Upto(m - 1, l) \in Nat /\ Upto(n - 1, l) \in Nat
      /\ Upto(m, l) = Upto(m - 1, l) + l /\ Upto(n, l) = Upto(n - 1, l) + l
      /\ Upto(m, l) \in Nat /\ Upto(n, l) \in Nat
  BY UptoBefore
<1>2. Upto(n - 1, l) <= Upto(m, l) /\ Upto(m - 1, l) < Upto(n - 1, l) + l
  BY <1>1 DEF PieceOf
<1>3. n - 1 <= m /\ m - 1 <= n - 1
  BY <1>1, <1>2, UptoApart
<1>4. QED
  BY <1>3

\* Pieces in order: those of one store are an interval.
LEMMA CountIsPart ==
  ASSUME NEW l \in Nat \ {0}, NEW q \in Seq(Nat \ {0}), NEW n \in Nat \ {0},
         \A k \in 1 .. Len(q) : PieceOf(k, q[k], l)
  PROVE  Count(q, n) = PartOf(Len(q), n, l)
<1>1. /\ Len(q) \in Nat /\ DOMAIN q = 1 .. Len(q)
      /\ \A k \in 1 .. Len(q) : q[k] \in Nat \ {0}
  BY LenProperties, ElementOfSeq
<1>2. /\ Upto(n - 1, l) \in Nat /\ Upto(n, l) \in Nat /\ Upto(n, l) = Upto(n - 1, l) + l
  BY UptoBefore
<1> DEFINE lo == Upto(n - 1, l) + 1
           hi == IF Len(q) <= Upto(n, l) THEN Len(q) ELSE Upto(n, l)
<1>3. \A k \in 1 .. Len(q) : q[k] = n <=> PieceOf(k, n, l)
  BY <1>1, PieceUnique
<1>4. {k \in DOMAIN q : q[k] = n} = lo .. hi
  <2>1. \A k : k \in {k2 \in DOMAIN q : q[k2] = n} <=> k \in 1 .. Len(q) /\ PieceOf(k, n, l)
    BY <1>1, <1>3
  <2>2. \A k : k \in 1 .. Len(q) /\ PieceOf(k, n, l) <=> k \in lo .. hi
    BY <1>1, <1>2 DEF PieceOf
  <2>3. QED
    BY <2>1, <2>2
<1>5. lo \in Int /\ hi \in Int
  BY <1>1, <1>2
<1> HIDE DEF lo, hi
<1>6. Cardinality(lo .. hi) = IF lo > hi THEN 0 ELSE hi - lo + 1
  BY <1>5, FS_Interval
<1>7. (IF lo > hi THEN 0 ELSE hi - lo + 1) = PartOf(Len(q), n, l)
  <2>1. PICK m \in Nat : m = Len(q)
    BY <1>1
  <2>2. PICK u \in Nat : u = Upto(n - 1, l) /\ Upto(n, l) = u + l
    BY <1>2
  <2>3. lo = u + 1 /\ hi = IF m <= u + l THEN m ELSE u + l
    BY <2>1, <2>2 DEF lo, hi
  <2>4. PartOf(Len(q), n, l) = IF m <= u THEN 0 ELSE IF m >= u + l THEN l ELSE m - u
    BY <2>1, <2>2 DEF PartOf
  <2>5. CASE m <= u
    BY <2>3, <2>4, <2>5
  <2>6. CASE ~(m <= u) /\ m <= u + l
    BY <2>3, <2>4, <2>6
  <2>7. CASE ~(m <= u + l)
    BY <2>3, <2>4, <2>7
  <2>8. QED
    BY <2>5, <2>6, <2>7
<1>8. QED
  BY <1>4, <1>6, <1>7 DEF Count

\* One piece more is one more of the store it is of.
LEMMA PartNext ==
  ASSUME NEW l \in Nat \ {0}, NEW m \in Nat, NEW c \in Nat, NEW n \in Nat \ {0},
         Upto(c, l) <= m, m < Upto(c, l) + l
  PROVE  PartOf(m + 1, n, l) = PartOf(m, n, l) + OneIf(n = c + 1)
<1>1. /\ n - 1 \in Nat /\ Upto(n - 1, l) \in Nat /\ Upto(n, l) = Upto(n - 1, l) + l
      /\ Upto(c, l) \in Nat
  BY UptoBefore, UptoNext
<1>2. CASE n = c + 1
  <2>1. n - 1 = c
    BY <1>2
  <2>2. Upto(n - 1, l) = Upto(c, l)
    BY <2>1
  <2>3. QED
    BY <1>1, <1>2, <2>2 DEF PartOf, OneIf
<1>3. CASE n - 1 < c
  <2>1. Upto(n - 1, l) + l <= Upto(c, l)
    BY <1>1, <1>3, UptoApart
  <2>2. ~(n = c + 1)
    BY <1>3
  <2>3. QED
    BY <1>1, <2>1, <2>2 DEF PartOf, OneIf
<1>4. CASE c < n - 1
  <2>1. Upto(c, l) + l <= Upto(n - 1, l)
    BY <1>1, <1>4, UptoApart
  <2>2. ~(n = c + 1)
    BY <1>4
  <2>3. QED
    BY <1>1, <2>1, <2>2 DEF PartOf, OneIf
<1>5. QED
  BY <1>1, <1>2, <1>3, <1>4

LEMMA PartBounds ==
  ASSUME NEW l \in Nat \ {0}, NEW a \in Nat, NEW m \in Nat, a <= m, NEW n \in Nat \ {0}
  PROVE  /\ PartOf(a, n, l) \in 0 .. l /\ PartOf(m, n, l) \in 0 .. l
         /\ PartOf(a, n, l) <= PartOf(m, n, l)
<1>1. Upto(n - 1, l) \in Nat /\ Upto(n, l) = Upto(n - 1, l) + l
  BY UptoBefore
<1>2. QED
  BY <1>1 DEF PartOf

LEMMA PartWhole ==
  ASSUME NEW l \in Nat \ {0}, NEW m \in Nat, NEW n \in Nat \ {0}
  PROVE  /\ PartOf(m, n, l) = l <=> m >= Upto(n, l)
         /\ m <= Upto(n - 1, l) => PartOf(m, n, l) = 0
<1>1. Upto(n - 1, l) \in Nat /\ Upto(n, l) = Upto(n - 1, l) + l
  BY UptoBefore
<1>2. QED
  BY <1>1 DEF PartOf
-----------------------------------------------------------------------------
(* How stores are cut.  In a program of stores of one length, the length    *)
(* beside an address is its own whichever store it came with, and the       *)
(* pieces leave in the order of the stores, each store's without a gap.     *)

OneLength == \A p \in Programs : \A m, n \in DOMAIN p.lens : p.lens[m] = p.lens[n]

Length == IF prog.lens = <<>> THEN 1 ELSE prog.lens[1]

\* the stores of a cut follow store a
InOrder(q, a) == \A k \in 1 .. Len(q) : q[k] = a + k
\* store a is being cut, or none
CutAt(w, left, begun, a, l) ==
  /\ w = 0 => left = 0 /\ ~begun
  /\ w # 0 => w = a /\ left \in 1 .. l /\ (begun <=> left < l)
PiecesInOrder(t, g, l) ==
  /\ \A k \in 1 .. Len(t) : PieceOf(k, t[k], l)
  /\ \A k \in 1 .. Len(g) : PieceOf(Len(t) + k, g[k], l)

CutInvFor(l) ==
  /\ last # 0 => vl = l
  /\ (awShuffle # <<>> \/ wReq # 0 \/ awGlobal # <<>>) => vlGlsu = l
  /\ awGlobal # <<>> => vlAlign = l
  /\ InOrder(awShuffle, Accepted)
  /\ CutAt(wReq, vlLeft, pushed, Accepted, l)
  /\ Len(taken) + Len(awGlobal) = Upto(Accepted, l) - vlLeft
  /\ PiecesInOrder(taken, awGlobal, l)
CutInv == Accepted >= 0 /\ CutInvFor(Length)

LEMMA LengthFacts ==
  ASSUME OneLength, TypeOK
  PROVE  /\ Length \in Nat \ {0}
         /\ \A n \in 1 .. Len(prog.lens) : prog.lens[n] = Length
<1>1. /\ prog \in Programs /\ prog.lens \in Seq(Nat \ {0}) /\ Len(prog.lens) \in Nat
      /\ \A n \in 1 .. Len(prog.lens) : prog.lens[n] \in Nat \ {0}
  BY ProgramFacts DEF TypeOK
<1>2. DOMAIN prog.lens = 1 .. Len(prog.lens)
  BY <1>1, LenProperties
<1>3. \A m, n \in 1 .. Len(prog.lens) : prog.lens[m] = prog.lens[n]
  BY <1>1, <1>2 DEF OneLength
<1>4. prog.lens # <<>> => 1 \in 1 .. Len(prog.lens)
  BY <1>1, EmptySeq
<1>5. prog.lens = <<>> => 1 .. Len(prog.lens) = {}
  OBVIOUS
<1>6. CASE prog.lens = <<>>
  BY <1>5, <1>6 DEF Length
<1>7. CASE prog.lens # <<>>
  BY <1>1, <1>3, <1>4, <1>7 DEF Length
<1>8. QED
  BY <1>6, <1>7

LEMMA InitCut == Init => CutInv
<1> SUFFICES ASSUME Init PROVE CutInv
  OBVIOUS
<1> DEFINE l == Length
<1>1. Accepted = 0 /\ Len(<<>>) = 0
  <2>1. last = 0 /\ asking = FALSE /\ awShuffle = <<>>
    BY DEF Init
  <2>2. Len(<<>>) = 0 /\ OneIf(asking) = 0 /\ Len(awShuffle) = 0
    BY <2>1 DEF OneIf
  <2>3. Asked = 0
    <3>1. last = 0 /\ OneIf(asking) = 0
      BY <2>1, <2>2
    <3>2. QED
      BY <3>1 DEF Asked
  <2>4. QED
    BY <2>2, <2>3 DEF Accepted
<1>2. Upto(0, l) = 0 * l /\ TypeOK
  BY InitTypes DEF Upto, TypeInv
<1>3. Length \in Nat
  <2>1. /\ prog.lens \in Seq(Nat \ {0}) /\ Len(prog.lens) \in Nat
        /\ \A n \in 1 .. Len(prog.lens) : prog.lens[n] \in Nat \ {0}
    BY <1>2, ProgramFacts
  <2>2. prog.lens # <<>> => 1 \in 1 .. Len(prog.lens)
    BY <2>1, EmptySeq
  <2>3. QED
    BY <2>1, <2>2 DEF Length
<1> HIDE DEF l
<1>4. Upto(0, l) = 0
  BY <1>2, <1>3 DEF l
<1>5. InOrder(<<>>, 0) /\ PiecesInOrder(<<>>, <<>>, l) /\ CutAt(0, 0, FALSE, 0, l)
  BY DEF InOrder, PiecesInOrder, CutAt
<1>6. CutInvFor(l)
  <2>1. /\ last = 0 /\ awShuffle = <<>> /\ wReq = 0 /\ awGlobal = <<>> /\ vlLeft = 0
        /\ pushed = FALSE /\ taken = <<>>
    BY DEF Init
  <2>2. /\ InOrder(awShuffle, Accepted) /\ PiecesInOrder(taken, awGlobal, l)
        /\ CutAt(wReq, vlLeft, pushed, Accepted, l)
    BY <1>1, <1>5, <2>1
  <2>3. Len(taken) + Len(awGlobal) = Upto(Accepted, l) - vlLeft
    BY <1>1, <1>4, <2>1
  <2>4. QED
    BY <2>1, <2>2, <2>3 DEF CutInvFor
<1>7. QED
  BY <1>1, <1>6 DEF CutInv, l

LEMMA OrderMoves ==
  ASSUME NEW S, NEW q \in Seq(S), NEW r, NEW a \in {0, 1}, NEW b \in {0, 1}, NEW x,
         a = 1 => q # <<>>,
         MovesTo(q, a, b, x, S, r), NEW n \in Nat, InOrder(q, n), b = 1 => x = n + Len(q) + 1
  PROVE  InOrder(r, n + a)
<1>1. /\ Len(q) \in Nat /\ Len(r) = Len(q) - a + b
      /\ \A k \in 1 .. Len(q) - a : r[k] = q[k + a]
      /\ b = 1 => r[Len(q) - a + 1] = x
  BY LenProperties DEF MovesTo
<1>2. ASSUME NEW k \in 1 .. Len(r) PROVE r[k] = n + a + k
  <2>1. CASE k \in 1 .. Len(q) - a
    <3>1. k + a \in 1 .. Len(q)
      BY <1>1, <2>1
    <3>2. r[k] = q[k + a] /\ q[k + a] = n + (k + a)
      BY <1>1, <2>1, <3>1 DEF InOrder
    <3>3. QED
      BY <3>2
  <2>2. CASE ~(k \in 1 .. Len(q) - a)
    <3>1. b = 1 /\ k = Len(q) - a + 1
      BY <1>1, <2>2
    <3>2. QED
      BY <1>1, <3>1
  <2>3. QED
    BY <2>1, <2>2
<1>3. QED
  BY <1>2 DEF InOrder

\* The unit in this cycle: a store just taken is cut from its start.
LEMMA StoreNow ==
  ASSUME TypeInv, NEW l \in Nat \ {0}, CutInvFor(l), Accepted >= 0
  PROVE  /\ Store = 0 => Left = 0 /\ ~pushed /\ ~AcceptsStore
         /\ Store # 0 => /\ Store = Accepted + OneIf(AcceptsStore)
                         /\ Left \in 1 .. l /\ (pushed <=> Left < l)
         /\ Len(taken) + Len(awGlobal) = Upto(Accepted + OneIf(AcceptsStore), l) - Left
<1>1. /\ AcceptsStore \in BOOLEAN
      /\ (AcceptsStore => wReq = 0 /\ awShuffle # <<>> /\ Store = awShuffle[1] /\ Store # 0)
      /\ (~AcceptsStore => Store = wReq)
  BY RequestFacts
<1>2. /\ (awShuffle # <<>> \/ wReq # 0 \/ awGlobal # <<>>) => vlGlsu = l
      /\ InOrder(awShuffle, Accepted)
      /\ wReq = 0 => vlLeft = 0 /\ ~pushed
      /\ wReq # 0 => wReq = Accepted /\ vlLeft \in 1 .. l /\ (pushed <=> vlLeft < l)
      /\ Len(taken) + Len(awGlobal) = Upto(Accepted, l) - vlLeft
  BY DEF CutInvFor, CutAt
<1>3. Left = IF AcceptsStore /\ vlLeft = 0 THEN vlGlsu ELSE vlLeft
  BY DEF Left
<1>4. Accepted \in Nat /\ pushed \in BOOLEAN
  <2>1. Accepted \in Int
    <3>1. last \in Nat /\ Len(awShuffle) \in Nat /\ asking \in BOOLEAN /\ pushed \in BOOLEAN
      BY ProgramFacts, LenProperties DEF TypeInv, TypeOK
    <3>2. OneIf(asking) \in {0, 1}
      BY <3>1, OneIfIs
    <3>3. QED
      BY <3>1, <3>2 DEF Accepted, Asked
  <2>2. QED
    BY <2>1 DEF TypeInv, TypeOK
<1>5. CASE AcceptsStore
  <2>1. OneIf(AcceptsStore) = 1
    BY <1>5 DEF OneIf
  <2>2. awShuffle[1] = Accepted + 1
    <3>1. 1 \in 1 .. Len(awShuffle)
      BY <1>1, <1>5, EmptySeq DEF TypeInv, TypeOK
    <3>2. QED
      BY <1>2, <3>1 DEF InOrder
  <2>3. vlLeft = 0 /\ Left = l /\ ~pushed
    BY <1>1, <1>2, <1>3, <1>5
  <2>4. Upto(Accepted + 1, l) - l = Upto(Accepted, l) - 0
    BY <1>4, UptoNext
  <2>5. Len(taken) + Len(awGlobal) = Upto(Accepted + 1, l) - l
    BY <1>2, <2>3, <2>4
  <2>6. Left \in 1 .. l /\ (pushed <=> Left < l)
    BY <2>3
  <2>7. Store = Accepted + OneIf(AcceptsStore) /\ Store # 0
    BY <1>1, <1>5, <2>1, <2>2
  <2>8. Len(taken) + Len(awGlobal) = Upto(Accepted + OneIf(AcceptsStore), l) - Left
    BY <2>1, <2>3, <2>5
  <2>9. QED
    BY <2>6, <2>7, <2>8
<1>6. CASE ~AcceptsStore
  <2>1. OneIf(AcceptsStore) = 0 /\ Left = vlLeft
    BY <1>3, <1>6 DEF OneIf
  <2>2. Accepted + 0 = Accepted
    BY <1>4
  <2>3. QED
    BY <1>1, <1>2, <1>6, <2>1, <2>2
<1>7. QED
  BY <1>5, <1>6

\* the first piece of g goes to t, if a is 1
HeadPasses(t, g, a, t2) == t2 = IF a = 1 THEN Append(t, Head(g)) ELSE t
\* in order still, and b more
PiecesMoved(t, g, b, l, t2, g2) ==
  PiecesInOrder(t2, g2, l) /\ Len(t2) + Len(g2) = Len(t) + Len(g) + b

LEMMA PiecesMove ==
  ASSUME NEW S, NEW t \in Seq(S), NEW g \in Seq(S), NEW a \in {0, 1}, NEW b \in {0, 1},
         NEW x, NEW l, NEW t2, NEW g2,
         a = 1 => g # <<>>, MovesTo(g, a, b, x, S, g2),
         HeadPasses(t, g, a, t2),
         PiecesInOrder(t, g, l), b = 1 => PieceOf(Len(t) + Len(g) + 1, x, l)
  PROVE  PiecesMoved(t, g, b, l, t2, g2)
<1>1. /\ Len(t) \in Nat /\ Len(g) \in Nat /\ Len(g2) = Len(g) - a + b
      /\ \A k \in 1 .. Len(g) - a : g2[k] = g[k + a]
      /\ b = 1 => g2[Len(g) - a + 1] = x
  BY LenProperties DEF MovesTo
<1>2. /\ \A k \in 1 .. Len(t) : PieceOf(k, t[k], l)
      /\ \A k \in 1 .. Len(g) : PieceOf(Len(t) + k, g[k], l)
  BY DEF PiecesInOrder
<1>3. /\ Len(t2) = Len(t) + a
      /\ \A k \in 1 .. Len(t) : t2[k] = t[k]
      /\ a = 1 => t2[Len(t) + 1] = g[1] /\ 1 \in 1 .. Len(g)
  <2>1. CASE a = 1
    <3>1. Head(g) \in S /\ Head(g) = g[1] /\ 1 \in 1 .. Len(g)
      BY <1>1, <2>1, HeadTailProperties, EmptySeq
    <3>2. /\ Len(Append(t, Head(g))) = Len(t) + 1
          /\ \A k \in 1 .. Len(t) : Append(t, Head(g))[k] = t[k]
          /\ Append(t, Head(g))[Len(t) + 1] = Head(g)
      BY <1>1, <3>1, AppendProperties
    <3>3. t2 = Append(t, Head(g))
      BY <2>1 DEF HeadPasses
    <3>4. QED
      BY <2>1, <3>1, <3>2, <3>3
  <2>2. CASE a = 0
    BY <1>1, <2>2 DEF HeadPasses
  <2>3. QED
    BY <2>1, <2>2
<1>8. PICK m \in Nat, n \in Nat : m = Len(t) /\ n = Len(g)
  BY <1>1
<1>9. Len(g2) = n - a + b /\ Len(t2) = m + a
  BY <1>1, <1>3, <1>8
<1>4. ASSUME NEW k \in 1 .. Len(t2) PROVE PieceOf(k, t2[k], l)
  <2>1. CASE k \in 1 .. Len(t)
    BY <1>2, <1>3, <2>1
  <2>2. CASE ~(k \in 1 .. Len(t))
    <3>1. a = 1 /\ k = Len(t) + 1
      BY <1>1, <1>3, <2>2
    <3>2. PieceOf(Len(t) + 1, g[1], l) /\ t2[Len(t) + 1] = g[1]
      BY <1>2, <1>3, <3>1
    <3>3. QED
      BY <3>1, <3>2
  <2>3. QED
    BY <2>1, <2>2
<1>5. ASSUME NEW k \in 1 .. Len(g2) PROVE PieceOf(Len(t2) + k, g2[k], l)
  <2>1. CASE k \in 1 .. Len(g) - a
    <3>1. k + a \in 1 .. Len(g) /\ Len(t) + (k + a) = Len(t2) + k
      BY <1>8, <1>9, <2>1
    <3>2. PieceOf(Len(t) + (k + a), g[k + a], l)
      BY <1>2, <3>1
    <3>3. g2[k] = g[k + a]
      BY <1>1, <2>1
    <3>4. QED
      BY <3>1, <3>2, <3>3
  <2>2. CASE ~(k \in 1 .. Len(g) - a)
    <3>1. b = 1 /\ k = Len(g) - a + 1
      BY <1>8, <1>9, <2>2
    <3>2. Len(t2) + k = Len(t) + Len(g) + 1
      BY <1>8, <1>9, <3>1
    <3>4. g2[k] = x
      BY <1>1, <3>1
    <3>3. QED
      BY <3>1, <3>2, <3>4
  <2>3. QED
    BY <2>1, <2>2
<1>6. Len(t2) + Len(g2) = Len(t) + Len(g) + b
  BY <1>8, <1>9
<1>7. QED
  BY <1>4, <1>5, <1>6 DEF PiecesInOrder, PiecesMoved

\* The lengths beside the addresses: each is l when an address is beside it.
LEMMA LengthsStep ==
  ASSUME TypeInv, NEW l \in Nat \ {0}, CutInvFor(l),
         \A n \in 1 .. Len(prog.lens) : prog.lens[n] = l,
         NEW takeUp \in BOOLEAN, NEW mem \in MemoryMoves, Cycle(takeUp, mem)
  PROVE  /\ last' # 0 => vl' = l
         /\ (awShuffle' # <<>> \/ wReq' # 0 \/ awGlobal' # <<>>) => vlGlsu' = l
         /\ awGlobal' # <<>> => vlAlign' = l
<1>1. /\ AddressGenerator(takeUp) /\ WriteRequests /\ Registers(mem)
  BY DEF Cycle
<1>2. /\ last # 0 => vl = l
      /\ (awShuffle # <<>> \/ wReq # 0 \/ awGlobal # <<>>) => vlGlsu = l
      /\ awGlobal # <<>> => vlAlign = l
  BY DEF CutInvFor
<1>3. last \in 0 .. Len(prog.lens) /\ Len(prog.lens) \in Nat
  BY ProgramFacts DEF TypeInv, TypeOK
<1>4. /\ vlGlsu' = vl /\ vlAlign' = vlGlsu
      /\ vl' = IF takeUp THEN prog.lens[last + 1] ELSE vl
      /\ last' = last + OneIf(takeUp)
      /\ takeUp => last < Len(prog.lens)
  BY <1>1 DEF Registers, AddressGenerator, CanTakeUp
<1>5. last' # 0 => vl' = l
  BY <1>2, <1>3, <1>4 DEF OneIf
<1>6. (awShuffle' # <<>> \/ wReq' # 0 \/ awGlobal' # <<>>) => last # 0
  <2>1. awShuffle' \in Seq(1 .. last) /\ awGlobal' \in Seq(1 .. last) /\ wReq' \in 0 .. last
    BY <1>1, ShuffleCut, GlobalCut, RequestStep DEF MovesTo
  <2>2. ASSUME NEW s \in Seq(1 .. last), s # <<>> PROVE last # 0
    <3>1. Head(s) \in 1 .. last
      BY <2>2, HeadTailProperties
    <3>2. QED
      BY <1>3, <3>1
  <2>3. QED
    BY <1>3, <2>1, <2>2
<1>7. awGlobal' # <<>> => vlGlsu = l
  <2>1. SendsPiece => vlGlsu = l
    <3>1. SendsPiece => Store # 0
      BY RequestFacts
    <3>2. Store # 0 => wReq # 0 \/ awShuffle # <<>>
      BY RequestFacts
    <3>3. QED
      BY <1>2, <3>1, <3>2
  <2>2. awGlobal = <<>> /\ ~SendsPiece => awGlobal' = <<>>
    <3>1. SUFFICES ASSUME awGlobal = <<>>, ~SendsPiece PROVE awGlobal' = <<>>
      OBVIOUS
    <3>2. ~TakesPiece(mem)
      BY <3>1 DEF TakesPiece
    <3>3. awGlobal' = awGlobal \o <<>>
      BY <1>1, <3>1, <3>2 DEF Registers
    <3>4. QED
      BY <3>1, <3>3
  <2>3. QED
    BY <1>2, <2>1, <2>2
<1>8. QED
  BY <1>2, <1>4, <1>5, <1>6, <1>7

LEMMA CutStepFor ==
  ASSUME TypeInv, NEW l \in Nat \ {0}, CutInvFor(l), Accepted >= 0,
         \A n \in 1 .. Len(prog.lens) : prog.lens[n] = l,
         NEW takeUp \in BOOLEAN, NEW mem \in MemoryMoves, Cycle(takeUp, mem)
  PROVE  CutInvFor(l)' /\ Accepted' >= 0
<1>1. /\ AddressGenerator(takeUp) /\ WriteRequests /\ Registers(mem) /\ Align(mem) /\ Memory(mem)
  BY DEF Cycle
<1>2. /\ Accepted \in Int /\ Accepted' = Accepted + OneIf(AcceptsStore)
      /\ AcceptsStore \in BOOLEAN /\ Asks \in BOOLEAN /\ TakesPiece(mem) \in BOOLEAN
      /\ SendsPiece \in BOOLEAN
  BY <1>1, RequestStep, RequestFacts DEF Asks, TakesPiece
<1>3. PICK n \in Nat : n = Accepted
  BY <1>2
<1>4. PICK a \in {0, 1} : a = OneIf(AcceptsStore) /\ (a = 1 <=> AcceptsStore)
  BY <1>2, OneIfIs
<1>5. PICK b \in {0, 1} : b = OneIf(Asks) /\ (b = 1 <=> Asks)
  BY <1>2, OneIfIs
<1>6. PICK c \in {0, 1} : c = OneIf(TakesPiece(mem)) /\ (c = 1 <=> TakesPiece(mem))
  BY <1>2, OneIfIs
<1>7. PICK d \in {0, 1} : d = OneIf(SendsPiece) /\ (d = 1 <=> SendsPiece)
  BY <1>2, OneIfIs
<1>8. Accepted' = n + a
  BY <1>2, <1>3, <1>4
<1>9. /\ awShuffle \in Seq(1 .. last) /\ awGlobal \in Seq(1 .. last) /\ taken \in Seq(1 .. last)
      /\ Len(awShuffle) \in Nat /\ Len(awGlobal) \in Nat /\ Len(taken) \in Nat /\ last \in Nat
      /\ asking \in BOOLEAN
  BY ProgramFacts, LenProperties DEF TypeInv, TypeOK
<1>10. InOrder(awShuffle', n + a)
  <2>1. MovesTo(awShuffle, a, b, last, 1 .. last, awShuffle')
    BY <1>1, <1>4, <1>5, ShuffleCut
  <2>2. a = 1 => awShuffle # <<>>
    BY <1>4, RequestFacts
  <2>3. b = 1 => last = n + Len(awShuffle) + 1
    <3>1. b = 1 => asking
      BY <1>5 DEF Asks
    <3>2. asking => Asked = last - 1
      BY DEF Asked, OneIf
    <3>3. n = Asked - Len(awShuffle)
      BY <1>3 DEF Accepted
    <3>4. QED
      BY <1>9, <3>1, <3>2, <3>3
  <2>4. InOrder(awShuffle, n)
    BY <1>3 DEF CutInvFor
  <2>5. QED
    BY <1>9, <2>1, <2>2, <2>3, <2>4, OrderMoves
<1>11. PICK s \in 0 .. last : s = Store
  BY RequestFacts
<1>12. PICK f \in Nat : f = Left
  BY RequestFacts
<1>13. /\ s = 0 => f = 0 /\ ~pushed /\ a = 0
       /\ s # 0 => s = n + a /\ f \in 1 .. l /\ (pushed <=> f < l)
       /\ Len(taken) + Len(awGlobal) = Upto(n + a, l) - f
  <2>1. /\ Store = 0 => Left = 0 /\ ~pushed /\ ~AcceptsStore
        /\ Store # 0 => /\ Store = Accepted + OneIf(AcceptsStore)
                        /\ Left \in 1 .. l /\ (pushed <=> Left < l)
        /\ Len(taken) + Len(awGlobal) = Upto(Accepted + OneIf(AcceptsStore), l) - Left
    BY StoreNow
  <2>2. QED
    BY <1>3, <1>4, <1>11, <1>12, <2>1
<1>14. /\ d = 1 => s # 0
       /\ LastPiece <=> d = 1 /\ f <= 1
       /\ wReq' = IF LastPiece THEN 0 ELSE s
       /\ vlLeft' = IF LastPiece THEN 0 ELSE IF SendsPiece THEN f - 1 ELSE f
       /\ pushed' = IF SendsPiece THEN ~LastPiece ELSE pushed
  BY <1>1, <1>7, <1>11, <1>12, RequestFacts DEF WriteRequests
<1>15. CutAt(wReq', vlLeft', pushed', n + a, l) /\ vlLeft' = f - d
  <2>1. CASE d = 0
    <3>1. ~LastPiece /\ ~SendsPiece
      BY <1>7, <1>14, <2>1
    <3>2. wReq' = s /\ vlLeft' = f /\ pushed' = pushed
      BY <1>14, <3>1
    <3>3. QED
      BY <1>13, <2>1, <3>2 DEF CutAt
  <2>2. CASE d = 1 /\ f <= 1
    <3>1. LastPiece /\ SendsPiece /\ f = 1
      BY <1>7, <1>13, <1>14, <2>2
    <3>2. wReq' = 0 /\ vlLeft' = 0 /\ ~pushed'
      BY <1>14, <3>1
    <3>3. QED
      BY <2>2, <3>1, <3>2 DEF CutAt
  <2>3. CASE d = 1 /\ ~(f <= 1)
    <3>1. ~LastPiece /\ SendsPiece
      BY <1>7, <1>14, <2>3
    <3>2. wReq' = s /\ vlLeft' = f - 1 /\ pushed'
      BY <1>14, <3>1
    <3>3. s # 0 /\ s = n + a /\ f - 1 \in 1 .. l /\ f - 1 < l
      BY <1>13, <1>14, <2>3
    <3>4. QED
      BY <2>3, <3>2, <3>3 DEF CutAt
  <2>4. QED
    BY <2>1, <2>2, <2>3
<1>16. PiecesInOrder(taken', awGlobal', l) /\ Len(taken') + Len(awGlobal') = Len(taken) + Len(awGlobal) + d
  <2>1. MovesTo(awGlobal, c, d, s, 1 .. last, awGlobal')
    BY <1>1, <1>6, <1>7, <1>11, GlobalCut
  <2>2. HeadPasses(taken, awGlobal, c, taken')
    BY <1>1, <1>6 DEF Memory, HeadPasses
  <2>3. c = 1 => awGlobal # <<>>
    BY <1>6 DEF TakesPiece
  <2>4. d = 1 => PieceOf(Len(taken) + Len(awGlobal) + 1, s, l)
    <3>1. SUFFICES ASSUME d = 1 PROVE PieceOf(Upto(n + a, l) - f + 1, s, l)
      BY <1>13
    <3>2. s = n + a /\ f \in 1 .. l /\ s \in Nat \ {0}
      BY <1>13, <1>14, <3>1
    <3>3. Upto(s, l) = Upto(s - 1, l) + l /\ Upto(s - 1, l) \in Nat
      BY <3>2, UptoBefore
    <3>4. QED
      BY <3>2, <3>3 DEF PieceOf
  <2>5. PiecesInOrder(taken, awGlobal, l)
    BY DEF CutInvFor
  <2>6. PiecesMoved(taken, awGlobal, d, l, taken', awGlobal')
    BY <1>9, <2>1, <2>2, <2>3, <2>4, <2>5, PiecesMove
  <2>7. QED
    BY <2>6 DEF PiecesMoved
<1>17. Len(taken') + Len(awGlobal') = Upto(n + a, l) - vlLeft'
  <2>1. n + a \in Nat
    OBVIOUS
  <2>2. Upto(n + a, l) \in Nat
    BY <2>1, UptoNext
  <2>3. PICK r \in Nat : r = Upto(n + a, l)
    BY <2>2
  <2>4. Len(taken) + Len(awGlobal) = r - f /\ vlLeft' = f - d
    BY <1>13, <1>15, <2>3
  <2>5. Len(taken') + Len(awGlobal') = r - (f - d)
    BY <1>9, <1>16, <2>4
  <2>6. QED
    BY <2>3, <2>4, <2>5
<1>18. /\ last' # 0 => vl' = l
       /\ (awShuffle' # <<>> \/ wReq' # 0 \/ awGlobal' # <<>>) => vlGlsu' = l
       /\ awGlobal' # <<>> => vlAlign' = l
  BY LengthsStep
<1>19. CutInvFor(l)'
  <2>1. InOrder(awShuffle', Accepted') /\ CutAt(wReq', vlLeft', pushed', Accepted', l)
    BY <1>8, <1>10, <1>15
  <2>2. Len(taken') + Len(awGlobal') = Upto(Accepted', l) - vlLeft'
    BY <1>8, <1>17
  <2>3. QED
    BY <1>16, <1>18, <2>1, <2>2 DEF CutInvFor
<1>20. QED
  BY <1>8, <1>19

LEMMA CutStep == OneLength /\ TypeInv /\ CutInv /\ [Next]_vars => CutInv'
<1> SUFFICES ASSUME OneLength, TypeInv, CutInv, [Next]_vars PROVE CutInv'
  OBVIOUS
<1>1. PICK l \in Nat \ {0} : l = Length /\ \A n \in 1 .. Len(prog.lens) : prog.lens[n] = l
  BY LengthFacts DEF TypeInv
<1>2. CutInvFor(l) /\ Accepted >= 0
  BY <1>1 DEF CutInv
<1>3. ASSUME NEW takeUp \in BOOLEAN, NEW mem \in MemoryMoves, Cycle(takeUp, mem)
      PROVE  CutInv'
  <2>1. CutInvFor(l)' /\ Accepted' >= 0
    BY <1>1, <1>2, <1>3, CutStepFor
  <2>2. Length' = l
    BY <1>1, <1>3 DEF Cycle, AddressGenerator, Length
  <2>3. QED
    BY <2>1, <2>2 DEF CutInv
<1>4. CASE UNCHANGED vars
  BY <1>4 DEF vars, CutInv, CutInvFor, Length, Accepted, Asked
<1>5. QED
  BY <1>3, <1>4 DEF Next

\* What travels towards the memory is in the order of the stores, beside the
\* one length.
THEOREM CutAlways == ASSUME OneLength PROVE Spec => []CutInv
<1>1. Init => CutInv
  BY InitCut
<1>2. TypeInv /\ CutInv /\ [Next]_vars => CutInv'
  BY CutStep
<1>3. QED
  BY <1>1, <1>2, TypesAlways, PTL DEF Spec

LEMMA AcceptedFacts ==
  ASSUME TypeInv
  PROVE  Accepted \in Int /\ Accepted <= last /\ last \in Nat
<1>1. last \in Nat /\ Len(awShuffle) \in Nat /\ asking \in BOOLEAN
  BY ProgramFacts, LenProperties DEF TypeInv, TypeOK
<1>2. OneIf(asking) \in {0, 1}
  BY <1>1, OneIfIs
<1>3. QED
  BY <1>1, <1>2 DEF Accepted, Asked

\* Pieces in order, as many as whole stores and the started part of one more.
LEMMA CountSent ==
  ASSUME NEW l \in Nat \ {0}, NEW q \in Seq(Nat \ {0}),
         \A k \in 1 .. Len(q) : PieceOf(k, q[k], l),
         NEW a \in Nat, NEW left \in 0 .. l, Len(q) = Upto(a, l) - left, left # 0 => a # 0,
         NEW n \in Nat \ {0}
  PROVE  Count(q, n) = IF n > a THEN 0 ELSE IF n = a THEN l - left ELSE l
<1>1. /\ Upto(a, l) \in Nat /\ n - 1 \in Nat /\ Upto(n - 1, l) \in Nat
      /\ Upto(n, l) \in Nat /\ Upto(n, l) = Upto(n - 1, l) + l
  BY UptoNext, UptoBefore
<1>2. Count(q, n) = PartOf(Upto(a, l) - left, n, l)
  BY CountIsPart
<1>3. CASE n > a
  <2>1. a <= n - 1
    BY <1>3
  <2>2. Upto(a, l) <= Upto(n - 1, l)
    BY <1>1, <2>1, UptoGrows
  <2>3. PartOf(Upto(a, l) - left, n, l) = 0
    BY <1>1, <2>2 DEF PartOf
  <2>4. QED
    BY <1>2, <1>3, <2>3
<1>4. CASE n = a
  <2>1. PartOf(Upto(a, l) - left, n, l) = l - left
    BY <1>1, <1>4 DEF PartOf
  <2>2. QED
    BY <1>2, <1>4, <2>1
<1>5. CASE n < a
  <2>1. Upto(n, l) + l <= Upto(a, l)
    BY <1>5, UptoApart
  <2>2. PartOf(Upto(a, l) - left, n, l) = l
    BY <1>1, <2>1 DEF PartOf
  <2>3. QED
    BY <1>2, <1>5, <2>2
<1>6. QED
  BY <1>3, <1>4, <1>5

LEMMA CutIsOwn == OneLength /\ TypeInv /\ CutInv => CutByItsOwnLength
<1> SUFFICES ASSUME OneLength, TypeInv, CutInv PROVE CutByItsOwnLength
  OBVIOUS
<1> DEFINE sent == taken \o awGlobal
<1>1. PICK l \in Nat \ {0} : l = Length /\ \A n \in 1 .. Len(prog.lens) : prog.lens[n] = l
  BY LengthFacts DEF TypeInv
<1>2. CutInvFor(l) /\ Accepted >= 0
  BY <1>1 DEF CutInv
<1>3. /\ taken \in Seq(1 .. last) /\ awGlobal \in Seq(1 .. last) /\ last \in 0 .. Len(prog.lens)
      /\ Len(prog.lens) \in Nat /\ wReq \in 0 .. last /\ vlLeft \in Nat
      /\ Len(taken) \in Nat /\ Len(awGlobal) \in Nat
  BY ProgramFacts, LenProperties DEF TypeInv, TypeOK
<1>4. /\ CutAt(wReq, vlLeft, pushed, Accepted, l)
      /\ Len(taken) + Len(awGlobal) = Upto(Accepted, l) - vlLeft
      /\ PiecesInOrder(taken, awGlobal, l)
  BY <1>2 DEF CutInvFor
<1>5. /\ sent \in Seq(1 .. last) /\ Len(sent) = Len(taken) + Len(awGlobal)
      /\ \A k \in 1 .. Len(taken) + Len(awGlobal) :
           sent[k] = IF k <= Len(taken) THEN taken[k] ELSE awGlobal[k - Len(taken)]
  BY <1>3, ConcatProperties
<1>6. CutByItsOwnLength <=>
        /\ \A k \in 1 .. Len(sent) - 1 : sent[k + 1] \in {sent[k], sent[k] + 1}
        /\ \A n \in 1 .. last :
             IF n = wReq THEN Count(sent, n) < prog.lens[n]
             ELSE Count(sent, n) \in {0, prog.lens[n]}
  BY DEF CutByItsOwnLength
<1> HIDE DEF sent
<1>7. ASSUME NEW k \in 1 .. Len(sent) PROVE PieceOf(k, sent[k], l)
  <2>1. CASE k <= Len(taken)
    <3>1. k \in 1 .. Len(taken) /\ sent[k] = taken[k]
      BY <1>3, <1>5, <1>7, <2>1
    <3>2. QED
      BY <1>4, <3>1 DEF PiecesInOrder
  <2>2. CASE ~(k <= Len(taken))
    <3>1. /\ k - Len(taken) \in 1 .. Len(awGlobal) /\ sent[k] = awGlobal[k - Len(taken)]
          /\ Len(taken) + (k - Len(taken)) = k
      BY <1>3, <1>5, <1>7, <2>2
    <3>2. PieceOf(Len(taken) + (k - Len(taken)), awGlobal[k - Len(taken)], l)
      BY <1>4, <3>1 DEF PiecesInOrder
    <3>3. QED
      BY <3>1, <3>2
  <2>3. QED
    BY <2>1, <2>2
<1>8. sent \in Seq(Nat \ {0}) /\ Len(sent) \in Nat
  <2>1. 1 .. last \subseteq Nat \ {0}
    BY <1>3
  <2>2. QED
    BY <1>5, <2>1, SeqMonotonic, LenProperties
<1>9. \A k \in 1 .. Len(sent) - 1 : sent[k + 1] \in {sent[k], sent[k] + 1}
  <2>1. ASSUME NEW k \in 1 .. Len(sent) - 1 PROVE sent[k + 1] \in {sent[k], sent[k] + 1}
    <3>1. k \in 1 .. Len(sent) /\ k + 1 \in 1 .. Len(sent) /\ k \in Nat
      BY <1>8
    <3>2. PieceOf(k, sent[k], l) /\ PieceOf(k + 1, sent[k + 1], l)
      BY <1>7, <3>1
    <3>3. sent[k] \in Nat \ {0} /\ sent[k + 1] \in Nat \ {0}
      BY <1>8, <3>1, ElementOfSeq
    <3>4. QED
      BY <3>1, <3>2, <3>3, PieceNext
  <2>2. QED
    BY <2>1
<1>10. PICK a \in Nat : a = Accepted
  BY <1>2, AcceptedFacts
<1>11. ASSUME NEW n \in 1 .. last
       PROVE  IF n = wReq THEN Count(sent, n) < prog.lens[n]
              ELSE Count(sent, n) \in {0, prog.lens[n]}
  <2>1. n \in Nat \ {0} /\ prog.lens[n] = l
    BY <1>1, <1>3
  <2>2. vlLeft \in 0 .. l /\ (vlLeft # 0 <=> wReq # 0) /\ (wReq # 0 => wReq = a)
    BY <1>4, <1>10 DEF CutAt
  <2>3. vlLeft # 0 => a # 0
    BY <2>2
  <2>4. Len(sent) = Upto(a, l) - vlLeft
    BY <1>4, <1>5, <1>10
  <2>5. PICK left \in 0 .. l : left = vlLeft
    BY <2>2
  <2>6. Count(sent, n) = IF n > a THEN 0 ELSE IF n = a THEN l - left ELSE l
    <3>1. \A k \in 1 .. Len(sent) : PieceOf(k, sent[k], l)
      BY <1>7
    <3>2. Len(sent) = Upto(a, l) - left /\ (left # 0 => a # 0) /\ n \in Nat \ {0}
      BY <2>1, <2>3, <2>4, <2>5
    <3>3. QED
      BY <1>8, <3>1, <3>2, CountSent
  <2>7. CASE n = wReq
    <3>1. n = a /\ left # 0
      BY <2>1, <2>2, <2>5, <2>7
    <3>2. Count(sent, n) = l - left
      BY <2>6, <3>1
    <3>3. QED
      BY <2>1, <2>7, <3>1, <3>2
  <2>8. CASE n # wReq
    <3>1. n = a => left = 0
      BY <2>2, <2>5, <2>8
    <3>2. Count(sent, n) \in {0, l}
      BY <2>6, <3>1
    <3>3. QED
      BY <2>1, <2>8, <3>2
  <2>9. QED
    BY <2>7, <2>8
<1>12. QED
  BY <1>6, <1>9, <1>11

\* Every store is cut into the pieces of its own length, whatever waits where,
\* if the stores have one length: the length beside the address then is the
\* address's own even when it belongs to a later store.
THEOREM CutAlwaysOwn == ASSUME OneLength PROVE Spec => []CutByItsOwnLength
<1>1. TypeInv /\ CutInv => CutByItsOwnLength
  BY CutIsOwn
<1>2. Spec => []TypeInv
  BY TypesAlways
<1>3. Spec => []CutInv
  BY CutAlways
<1>4. QED
  BY <1>1, <1>2, <1>3, PTL
-----------------------------------------------------------------------------
(* The answers.  In a program of stores of one length, with room for all    *)
(* live stores in the trackers and the B FIFO, counts that hold a store's   *)
(* pieces and a memory that answers when it has all the addresses of a      *)
(* store, the align stage's count of the oldest store is what is left of    *)
(* its answers.                                                             *)

Patient == \A p \in Programs : ~p.hasty
RoomForLive == Live <= Trackers /\ Live <= FifoDepth
CountHolds == \A p \in Programs : \A n \in DOMAIN p.lens : p.lens[n] <= 2 * Trackers

\* m pieces have come to the align stage: c whole stores and v pieces of the next
AlignAt(c, m, v, b, l) == m = Upto(c, l) + v /\ v < l /\ b = c % Trackers
\* a answers have come: those of d whole stores and of less than one more
AnsweredAt(d, a, b, l) ==
  Upto(d, l) <= a /\ a < Upto(d, l) + l /\ b = d % Trackers
\* the trackers hold what is outstanding of each of the stores from d + 1 on
TrackersAt(track, d, m, a, l) ==
  \A n \in d + 1 .. d + Trackers :
    track[(n - 1) % Trackers] = (PartOf(m, n, l) - PartOf(a, n, l)) % (2 * Trackers)

AnswerInvFor(l) ==
  /\ \E c \in 0 .. last : AlignAt(c, Len(taken), wrVl, bPnt, l)
  /\ AnsweredAt(done, answered, bCommitPnt, l)
  /\ TrackersAt(bTrack, done, Len(taken), answered, l)
AnswerInv ==
  /\ last <= done + Live
  /\ bFifo + done = Started
  /\ AnswerInvFor(Length)

LEMMA NextCount ==
  ASSUME NEW x \in Nat, NEW w \in Nat \ {0}
  PROVE  ((x % w) + 1) % w = (x + 1) % w
<1>1. PICK q \in Nat, r \in 0 .. w - 1 : x = w * q + r /\ r = x % w
  BY DivModParts
<1>2. CASE r + 1 < w
  <2>1. r + 1 \in 0 .. w - 1 /\ x + 1 = w * q + (r + 1) /\ r + 1 = w * 0 + (r + 1)
    BY <1>1, <1>2
  <2>2. (w * q + (r + 1)) % w = r + 1 /\ (w * 0 + (r + 1)) % w = r + 1
    BY <2>1, DivModUnique
  <2>3. QED
    BY <1>1, <2>1, <2>2
<1>3. CASE ~(r + 1 < w)
  <2>1. r + 1 = w /\ 0 \in 0 .. w - 1 /\ q + 1 \in Nat
    BY <1>3
  <2>2. r + 1 = w * 1 + 0 /\ x + 1 = w * (q + 1) + 0
    BY <1>1, <2>1
  <2>3. (w * (q + 1) + 0) % w = 0 /\ (w * 1 + 0) % w = 0
    BY <2>1, DivModUnique
  <2>4. QED
    BY <1>1, <2>2, <2>3
<1>4. QED
  BY <1>2, <1>3

LEMMA LastCount ==
  ASSUME NEW x \in Nat \ {0}, NEW w \in Nat \ {0}
  PROVE  ((x % w) + w - 1) % w = (x - 1) % w
<1>1. PICK y \in Nat : x = y + 1
  <2>1. x - 1 \in Nat /\ x = (x - 1) + 1
    OBVIOUS
  <2>2. QED
    BY <2>1
<1>2. PICK q \in Nat, r \in 0 .. w - 1 : y = w * q + r /\ r = y % w
  BY DivModParts
<1>3. x % w = (r + 1) % w
  BY <1>1, <1>2, NextCount
<1>4. (((r + 1) % w) + w - 1) % w = r
  <2>1. CASE r + 1 < w
    <3>1. r + 1 \in 0 .. w - 1 /\ r + 1 = w * 0 + (r + 1)
      BY <2>1
    <3>2. (r + 1) % w = r + 1
      BY <3>1, DivModUnique
    <3>3. (r + 1) + w - 1 = w * 1 + r
      OBVIOUS
    <3>4. (w * 1 + r) % w = r
      BY DivModUnique
    <3>5. QED
      BY <3>2, <3>3, <3>4
  <2>2. CASE ~(r + 1 < w)
    <3>1. r + 1 = w * 1 + 0 /\ 0 \in 0 .. w - 1 /\ r = w - 1
      BY <2>2
    <3>2. (r + 1) % w = 0
      BY <3>1, DivModUnique
    <3>3. 0 + w - 1 = w * 0 + r
      BY <3>1
    <3>4. (w * 0 + r) % w = r
      BY DivModUnique
    <3>5. QED
      BY <3>2, <3>3, <3>4
  <2>3. QED
    BY <2>1, <2>2
<1>5. x - 1 = y
  BY <1>1
<1>6. QED
  BY <1>2, <1>3, <1>4, <1>5

\* Different numbers in a window of w have different remainders.
LEMMA WindowApart ==
  ASSUME NEW w \in Nat \ {0}, NEW d \in Nat, NEW i \in d .. d + w - 1, NEW j \in d .. d + w - 1,
         i % w = j % w
  PROVE  i = j
<1>1. PICK p \in Nat, r \in Nat : i = w * p + r /\ r = i % w
  <2>1. i \in Nat
    OBVIOUS
  <2>2. i \div w \in Nat /\ i % w \in 0 .. w - 1 /\ i = w * (i \div w) + (i % w)
    BY <2>1, DivModParts
  <2>3. i % w \in Nat
    BY <2>2
  <2>4. QED
    BY <2>2, <2>3
<1>2. PICK q \in Nat : j = w * q + r
  <2>1. j \in Nat
    OBVIOUS
  <2>2. j \div w \in Nat /\ j = w * (j \div w) + (j % w)
    BY <2>1, DivModParts
  <2>3. QED
    BY <1>1, <2>2
<1>3. Upto(p, w) = w * p /\ Upto(q, w) = w * q /\ Upto(p, w) \in Nat /\ Upto(q, w) \in Nat
  BY DEF Upto
<1>4. i = Upto(p, w) + r /\ j = Upto(q, w) + r
  BY <1>1, <1>2, <1>3
<1>5. Upto(p, w) < Upto(q, w) + w /\ Upto(q, w) < Upto(p, w) + w
  BY <1>3, <1>4
<1>6. p <= q /\ q <= p
  BY <1>5, UptoApart
<1>7. p = q
  BY <1>6
<1>8. QED
  BY <1>4, <1>7

\* The align stage's pointer and count of pieces.
LEMMA AlignMoves ==
  ASSUME NEW l \in Nat \ {0}, NEW c \in Nat, NEW m \in Nat, NEW v \in Nat, NEW b,
         AlignAt(c, m, v, b, l)
  PROVE  /\ v + 1 >= l => AlignAt(c + 1, m + 1, 0, (b + 1) % Trackers, l)
         /\ ~(v + 1 >= l) => AlignAt(c, m + 1, v + 1, b, l)
<1>1. m = Upto(c, l) + v /\ v < l /\ b = c % Trackers
  BY DEF AlignAt
<1>2. Upto(c, l) \in Nat /\ Upto(c + 1, l) = Upto(c, l) + l
  BY UptoNext
<1>3. CASE v + 1 >= l
  <2>1. m + 1 = Upto(c + 1, l) + 0 /\ 0 < l
    BY <1>1, <1>2, <1>3
  <2>2. (b + 1) % Trackers = (c + 1) % Trackers
    BY <1>1, SizesAssumption, NextCount
  <2>3. QED
    BY <1>3, <2>1, <2>2 DEF AlignAt
<1>4. CASE ~(v + 1 >= l)
  <2>1. m + 1 = Upto(c, l) + (v + 1) /\ v + 1 < l
    BY <1>1, <1>2, <1>4
  <2>2. QED
    BY <1>1, <1>4, <2>1 DEF AlignAt
<1>5. QED
  BY <1>3, <1>4

\* The pointer to the oldest store, and the count of the answers.
LEMMA AnsweredMoves ==
  ASSUME NEW l \in Nat \ {0}, NEW d \in Nat, NEW a \in Nat, NEW b, AnsweredAt(d, a, b, l)
  PROVE  /\ a + 1 = Upto(d + 1, l) => AnsweredAt(d + 1, a + 1, (b + 1) % Trackers, l)
         /\ a + 1 # Upto(d + 1, l) => AnsweredAt(d, a + 1, b, l)
<1>1. Upto(d, l) <= a /\ a < Upto(d, l) + l /\ b = d % Trackers
  BY DEF AnsweredAt
<1>2. Upto(d, l) \in Nat /\ Upto(d + 1, l) = Upto(d, l) + l
  BY UptoNext
<1>3. (b + 1) % Trackers = (d + 1) % Trackers
  BY <1>1, SizesAssumption, NextCount
<1>4. QED
  BY <1>1, <1>2, <1>3 DEF AnsweredAt

\* What a cycle does to the trackers: a piece at b, if t is 1, an answer at e, if a is 1.
Tracked(track, t, b, a, e) ==
  LET counted == IF t = 1 THEN [track EXCEPT ![b] = (@ + 1) % (2 * Trackers)] ELSE track
  IN IF a = 1 THEN [counted EXCEPT ![e] = (@ + 2 * Trackers - 1) % (2 * Trackers)] ELSE counted

LEMMA TrackedEntries ==
  ASSUME NEW track \in [Entries -> Nat], NEW t \in {0, 1}, NEW a \in {0, 1},
         NEW b \in Entries, NEW e \in Entries, t = 1 /\ a = 1 => b # e, NEW i \in Entries
  PROVE  Tracked(track, t, b, a, e)[i] =
           IF t = 1 /\ i = b THEN (track[i] + 1) % (2 * Trackers)
           ELSE IF a = 1 /\ i = e THEN (track[i] + 2 * Trackers - 1) % (2 * Trackers)
           ELSE track[i]
<1> DEFINE counted == IF t = 1 THEN [track EXCEPT ![b] = (@ + 1) % (2 * Trackers)] ELSE track
<1>1. /\ DOMAIN counted = Entries
      /\ \A k \in Entries : counted[k] = IF t = 1 /\ k = b THEN (track[k] + 1) % (2 * Trackers)
                                         ELSE track[k]
  OBVIOUS
<1>2. Tracked(track, t, b, a, e) =
        IF a = 1 THEN [counted EXCEPT ![e] = (@ + 2 * Trackers - 1) % (2 * Trackers)] ELSE counted
  BY DEF Tracked
<1> HIDE DEF counted
<1>3. Tracked(track, t, b, a, e)[i] =
        IF a = 1 /\ i = e THEN (counted[i] + 2 * Trackers - 1) % (2 * Trackers) ELSE counted[i]
  BY <1>1, <1>2
<1>4. a = 1 /\ i = e => ~(t = 1 /\ i = b)
  OBVIOUS
<1>5. QED
  BY <1>1, <1>3, <1>4

\* The trackers are right for the stores of the window after a cycle.
LEMMA TrackersKeep ==
  ASSUME NEW l \in Nat \ {0}, NEW c \in Nat, NEW d \in Nat, NEW m \in Nat, NEW v \in Nat,
         NEW a \in Nat, NEW b \in Entries, NEW e \in Entries, NEW track \in [Entries -> Nat],
         NEW t \in {0, 1}, NEW n1 \in {0, 1},
         AlignAt(c, m, v, b, l), AnsweredAt(d, a, e, l), TrackersAt(track, d, m, a, l),
         a <= m, a + n1 <= m + t, t = 1 => c < d + Trackers,
         n1 = 1 => m >= Upto(d + 1, l)
  PROVE  TrackersAt(Tracked(track, t, b, n1, e), d, m + t, a + n1, l)
<1> SUFFICES ASSUME NEW n \in d + 1 .. d + Trackers
             PROVE  Tracked(track, t, b, n1, e)[(n - 1) % Trackers]
                      = (PartOf(m + t, n, l) - PartOf(a + n1, n, l)) % (2 * Trackers)
  BY DEF TrackersAt
<1>1. Trackers \in Nat \ {0} /\ 2 * Trackers \in Nat \ {0}
  BY SizesAssumption
<1>2. /\ m = Upto(c, l) + v /\ v < l /\ b = c % Trackers
      /\ Upto(d, l) <= a /\ a < Upto(d, l) + l /\ e = d % Trackers
  BY DEF AlignAt, AnsweredAt
<1>3. /\ Upto(c, l) \in Nat /\ Upto(d, l) \in Nat /\ Upto(d + 1, l) = Upto(d, l) + l
  BY UptoNext
<1>4. n \in Nat \ {0} /\ n - 1 \in d .. d + Trackers - 1 /\ n - 1 \in Nat
  BY <1>1
<1>5. Upto(d, l) < Upto(c, l) + l
  BY <1>2, <1>3
<1>6. d <= c
  BY <1>5, UptoApart
<1>7. n1 = 1 => d < c
  <2>1. SUFFICES ASSUME n1 = 1, d = c PROVE FALSE
    BY <1>6
  <2>2. Upto(d, l) + l <= Upto(c, l) + v /\ Upto(c, l) = Upto(d, l)
    BY <1>2, <1>3, <2>1
  <2>3. QED
    BY <1>2, <1>3, <2>2
<1> DEFINE i == (n - 1) % Trackers
           P == PartOf(m, n, l)
           A == PartOf(a, n, l)
<1>8. i \in Entries
  BY <1>1, <1>4, DivModParts DEF Entries
<1>9. t = 1 => (i = b <=> n = c + 1)
  <2>1. SUFFICES ASSUME t = 1 PROVE i = b <=> n = c + 1
    OBVIOUS
  <2>2. c \in d .. d + Trackers - 1
    BY <1>1, <1>6, <2>1
  <2>3. n - 1 = c <=> n = c + 1
    BY <1>4
  <2>4. (n - 1) % Trackers = c % Trackers => n - 1 = c
    BY <1>1, <1>4, <2>2, WindowApart
  <2>5. QED
    BY <1>2, <2>3, <2>4
<1>10. i = e <=> n = d + 1
  <2>1. d \in d .. d + Trackers - 1
    BY <1>1
  <2>2. n - 1 = d <=> n = d + 1
    BY <1>4
  <2>3. (n - 1) % Trackers = d % Trackers => n - 1 = d
    BY <1>1, <1>4, <2>1, WindowApart
  <2>4. QED
    BY <1>2, <2>2, <2>3
<1>11. t = 1 /\ n1 = 1 => b # e
  <2>1. SUFFICES ASSUME t = 1, n1 = 1, b = e PROVE FALSE
    OBVIOUS
  <2>2. c \in d .. d + Trackers - 1 /\ d \in d .. d + Trackers - 1
    BY <1>1, <1>6, <2>1
  <2>3. c = d
    BY <1>1, <1>2, <2>1, <2>2, WindowApart
  <2>4. QED
    BY <1>7, <2>1, <2>3
<1>12. track[i] = (P - A) % (2 * Trackers)
  BY DEF TrackersAt
<1>13. P \in 0 .. l /\ A \in 0 .. l /\ A <= P
  BY <1>4, PartBounds
<1>14. PartOf(m + t, n, l) = P + (IF t = 1 /\ n = c + 1 THEN 1 ELSE 0)
  <2>1. PartOf(m + 1, n, l) = P + OneIf(n = c + 1)
    <3>1. Upto(c, l) <= m /\ m < Upto(c, l) + l
      BY <1>2, <1>3
    <3>2. QED
      BY <1>4, <3>1, PartNext
  <2>2. m + 0 = m
    OBVIOUS
  <2>3. QED
    BY <1>13, <2>1, <2>2 DEF OneIf
<1>15. PartOf(a + n1, n, l) = A + (IF n1 = 1 /\ n = d + 1 THEN 1 ELSE 0)
  <2>1. PartOf(a + 1, n, l) = A + OneIf(n = d + 1)
    BY <1>2, <1>4, PartNext
  <2>2. a + 0 = a
    OBVIOUS
  <2>3. QED
    BY <1>13, <2>1, <2>2 DEF OneIf
<1>16. Tracked(track, t, b, n1, e)[i] =
         IF t = 1 /\ i = b THEN (track[i] + 1) % (2 * Trackers)
         ELSE IF n1 = 1 /\ i = e THEN (track[i] + 2 * Trackers - 1) % (2 * Trackers)
         ELSE track[i]
  BY <1>8, <1>11, TrackedEntries
<1>17. PartOf(m + t, n, l) \in Nat /\ PartOf(a + n1, n, l) <= PartOf(m + t, n, l)
  <2>1. a + n1 \in Nat /\ m + t \in Nat
    OBVIOUS
  <2>2. /\ PartOf(m + t, n, l) \in 0 .. l
        /\ PartOf(a + n1, n, l) <= PartOf(m + t, n, l)
    BY <1>4, <2>1, PartBounds
  <2>3. QED
    BY <2>2
<1>18. PICK x \in Nat : x = P - A
  BY <1>13
<1>19. track[i] = x % (2 * Trackers)
  BY <1>12, <1>18
<1> HIDE DEF i, P, A
<1>20. CASE t = 1 /\ n = c + 1
  <2>1. Tracked(track, t, b, n1, e)[i] = ((x % (2 * Trackers)) + 1) % (2 * Trackers)
    BY <1>9, <1>16, <1>19, <1>20
  <2>2. ((x % (2 * Trackers)) + 1) % (2 * Trackers) = (x + 1) % (2 * Trackers)
    BY <1>1, NextCount
  <2>3. ~(n1 = 1 /\ n = d + 1)
    BY <1>7, <1>20
  <2>4. PartOf(m + t, n, l) - PartOf(a + n1, n, l) = x + 1
    BY <1>13, <1>14, <1>15, <1>18, <1>20, <2>3
  <2>5. QED
    BY <2>1, <2>2, <2>4 DEF i
<1>21. CASE ~(t = 1 /\ n = c + 1) /\ n1 = 1 /\ n = d + 1
  <2>1. Tracked(track, t, b, n1, e)[i] = ((x % (2 * Trackers)) + 2 * Trackers - 1) % (2 * Trackers)
    BY <1>9, <1>10, <1>16, <1>19, <1>21
  <2>2. PartOf(m + t, n, l) - PartOf(a + n1, n, l) = x - 1
    BY <1>13, <1>14, <1>15, <1>18, <1>21
  <2>3. x # 0
    BY <1>13, <1>14, <1>15, <1>17, <1>18, <1>21
  <2>4. ((x % (2 * Trackers)) + 2 * Trackers - 1) % (2 * Trackers) = (x - 1) % (2 * Trackers)
    BY <1>1, <2>3, LastCount
  <2>5. QED
    BY <2>1, <2>2, <2>4 DEF i
<1>22. CASE ~(t = 1 /\ n = c + 1) /\ ~(n1 = 1 /\ n = d + 1)
  <2>1. Tracked(track, t, b, n1, e)[i] = x % (2 * Trackers)
    BY <1>9, <1>10, <1>16, <1>19, <1>22
  <2>2. PartOf(m + t, n, l) - PartOf(a + n1, n, l) = x
    BY <1>13, <1>14, <1>15, <1>18, <1>22
  <2>3. QED
    BY <2>1, <2>2 DEF i
<1>23. QED
  BY <1>20, <1>21, <1>22

\* The window moves on when its first store is done.
LEMMA TrackersShift ==
  ASSUME NEW l \in Nat \ {0}, NEW d \in Nat, NEW m \in Nat, NEW a \in Nat, NEW track,
         TrackersAt(track, d, m, a, l), a <= m, a = Upto(d + 1, l), m <= Upto(d + Trackers, l)
  PROVE  TrackersAt(track, d + 1, m, a, l)
<1>1. Trackers \in Nat \ {0} /\ 2 * Trackers \in Nat \ {0}
  BY SizesAssumption
<1> DEFINE held(n) == track[(n - 1) % Trackers]
           out(n) == (PartOf(m, n, l) - PartOf(a, n, l)) % (2 * Trackers)
<1>2. \A n \in d + 1 .. d + Trackers : held(n) = out(n)
  BY DEF TrackersAt
<1>3. held(d + Trackers + 1) = out(d + Trackers + 1)
  <2>1. d + 1 \in d + 1 .. d + Trackers /\ d + 1 \in Nat \ {0} /\ d + Trackers + 1 \in Nat \ {0}
        /\ (d + Trackers + 1) - 1 = d + Trackers /\ (d + 1) - 1 = d
    BY <1>1
  <2>2. (d + Trackers) % Trackers = d % Trackers
    BY <1>1, DivModPlusDivisor
  <2>3. held(d + Trackers + 1) = held(d + 1)
    BY <2>1, <2>2
  <2>4. PartOf(m, d + 1, l) = l /\ PartOf(a, d + 1, l) = l
    BY <2>1, PartWhole
  <2>5. Upto(d + Trackers, l) \in Nat
    BY <1>1, UptoNext
  <2>6. a <= Upto((d + Trackers + 1) - 1, l) /\ m <= Upto((d + Trackers + 1) - 1, l)
    BY <2>1, <2>5
  <2>7. PartOf(m, d + Trackers + 1, l) = 0 /\ PartOf(a, d + Trackers + 1, l) = 0
    BY <2>1, <2>6, PartWhole
  <2>8. out(d + 1) = (l - l) % (2 * Trackers) /\ out(d + Trackers + 1) = (0 - 0) % (2 * Trackers)
    BY <2>4, <2>7
  <2>9. l - l = 0 /\ 0 - 0 = 0
    OBVIOUS
  <2>10. held(d + 1) = out(d + 1)
    BY <1>2, <2>1
  <2>11. QED
    BY <2>3, <2>8, <2>9, <2>10
<1> HIDE DEF held, out
<1>4. ASSUME NEW n \in d + 1 + 1 .. d + 1 + Trackers PROVE held(n) = out(n)
  <2>1. n \in d + 1 .. d + Trackers \/ n = d + Trackers + 1
    BY <1>1
  <2>2. QED
    BY <1>2, <1>3, <2>1
<1>5. QED
  BY <1>4 DEF TrackersAt, held, out

\* An answer is for the oldest store, which has come to the align stage as a
\* whole, and is let through when it is the last one.
LEMMA AnswerFacts ==
  ASSUME TypeInv, NEW l \in Nat \ {0}, CutInvFor(l), Accepted >= 0, AnswerInvFor(l),
         bFifo + done = Started, \A n \in 1 .. Len(prog.lens) : prog.lens[n] = l,
         Patient, CountHolds, NEW mem \in MemoryMoves, Memory(mem), mem.answer
  PROVE  /\ Len(taken) >= Upto(done + 1, l)
         /\ LetThrough(mem) <=> answered + 1 = Upto(done + 1, l)
         /\ bFifo > 0
<1>1. /\ taken \in Seq(1 .. last) /\ Len(taken) \in Nat /\ answered \in Nat /\ done \in Nat
      /\ last \in 0 .. Len(prog.lens) /\ Len(prog.lens) \in Nat /\ wrCnt \in Nat
      /\ Len(awGlobal) \in Nat /\ prog \in Programs /\ bFifo \in Nat /\ vlLeft \in Nat
      /\ Trackers \in Nat \ {0, 1} /\ prog.lens \in Seq(Nat \ {0})
  <2>1. Trackers \in Nat \ {0, 1} /\ FifoDepth \in Nat
    BY SizesAssumption
  <2>2. /\ taken \in Seq(1 .. last) /\ awGlobal \in Seq(1 .. last)
        /\ last \in 0 .. Len(prog.lens) /\ prog \in Programs /\ vlLeft \in Nat
        /\ wrCnt \in 0 .. Trackers /\ bFifo \in 0 .. FifoDepth
        /\ answered \in 0 .. Len(taken) /\ done \in 0 .. last
    BY DEF TypeInv, TypeOK
  <2>3. Len(prog.lens) \in Nat /\ prog.lens \in Seq(Nat \ {0})
    BY ProgramFacts DEF TypeInv
  <2>4. Len(taken) \in Nat /\ Len(awGlobal) \in Nat
    BY <2>2, LenProperties
  <2>5. QED
    BY <2>1, <2>2, <2>3, <2>4
<1>2. AnsweredAt(done, answered, bCommitPnt, l) /\ TrackersAt(bTrack, done, Len(taken), answered, l)
  BY DEF AnswerInvFor
<1>3. Upto(done, l) <= answered /\ answered < Upto(done, l) + l /\ bCommitPnt = done % Trackers
  BY <1>2 DEF AnsweredAt
<1>4. Upto(done, l) \in Nat /\ Upto(done + 1, l) = Upto(done, l) + l /\ done + 1 \in Nat \ {0}
      /\ (done + 1) - 1 = done
  <2>1. done \in Nat
    BY <1>1
  <2>2. Upto(done, l) \in Nat /\ Upto(done + 1, l) = Upto(done, l) + l
    BY <2>1, UptoNext
  <2>3. done + 1 \in Nat \ {0} /\ (done + 1) - 1 = done
    BY <2>1
  <2>4. QED
    BY <2>2, <2>3
<1>5. /\ answered < Len(taken) - wrCnt
      /\ Count(taken, taken[answered + 1]) = prog.lens[taken[answered + 1]]
  BY <1>1 DEF Memory, MayAnswer, Patient
<1>6. answered + 1 \in 1 .. Len(taken) /\ answered + 1 \in Nat
  BY <1>1, <1>5
<1>7. taken[answered + 1] \in 1 .. last /\ taken[answered + 1] \in Nat \ {0}
  <2>1. taken[answered + 1] \in 1 .. last
    BY <1>1, <1>6, ElementOfSeq
  <2>2. QED
    BY <1>1, <2>1
<1>8. \A k \in 1 .. Len(taken) : PieceOf(k, taken[k], l)
  BY DEF CutInvFor, PiecesInOrder
<1>9. taken[answered + 1] = done + 1
  <2>1. PieceOf(answered + 1, taken[answered + 1], l)
    BY <1>6, <1>8
  <2>2. PieceOf(answered + 1, done + 1, l)
    BY <1>1, <1>3, <1>4 DEF PieceOf
  <2>3. QED
    BY <1>4, <1>6, <1>7, <2>1, <2>2, PieceUnique
<1>10. done + 1 \in 1 .. Len(prog.lens) /\ prog.lens[done + 1] = l /\ done + 1 <= last
  <2>1. done + 1 \in 1 .. last
    BY <1>7, <1>9
  <2>2. last \in 0 .. Len(prog.lens) /\ Len(prog.lens) \in Nat
    BY <1>1
  <2>3. done + 1 \in 1 .. Len(prog.lens) /\ done + 1 <= last
    BY <2>1, <2>2
  <2>4. QED
    BY <2>3
<1>11. PartOf(Len(taken), done + 1, l) = l
  <2>1. taken \in Seq(Nat \ {0})
    <3>1. 1 .. last \subseteq Nat \ {0}
      BY <1>1
    <3>2. QED
      BY <1>1, <3>1, SeqMonotonic
  <2>2. Count(taken, done + 1) = PartOf(Len(taken), done + 1, l)
    BY <1>4, <1>8, <2>1, CountIsPart
  <2>3. QED
    BY <1>5, <1>9, <1>10, <2>2
<1>12. Len(taken) >= Upto(done + 1, l)
  BY <1>1, <1>4, <1>11, PartWhole
<1>13. l <= 2 * Trackers
  <2>1. done + 1 \in DOMAIN prog.lens
    BY <1>1, <1>10, LenProperties
  <2>2. prog.lens[done + 1] <= 2 * Trackers
    BY <1>1, <2>1 DEF CountHolds
  <2>3. QED
    BY <1>10, <2>2
<1>14. PICK y \in 1 .. 2 * Trackers : y = Upto(done + 1, l) - answered
  <2>1. Upto(done + 1, l) - answered \in 1 .. l
    BY <1>1, <1>3, <1>4
  <2>2. 1 .. l \subseteq 1 .. 2 * Trackers
    BY <1>1, <1>13
  <2>3. QED
    BY <2>1, <2>2
<1>15. bTrack[bCommitPnt] = y % (2 * Trackers)
  <2>1. done + 1 \in done + 1 .. done + Trackers
    BY <1>1
  <2>2. bTrack[((done + 1) - 1) % Trackers]
          = (PartOf(Len(taken), done + 1, l) - PartOf(answered, done + 1, l)) % (2 * Trackers)
    BY <1>2, <2>1 DEF TrackersAt
  <2>3. PartOf(answered, done + 1, l) = answered - Upto(done, l)
    BY <1>1, <1>3, <1>4 DEF PartOf
  <2>4. l - (answered - Upto(done, l)) = y
    BY <1>1, <1>4, <1>14
  <2>5. QED
    BY <1>3, <1>4, <1>11, <2>2, <2>3, <2>4
<1>16. y % (2 * Trackers) = 1 <=> y = 1
  <2> DEFINE w == 2 * Trackers
  <2>1. w \in Nat \ {0, 1} /\ y \in 1 .. w
    BY <1>1
  <2> HIDE DEF w
  <2>2. CASE y = w
    <3>1. y = w * 1 + 0 /\ 0 \in 0 .. w - 1 /\ 1 \in Nat
      BY <2>1, <2>2
    <3>2. (w * 1 + 0) % w = 0
      BY <2>1, <3>1, DivModUnique
    <3>3. y % w = 0 /\ y # 1
      BY <2>1, <2>2, <3>1, <3>2
    <3>4. QED
      BY <3>3 DEF w
  <2>3. CASE y # w
    <3>1. y = w * 0 + y /\ y \in 0 .. w - 1
      BY <2>1, <2>3
    <3>2. (w * 0 + y) % w = y
      BY <2>1, <3>1, DivModUnique
    <3>3. y % w = y
      BY <3>1, <3>2
    <3>4. QED
      BY <3>3 DEF w
  <2>4. QED
    BY <2>2, <2>3
<1>17. y = 1 <=> answered + 1 = Upto(done + 1, l)
  <2>1. PICK u \in Nat : u = Upto(done + 1, l)
    BY <1>4
  <2>2. answered \in Nat /\ Trackers \in Nat
    BY <1>1
  <2>3. y \in Int /\ y = u - answered
    BY <1>14, <2>1, <2>2
  <2>4. y = 1 <=> answered + 1 = u
    BY <2>2, <2>3
  <2>5. QED
    BY <2>1, <2>4
<1>18. LetThrough(mem) <=> answered + 1 = Upto(done + 1, l)
  BY <1>15, <1>16, <1>17 DEF LetThrough
<1>19. bFifo > 0
  <2>1. PICK a \in Nat : a = Accepted
    BY AcceptedFacts
  <2>2. /\ Len(taken) + Len(awGlobal) = Upto(a, l) - vlLeft
        /\ wReq = 0 => ~pushed
        /\ wReq # 0 => vlLeft \in 1 .. l /\ (pushed <=> vlLeft < l)
    BY <2>1 DEF CutInvFor, CutAt
  <2>3. Upto(a, l) \in Nat
    BY UptoNext
  <2>4. CASE wReq # 0 /\ ~pushed
    <3>1. vlLeft = l
      BY <2>2, <2>4
    <3>2. Upto(done + 1, l) + l <= Upto(a, l)
      BY <1>1, <1>4, <1>12, <2>2, <2>3, <3>1
    <3>3. Upto(done + 1, l) < Upto(a, l)
      BY <1>1, <1>4, <2>3, <3>2
    <3>4. done + 1 <= a /\ done + 1 # a
      <4>1. done + 1 <= a
        BY <1>4, <2>3, <3>3, UptoApart
      <4>2. done + 1 # a
        BY <1>1, <1>4, <3>3
      <4>3. QED
        BY <4>1, <4>2
    <3>5. Started = a - 1
      BY <2>1, <2>4 DEF Started, OneIf
    <3>6. QED
      BY <1>1, <3>4, <3>5
  <2>5. CASE ~(wReq # 0 /\ ~pushed)
    <3>1. Upto(done + 1, l) <= Upto(a, l)
      BY <1>1, <1>4, <1>12, <2>2, <2>3
    <3>2. done + 1 <= a
      BY <1>4, <3>1, UptoApart
    <3>3. Started = a
      <4>1. Started = a - 0
        BY <2>1, <2>5 DEF Started, OneIf
      <4>2. QED
        BY <4>1
    <3>4. QED
      BY <1>1, <3>2, <3>3
  <2>6. QED
    BY <2>4, <2>5
<1>20. QED
  BY <1>12, <1>18, <1>19

\* A store whose first piece is sent has been taken up.
LEMMA StartedFacts ==
  ASSUME TypeInv
  PROVE  PushesB => Started + 1 <= last
<1>1. SUFFICES ASSUME PushesB PROVE Started + 1 <= last
  OBVIOUS
<1>2. /\ last \in Nat /\ asking \in BOOLEAN /\ awShuffle \in Seq(1 .. last)
      /\ Len(awShuffle) \in Nat /\ pushed \in BOOLEAN
  BY ProgramFacts, LenProperties DEF TypeInv, TypeOK
<1>3. Accepted \in Int /\ Accepted <= last
  BY AcceptedFacts
<1>4. Store # 0 /\ ~pushed
  BY <1>1, RequestFacts
<1>5. CASE AcceptsStore
  <2>1. wReq = 0 /\ awShuffle # <<>>
    BY <1>5, RequestFacts
  <2>2. Len(awShuffle) > 0
    BY <1>2, <2>1, EmptySeq
  <2>3. OneIf(asking) \in {0, 1}
    BY <1>2, OneIfIs
  <2>4. Accepted + 1 <= last
    BY <1>2, <2>2, <2>3 DEF Accepted, Asked
  <2>5. Started = Accepted - 0
    BY <2>1 DEF Started, OneIf
  <2>6. QED
    BY <1>3, <2>4, <2>5
<1>6. CASE ~AcceptsStore
  <2>1. wReq # 0
    BY <1>4, <1>6, RequestFacts
  <2>2. Started = Accepted - 1
    BY <1>4, <2>1 DEF Started, OneIf
  <2>3. QED
    BY <1>2, <1>3, <2>2
<1>7. QED
  BY <1>5, <1>6

\* What the align stage has taken is of live stores, and what it takes next is
\* a piece of the store it counts.
LEMMA TakenFacts ==
  ASSUME TypeInv, NEW l \in Nat \ {0}, CutInvFor(l), Accepted >= 0, last <= done + Live,
         RoomForLive, NEW c \in Nat, AlignAt(c, Len(taken), wrVl, bPnt, l)
  PROVE  /\ Len(taken) <= Upto(done + Trackers, l)
         /\ awGlobal # <<>> => /\ Len(taken) + 1 <= Upto(done + Trackers, l)
                               /\ c + 1 <= last /\ c < done + Trackers /\ vlAlign = l
<1>1. Trackers \in Nat /\ Live \in Nat /\ Live <= Trackers
  BY SizesAssumption DEF RoomForLive
<1>2. /\ taken \in Seq(1 .. last) /\ awGlobal \in Seq(1 .. last) /\ last \in Nat
      /\ done \in 0 .. last /\ vlLeft \in Nat
  BY ProgramFacts DEF TypeInv, TypeOK
<1>3. Len(taken) \in Nat /\ Len(awGlobal) \in Nat
  BY <1>2, LenProperties
<1>4. PICK w \in Nat : w = done + Trackers
  BY <1>1, <1>2
<1>5. last <= w
  BY <1>1, <1>2, <1>4
<1>6. Upto(w, l) \in Nat
  BY UptoNext
<1>7. Len(taken) <= Upto(w, l)
  <2>1. PICK a \in Nat : a = Accepted /\ a <= last
    BY AcceptedFacts
  <2>2. Len(taken) + Len(awGlobal) = Upto(a, l) - vlLeft
    BY <2>1 DEF CutInvFor
  <2>3. a <= w
    BY <1>2, <1>5, <2>1
  <2>4. Upto(a, l) <= Upto(w, l) /\ Upto(a, l) \in Nat
    BY <2>3, UptoGrows, UptoNext
  <2>5. QED
    BY <1>2, <1>3, <1>6, <2>2, <2>4
<1>8. ASSUME awGlobal # <<>>
      PROVE  Len(taken) + 1 <= Upto(w, l) /\ c + 1 <= last /\ c < w /\ vlAlign = l
  <2>1. vlAlign = l
    BY <1>8 DEF CutInvFor
  <2>2. awGlobal[1] \in 1 .. last /\ Len(awGlobal) # 0
    BY <1>2, <1>8, HeadTailProperties, EmptySeq
  <2>3. PieceOf(Len(taken) + 1, awGlobal[1], l)
    <3>1. 1 \in 1 .. Len(awGlobal)
      BY <1>3, <2>2
    <3>2. QED
      BY <3>1 DEF CutInvFor, PiecesInOrder
  <2>4. Len(taken) = Upto(c, l) + wrVl /\ wrVl < l
    BY DEF AlignAt
  <2>5. Upto(c, l) \in Nat /\ Upto(c + 1, l) = Upto(c, l) + l
    BY UptoNext
  <2>6. wrVl \in Nat
    BY DEF TypeInv, TypeOK
  <2>7. c + 1 \in Nat \ {0} /\ (c + 1) - 1 = c
    OBVIOUS
  <2>8. Len(taken) + 1 <= Upto(c + 1, l) /\ Upto(c, l) < Len(taken) + 1
    BY <2>4, <2>5, <2>6
  <2>9. PieceOf(Len(taken) + 1, c + 1, l)
    BY <2>7, <2>8 DEF PieceOf
  <2>10. awGlobal[1] = c + 1
    <3>1. Len(taken) + 1 \in Nat /\ awGlobal[1] \in Nat \ {0}
      BY <1>2, <1>3, <2>2
    <3>2. QED
      BY <2>3, <2>7, <2>9, <3>1, PieceUnique
  <2>11. c + 1 <= last /\ c + 1 <= w /\ c < w
    BY <1>2, <1>5, <2>2, <2>10
  <2>12. Upto(c + 1, l) <= Upto(w, l)
    BY <2>7, <2>11, UptoGrows
  <2>13. Upto(c + 1, l) \in Nat
    BY <2>5
  <2>14. Len(taken) + 1 <= Upto(w, l)
    BY <1>3, <1>6, <2>8, <2>12, <2>13
  <2>15. QED
    BY <2>1, <2>11, <2>14
<1>9. QED
  BY <1>4, <1>7, <1>8

\* What goes through the align stage and the B FIFO in a cycle.
LEMMA AnswerStepFor ==
  ASSUME TypeInv, NEW l \in Nat \ {0}, CutInvFor(l), Accepted >= 0, AnswerInvFor(l),
         bFifo + done = Started, last <= done + Live,
         \A n \in 1 .. Len(prog.lens) : prog.lens[n] = l,
         Patient, CountHolds, RoomForLive,
         NEW takeUp \in BOOLEAN, NEW mem \in MemoryMoves, Cycle(takeUp, mem)
  PROVE  AnswerInvFor(l)' /\ last' <= done' + Live /\ bFifo' + done' = Started'
<1>1. /\ AddressGenerator(takeUp) /\ WriteRequests /\ Registers(mem) /\ Align(mem)
      /\ WriteResponses(mem) /\ Memory(mem)
  BY DEF Cycle
<1>2. Trackers \in Nat \ {0, 1} /\ FifoDepth \in Nat /\ Live \in Nat /\ Live <= FifoDepth
  BY SizesAssumption DEF RoomForLive
<1>3. /\ taken \in Seq(1 .. last) /\ last \in Nat /\ bFifo \in 0 .. FifoDepth
      /\ bPnt \in Entries /\ bCommitPnt \in Entries /\ bTrack \in [Entries -> 0 .. 2 * Trackers - 1]
      /\ answered \in 0 .. Len(taken) /\ done \in 0 .. last /\ wrVl \in Nat
  BY ProgramFacts DEF TypeInv, TypeOK
<1>4. PICK m \in Nat : m = Len(taken)
  BY <1>3, LenProperties
<1>5. PICK a \in Nat : a = answered
  BY <1>3, <1>4
<1>6. PICK d \in Nat : d = done
  BY <1>3
<1>7. PICK c \in 0 .. last : AlignAt(c, m, wrVl, bPnt, l)
  BY <1>4 DEF AnswerInvFor
<1>8. PICK t \in {0, 1} : t = OneIf(TakesPiece(mem)) /\ (t = 1 <=> TakesPiece(mem))
  <2>1. TakesPiece(mem) \in BOOLEAN
    BY DEF TakesPiece
  <2>2. QED
    BY <2>1, OneIfIs
<1>9. PICK x \in {0, 1} : x = OneIf(mem.answer) /\ (x = 1 <=> mem.answer)
  <2>1. mem.answer \in BOOLEAN
    BY DEF MemoryMoves
  <2>2. QED
    BY <2>1, OneIfIs
<1>10. PICK r \in {0, 1} : r = OneIf(Reports(mem)) /\ (r = 1 <=> Reports(mem))
  <2>1. Reports(mem) \in BOOLEAN
    BY DEF Reports, LetThrough
  <2>2. QED
    BY <2>1, OneIfIs
<1>11. /\ r = 1 <=> LetThrough(mem)
       /\ r = 1 <=> x = 1 /\ a + 1 = Upto(d + 1, l)
       /\ x = 1 => m >= Upto(d + 1, l)
  <2>1. CASE mem.answer
    <3>1. /\ Len(taken) >= Upto(done + 1, l)
          /\ LetThrough(mem) <=> answered + 1 = Upto(done + 1, l)
          /\ bFifo > 0
      BY <1>1, <2>1, AnswerFacts
    <3>2. QED
      BY <1>4, <1>5, <1>6, <1>9, <1>10, <2>1, <3>1 DEF Reports
  <2>2. CASE ~mem.answer
    BY <1>9, <1>10, <2>2 DEF Reports, LetThrough
  <2>3. QED
    BY <2>1, <2>2
<1>12. /\ Len(taken') = m + t /\ answered' = a + x /\ a + x <= m + t /\ done' = d + r
  <2>1. /\ Len(taken') = Len(taken) + OneIf(TakesPiece(mem))
        /\ answered' = answered + OneIf(mem.answer) /\ answered' \in 0 .. Len(taken')
    BY <1>1, AlignStep
  <2>2. Len(taken') = m + t /\ answered' = a + x
    BY <1>4, <1>5, <1>8, <1>9, <2>1
  <2>3. a + x \in 0 .. m + t
    BY <2>1, <2>2
  <2>4. a + x <= m + t
    BY <2>3
  <2>5. done' = d + r
    BY <1>1, <1>6, <1>10 DEF WriteResponses
  <2>6. QED
    BY <2>2, <2>4, <2>5
<1>13. /\ m <= Upto(d + Trackers, l)
       /\ t = 1 => m + 1 <= Upto(d + Trackers, l) /\ c + 1 <= last /\ c < d + Trackers /\ vlAlign = l
  <2>1. c \in Nat /\ AlignAt(c, Len(taken), wrVl, bPnt, l)
    BY <1>3, <1>4, <1>7
  <2>2. /\ Len(taken) <= Upto(done + Trackers, l)
        /\ awGlobal # <<>> => /\ Len(taken) + 1 <= Upto(done + Trackers, l)
                              /\ c + 1 <= last /\ c < done + Trackers /\ vlAlign = l
    BY <2>1, TakenFacts
  <2>3. t = 1 => awGlobal # <<>>
    BY <1>8 DEF TakesPiece
  <2>4. QED
    BY <1>4, <1>6, <2>2, <2>3
<1>14. last' \in Nat /\ last <= last' /\ last' = last + OneIf(takeUp)
  <2>1. last' \in last .. Len(prog.lens)
    BY <1>1, AddressStep
  <2>2. Len(prog.lens) \in Nat
    BY ProgramFacts DEF TypeInv
  <2>3. QED
    BY <1>1, <1>3, <2>1, <2>2 DEF AddressGenerator
<1>15. \E c2 \in 0 .. last' : AlignAt(c2, m + t, wrVl', bPnt', l)
  <2>1. c \in Nat /\ c \in 0 .. last'
    BY <1>3, <1>14
  <2>2. /\ wrVl' = IF TakesPiece(mem) /\ ClosesStore THEN 0 ELSE wrVl + OneIf(TakesPiece(mem))
        /\ bPnt' = IF TakesPiece(mem) /\ ClosesStore THEN (bPnt + 1) % Trackers ELSE bPnt
    BY <1>1 DEF Align
  <2>3. /\ wrVl + 1 >= l => AlignAt(c + 1, m + 1, 0, (bPnt + 1) % Trackers, l)
        /\ ~(wrVl + 1 >= l) => AlignAt(c, m + 1, wrVl + 1, bPnt, l)
    BY <1>3, <1>7, <2>1, AlignMoves
  <2>4. CASE t = 0
    <3>1. wrVl' = wrVl /\ bPnt' = bPnt /\ m + t = m
      <4>1. wrVl' = wrVl + t /\ bPnt' = bPnt
        BY <1>8, <2>2, <2>4
      <4>2. wrVl + 0 = wrVl /\ m + 0 = m
        BY <1>3
      <4>3. QED
        BY <2>4, <4>1, <4>2
    <3>2. QED
      BY <1>7, <2>1, <3>1
  <2>5. CASE t = 1 /\ wrVl + 1 >= l
    <3>1. ClosesStore /\ TakesPiece(mem)
      BY <1>8, <1>13, <2>5 DEF ClosesStore
    <3>2. wrVl' = 0 /\ bPnt' = (bPnt + 1) % Trackers
      BY <2>2, <3>1
    <3>3. c + 1 \in 0 .. last'
      BY <1>3, <1>13, <1>14, <2>1, <2>5
    <3>4. QED
      BY <2>3, <2>5, <3>2, <3>3
  <2>6. CASE t = 1 /\ ~(wrVl + 1 >= l)
    <3>1. ~ClosesStore /\ TakesPiece(mem)
      BY <1>8, <1>13, <2>6 DEF ClosesStore
    <3>2. wrVl' = wrVl + 1 /\ bPnt' = bPnt
      BY <1>8, <2>2, <2>6, <3>1
    <3>3. QED
      BY <2>1, <2>3, <2>6, <3>2
  <2>7. QED
    BY <2>4, <2>5, <2>6
<1>16. AnsweredAt(d, a, bCommitPnt, l) /\ TrackersAt(bTrack, d, m, a, l)
  BY <1>4, <1>5, <1>6 DEF AnswerInvFor
<1>17. AnsweredAt(d + r, a + x, bCommitPnt', l)
  <2>1. bCommitPnt' = IF r = 1 THEN (bCommitPnt + 1) % Trackers ELSE bCommitPnt
    BY <1>1, <1>11 DEF Align
  <2>2. /\ a + 1 = Upto(d + 1, l) => AnsweredAt(d + 1, a + 1, (bCommitPnt + 1) % Trackers, l)
        /\ a + 1 # Upto(d + 1, l) => AnsweredAt(d, a + 1, bCommitPnt, l)
    BY <1>16, AnsweredMoves
  <2>3. d + 0 = d /\ a + 0 = a
    OBVIOUS
  <2>4. CASE r = 1
    <3>1. x = 1 /\ a + 1 = Upto(d + 1, l)
      BY <1>11, <2>4
    <3>2. QED
      BY <2>1, <2>2, <2>4, <3>1
  <2>5. CASE r = 0 /\ x = 1
    <3>1. a + 1 # Upto(d + 1, l)
      BY <1>11, <2>5
    <3>2. QED
      BY <2>1, <2>2, <2>3, <2>5, <3>1
  <2>6. CASE r = 0 /\ x = 0
    BY <1>16, <2>1, <2>3, <2>6
  <2>7. QED
    BY <1>11, <2>4, <2>5, <2>6
<1>18. TrackersAt(bTrack', d, m + t, a + x, l)
  <2>1. bTrack' = Tracked(bTrack, t, bPnt, x, bCommitPnt)
    BY <1>1, <1>8, <1>9 DEF Align, Tracked
  <2>2. bTrack \in [Entries -> Nat]
    <3>1. 0 .. 2 * Trackers - 1 \subseteq Nat
      BY <1>2
    <3>2. QED
      BY <1>3, <3>1
  <2>3. a <= m /\ c \in Nat
    BY <1>3, <1>4, <1>5
  <2>4. QED
    BY <1>3, <1>7, <1>11, <1>12, <1>13, <1>16, <2>1, <2>2, <2>3, TrackersKeep
<1>19. TrackersAt(bTrack', d + r, m + t, a + x, l)
  <2>1. CASE r = 0
    <3>1. d + 0 = d
      OBVIOUS
    <3>2. QED
      BY <1>18, <2>1, <3>1
  <2>2. CASE r = 1
    <3>1. x = 1 /\ a + x = Upto(d + 1, l)
      BY <1>11, <2>2
    <3>2. m + t <= Upto(d + Trackers, l)
      <4>1. m + 0 = m
        OBVIOUS
      <4>2. QED
        BY <1>13, <4>1
    <3>3. m + t \in Nat /\ a + x \in Nat
      OBVIOUS
    <3>4. TrackersAt(bTrack', d + 1, m + t, a + x, l)
      BY <1>12, <1>18, <3>1, <3>2, <3>3, TrackersShift
    <3>5. QED
      BY <2>2, <3>4
  <2>3. QED
    BY <2>1, <2>2
<1>20. AnswerInvFor(l)'
  <2>1. \E c2 \in 0 .. last' : AlignAt(c2, Len(taken'), wrVl', bPnt', l)
    BY <1>12, <1>15
  <2>2. AnsweredAt(done', answered', bCommitPnt', l)
    BY <1>12, <1>17
  <2>3. TrackersAt(bTrack', done', Len(taken'), answered', l)
    BY <1>12, <1>19
  <2>4. QED
    BY <2>1, <2>2, <2>3 DEF AnswerInvFor
<1>21. last' <= done' + Live
  <2>1. PICK k \in {0, 1} : k = OneIf(takeUp) /\ (k = 1 <=> takeUp)
    BY OneIfIs
  <2>2. k = 1 => last - d < Live
    BY <1>1, <1>6, <2>1 DEF AddressGenerator, CanTakeUp
  <2>3. last <= d + Live
    BY <1>6
  <2>4. last + k <= (d + r) + Live
    BY <1>2, <1>3, <2>2, <2>3
  <2>5. QED
    BY <1>12, <1>14, <2>1, <2>4
<1>22. bFifo' + done' = Started'
  <2>1. PICK s \in Int : s = Started
    BY <1>1, RequestStep
  <2>2. PICK p \in {0, 1} : p = OneIf(PushesB) /\ (p = 1 <=> PushesB)
    BY RequestFacts, OneIfIs
  <2>3. Started' = s + p
    BY <1>1, <2>1, <2>2, RequestStep
  <2>4. PICK f \in Nat : f = bFifo /\ f + d = s
    BY <1>2, <1>3, <1>6, <2>1
  <2>5. p = 1 => f < FifoDepth
    <3>1. p = 1 => s + 1 <= last
      BY <2>1, <2>2, StartedFacts
    <3>2. last <= d + Live
      BY <1>6
    <3>3. QED
      BY <1>2, <1>3, <2>4, <3>1, <3>2
  <2>6. OneIf(PushesB /\ bFifo < FifoDepth) = p
    <3>1. PushesB /\ bFifo < FifoDepth <=> PushesB
      BY <2>2, <2>4, <2>5
    <3>2. PushesB \in BOOLEAN
      BY RequestFacts
    <3>3. QED
      BY <2>2, <3>1, <3>2 DEF OneIf
  <2>7. bFifo' = f + p - r
    BY <1>1, <1>10, <2>4, <2>6 DEF WriteResponses
  <2>8. (f + p - r) + (d + r) = s + p
    BY <2>4
  <2>9. QED
    BY <1>12, <2>3, <2>7, <2>8
<1>23. QED
  BY <1>20, <1>21, <1>22

LEMMA InitAnswer == OneLength /\ Init => AnswerInv
<1> SUFFICES ASSUME OneLength, Init PROVE AnswerInv
  OBVIOUS
<1>1. Trackers \in Nat \ {0} /\ Live \in Nat
  BY SizesAssumption
<1>2. PICK l \in Nat \ {0} : l = Length
  BY InitTypes, LengthFacts DEF TypeInv
<1>3. /\ last = 0 /\ done = 0 /\ answered = 0 /\ taken = <<>> /\ wrVl = 0 /\ bPnt = 0
      /\ bCommitPnt = 0 /\ bFifo = 0 /\ bTrack = [k \in Entries |-> 0] /\ Len(taken) = 0
      /\ awShuffle = <<>> /\ Len(awShuffle) = 0 /\ asking = FALSE /\ wReq = 0
  BY DEF Init
<1>4. 0 % Trackers = 0 /\ 0 % (2 * Trackers) = 0
  <2>1. 2 * Trackers \in Nat \ {0}
    BY <1>1
  <2>2. ASSUME NEW w \in Nat \ {0} PROVE 0 % w = 0
    <3>1. 0 = w * 0 + 0 /\ 0 \in 0 .. w - 1
      OBVIOUS
    <3>2. (w * 0 + 0) % w = 0
      BY <3>1, DivModUnique
    <3>3. QED
      BY <3>1, <3>2
  <2>3. QED
    BY <1>1, <2>1, <2>2
<1>5. Upto(0, l) = 0
  BY UptoNext
<1>6. AlignAt(0, 0, 0, 0, l) /\ AnsweredAt(0, 0, 0, l)
  BY <1>4, <1>5 DEF AlignAt, AnsweredAt
<1>7. TrackersAt(bTrack, 0, 0, 0, l)
  <2>1. SUFFICES ASSUME NEW n \in 0 + 1 .. 0 + Trackers
                 PROVE  bTrack[(n - 1) % Trackers]
                          = (PartOf(0, n, l) - PartOf(0, n, l)) % (2 * Trackers)
    BY DEF TrackersAt
  <2>2. n \in Nat \ {0} /\ n - 1 \in Nat
    BY <1>1
  <2>3. (n - 1) % Trackers \in Entries
    BY <1>1, <2>2, DivModParts DEF Entries
  <2>4. bTrack[(n - 1) % Trackers] = 0
    BY <1>3, <2>3
  <2>5. PartOf(0, n, l) \in 0 .. l
    BY <2>2, PartBounds
  <2>6. PartOf(0, n, l) - PartOf(0, n, l) = 0
    BY <2>5
  <2>7. QED
    BY <1>4, <2>4, <2>6
<1>8. AnswerInvFor(l)
  <2>1. 0 \in 0 .. last
    BY <1>3
  <2>2. AlignAt(0, Len(taken), wrVl, bPnt, l)
    BY <1>3, <1>6
  <2>3. QED
    BY <1>3, <1>6, <1>7, <2>1, <2>2 DEF AnswerInvFor
<1>9. last <= done + Live /\ bFifo + done = Started
  <2>1. last <= done + Live
    BY <1>1, <1>3
  <2>2. OneIf(asking) = 0 /\ OneIf(wReq # 0 /\ ~pushed) = 0
    BY <1>3 DEF OneIf
  <2>3. Started = 0
    BY <1>3, <2>2 DEF Started, Accepted, Asked
  <2>4. QED
    BY <1>3, <2>1, <2>3
<1>10. QED
  BY <1>2, <1>8, <1>9 DEF AnswerInv

LEMMA AnswerStep ==
  ASSUME OneLength, Patient, CountHolds, RoomForLive, TypeInv, CutInv, AnswerInv, [Next]_vars
  PROVE  AnswerInv'
<1>1. PICK l \in Nat \ {0} : l = Length /\ \A n \in 1 .. Len(prog.lens) : prog.lens[n] = l
  BY LengthFacts DEF TypeInv
<1>2. CutInvFor(l) /\ Accepted >= 0
  BY <1>1 DEF CutInv
<1>3. AnswerInvFor(l) /\ bFifo + done = Started /\ last <= done + Live
  BY <1>1 DEF AnswerInv
<1>4. ASSUME NEW takeUp \in BOOLEAN, NEW mem \in MemoryMoves, Cycle(takeUp, mem)
      PROVE  AnswerInv'
  <2>1. AnswerInvFor(l)' /\ last' <= done' + Live /\ bFifo' + done' = Started'
    BY <1>1, <1>2, <1>3, <1>4, AnswerStepFor
  <2>2. Length' = l
    BY <1>1, <1>4 DEF Cycle, AddressGenerator, Length
  <2>3. QED
    BY <2>1, <2>2 DEF AnswerInv
<1>5. CASE UNCHANGED vars
  BY <1>5 DEF vars, AnswerInv, AnswerInvFor, Length, Started, Accepted, Asked
<1>6. QED
  BY <1>4, <1>5 DEF Next

\* The align stage's count of every live store is what is left of its answers.
THEOREM AnswerAlways ==
  ASSUME OneLength, Patient, CountHolds, RoomForLive PROVE Spec => []AnswerInv
<1>1. OneLength /\ Init => AnswerInv
  BY InitAnswer
<1>2. TypeInv /\ CutInv /\ AnswerInv /\ [Next]_vars => AnswerInv'
  BY AnswerStep
<1>3. Init => AnswerInv
  BY <1>1
<1>4. Spec => []TypeInv
  BY TypesAlways
<1>5. Spec => []CutInv
  BY CutAlways
<1>6. QED
  BY <1>2, <1>3, <1>4, <1>5, PTL DEF Spec

LEMMA DoneIsLast == OneLength /\ TypeInv /\ CutInv /\ AnswerInv => DoneWithTheLastAnswer
<1> SUFFICES ASSUME OneLength, TypeInv, CutInv, AnswerInv, NEW n \in 1 .. Len(prog.lens)
             PROVE  n <= done <=> AnsweredPieces(n) = prog.lens[n]
  BY DEF DoneWithTheLastAnswer
<1>1. PICK l \in Nat \ {0} : l = Length /\ \A k \in 1 .. Len(prog.lens) : prog.lens[k] = l
  BY LengthFacts DEF TypeInv
<1>2. CutInvFor(l) /\ AnsweredAt(done, answered, bCommitPnt, l)
  BY <1>1 DEF CutInv, AnswerInv, AnswerInvFor
<1>3. /\ taken \in Seq(1 .. last) /\ last \in Nat /\ Len(prog.lens) \in Nat
      /\ answered \in 0 .. Len(taken) /\ done \in 0 .. last
  BY ProgramFacts DEF TypeInv, TypeOK
<1>4. PICK m \in Nat : m = Len(taken)
  BY <1>3, LenProperties
<1>5. PICK a \in Nat : a = answered /\ a <= m
  BY <1>3, <1>4
<1>6. PICK d \in Nat : d = done
  BY <1>3
<1>7. PICK i \in Nat \ {0} : i = n
  BY <1>3
<1> DEFINE q == SubSeq(taken, 1, a)
<1>8. taken \in Seq(Nat \ {0})
  <2>1. 1 .. last \subseteq Nat \ {0}
    BY <1>3
  <2>2. QED
    BY <1>3, <2>1, SeqMonotonic
<1>9. q \in Seq(Nat \ {0}) /\ Len(q) = a /\ \A k \in 1 .. a : q[k] = taken[k]
  <2>1. \A k \in 1 .. a : taken[k] \in Nat \ {0}
    <3>1. \A k \in 1 .. m : taken[k] \in Nat \ {0}
      BY <1>4, <1>8, ElementOfSeq
    <3>2. 1 .. a \subseteq 1 .. m
      BY <1>5
    <3>3. QED
      BY <3>1, <3>2
  <2>2. /\ SubSeq(taken, 1, a) \in Seq(Nat \ {0})
        /\ Len(SubSeq(taken, 1, a)) = IF 1 <= a THEN a - 1 + 1 ELSE 0
        /\ \A k \in 1 .. a - 1 + 1 : SubSeq(taken, 1, a)[k] = taken[1 + k - 1]
    BY <2>1, SubSeqProperties
  <2>3. a - 1 + 1 = a /\ (~(1 <= a) => a = 0)
    OBVIOUS
  <2>4. \A k \in 1 .. a : 1 + k - 1 = k
    OBVIOUS
  <2>5. \A k \in 1 .. a : SubSeq(taken, 1, a)[k] = taken[k]
    BY <2>2, <2>3, <2>4
  <2>6. Len(SubSeq(taken, 1, a)) = a
    BY <2>2, <2>3
  <2>7. QED
    BY <2>2, <2>5, <2>6 DEF q
<1>10. \A k \in 1 .. a : PieceOf(k, q[k], l)
  <2>1. \A k \in 1 .. m : PieceOf(k, taken[k], l)
    BY <1>2, <1>4 DEF CutInvFor, PiecesInOrder
  <2>2. 1 .. a \subseteq 1 .. m
    BY <1>5
  <2>3. QED
    BY <1>9, <2>1, <2>2
<1> HIDE DEF q
<1>11. Count(q, i) = PartOf(a, i, l)
  BY <1>9, <1>10, CountIsPart
<1>12. AnsweredPieces(n) = PartOf(a, i, l)
  BY <1>5, <1>7, <1>11 DEF AnsweredPieces, q
<1>13. PartOf(a, i, l) = l <=> a >= Upto(i, l)
  BY PartWhole
<1>14. a >= Upto(i, l) <=> i <= d
  <2>1. Upto(d, l) <= a /\ a < Upto(d, l) + l
    BY <1>2, <1>5, <1>6 DEF AnsweredAt
  <2>2. Upto(d, l) \in Nat /\ Upto(i, l) \in Nat
    BY UptoNext
  <2>3. ASSUME a >= Upto(i, l) PROVE i <= d
    <3>1. Upto(i, l) < Upto(d, l) + l
      BY <2>1, <2>2, <2>3
    <3>2. QED
      BY <3>1, UptoApart
  <2>4. ASSUME i <= d PROVE a >= Upto(i, l)
    <3>1. Upto(i, l) <= Upto(d, l)
      BY <2>4, UptoGrows
    <3>2. QED
      BY <2>1, <2>2, <3>1
  <2>5. QED
    BY <2>3, <2>4
<1>15. prog.lens[n] = l
  BY <1>1
<1>16. QED
  BY <1>6, <1>7, <1>12, <1>13, <1>14, <1>15

\* A store is reported as done with the last of its answers, in programs of
\* stores of one length of at most twice as many pieces as there are trackers,
\* when the trackers and the B FIFO have an entry for each live store and the
\* memory answers no piece before it has the addresses of the whole store.
THEOREM DoneAlwaysLast ==
  ASSUME OneLength, Patient, CountHolds, RoomForLive PROVE Spec => []DoneWithTheLastAnswer
<1>1. TypeInv /\ CutInv /\ AnswerInv => DoneWithTheLastAnswer
  BY DoneIsLast
<1>2. Spec => []TypeInv
  BY TypesAlways
<1>3. Spec => []CutInv
  BY CutAlways
<1>4. Spec => []AnswerInv
  BY AnswerAlways
<1>5. QED
  BY <1>1, <1>2, <1>3, <1>4, PTL
=============================================================================
