-------------------------------- MODULE Vstu --------------------------------
(***************************************************************************)
(* The vector store unit (hardware/src/vlsu/vstu.sv): it holds the stores  *)
(* the sequencer broadcasts in a ring of slots with three pointers, cuts   *)
(* the words the lanes deliver into W beats along the bursts the address   *)
(* generator announces, and reports a store as done when an answer comes   *)
(* on the B channel.                                                       *)
(*                                                                         *)
(* p_vstu handles a W beat, then a B beat, then a new instruction, each on *)
(* the values the one before it leaves: a cycle is a sequence of actions.  *)
(* A cycle without any of them changes nothing.  Lanes, address generator  *)
(* and memory take any time: WriteBeat may wait although its inputs are    *)
(* there.  A store is its number of bytes in this cluster and, if it is    *)
(* strided or indexed, the bytes of an element; it is aligned to the AXI   *)
(* word.  The dispatcher sends no store without a byte in this cluster.    *)
(***************************************************************************)
EXTENDS Naturals, Sequences, FiniteSets, SequencesExt

CONSTANTS
  Depth,     \* VInsnQueueDepth, a power of two
  WordBytes, \* NrLanes * 8: the word the lanes deliver
  AxiBytes,  \* AxiDataWidth / 8
  LenWrap,   \* 2 ^ width of axi_pkg::len_t: the beats of the longest burst
  Stores,    \* the stores that may come: [bytes, elem], elem = 0 when unit-stride
  InFlight,  \* how many wholly written stores the memory leaves unanswered
  MaxOwed,   \* bound: answers the memory owes at once (the GLSU tracks as many)
  Elsewhere, \* whether there are stores without an element in this cluster
  Numbers    \* stores are numbered 1 .. Numbers, over and over

ASSUME SizesAssumption ==
  /\ Depth \in Nat \ {0, 1} /\ InFlight \in 1 .. Depth
  /\ MaxOwed \in Nat /\ Numbers \in Nat /\ Numbers >= Depth + MaxOwed
  /\ WordBytes \in Nat \ {0} /\ AxiBytes \in Nat \ {0} /\ LenWrap \in Nat \ {0, 1}
ASSUME StoresAssumption ==
  /\ Stores \subseteq [bytes : Nat \ {0}, elem : Nat]
  /\ \A s \in Stores : s.elem = 0 => s.bytes <= LenWrap * AxiBytes
\* The lanes' word is a whole number of W beats and of elements, and a store has
\* whole elements.
ASSUME WidthsAssumption ==
  /\ WordBytes % AxiBytes = 0
  /\ \A s \in Stores : s.elem # 0 => WordBytes % s.elem = 0 /\ s.bytes % s.elem = 0
ASSUME ElsewhereAssumption == Elsewhere \in BOOLEAN

VARIABLES
  vinsn,     \* vinsn_queue_q.vinsn, with the number of each store
  acceptPnt, issuePnt, commitPnt, \* vinsn_queue_q.*_pnt
  issueCnt,  \* vinsn_queue_q.issue_cnt
  commitCnt, \* vinsn_queue_q.commit_cnt
  left,      \* issue_cnt_q: bytes left of the store being issued
  vrfPnt,    \* vrf_pnt_q: the byte in the lanes' word
  len,       \* len_q: beats sent of the burst
  \* The environment, with the numbers of the stores each item belongs to:
  words,     \* the words of the accepted stores the lanes have to deliver
  bursts,    \* the bursts of the accepted stores that are not wholly written
  answers,   \* the answers the memory will give, in order; 0: not ours
  last       \* the number of the last accepted store

queueVars == <<vinsn, acceptPnt, issuePnt, commitPnt, issueCnt, commitCnt>>
vars == <<vinsn, acceptPnt, issuePnt, commitPnt, issueCnt, commitCnt, left,
          vrfPnt, len, words, bursts, answers, last>>

Slots == 0 .. Depth - 1
Lesser(a, b) == IF a < b THEN a ELSE b
CeilDiv(a, b) == (a + b - 1) \div b
Copies(x, n) == [k \in 1 .. n |-> x]
NoStore == [n |-> 0, bytes |-> 0, elem |-> 0]

Init ==
  /\ vinsn = [k \in Slots |-> NoStore]
  /\ acceptPnt = 0 /\ issuePnt = 0 /\ commitPnt = 0
  /\ issueCnt = 0 /\ commitCnt = 0
  /\ left = 0 /\ vrfPnt = 0 /\ len = 0
  /\ words = <<>> /\ bursts = <<>> /\ answers = <<>> /\ last = 0

-----------------------------------------------------------------------------
\* A unit-stride store is one burst, any other one a burst of a beat per element.
BurstsOf(s) ==
  IF s.elem = 0 THEN <<CeilDiv(s.bytes, AxiBytes)>>
                ELSE Copies(1, s.bytes \div s.elem)

NextNumber == (last % Numbers) + 1
\* mutant: a slot too many
OneMoreRoom == commitCnt <= Depth
NotFull == commitCnt < Depth

\* Accept new instruction
Accept(s) ==
  LET n == NextNumber IN
  /\ NotFull
  /\ Len(answers) + Len(BurstsOf(s)) <= MaxOwed
  /\ vinsn' = [vinsn EXCEPT ![acceptPnt] = [n |-> n, bytes |-> s.bytes, elem |-> s.elem]]
  /\ acceptPnt' = (acceptPnt + 1) % Depth
  /\ issueCnt' = issueCnt + 1 /\ commitCnt' = commitCnt + 1
  /\ left' = IF issueCnt = 0 THEN s.bytes ELSE left
  /\ last' = n
  /\ words' = words \o Copies(n, CeilDiv(s.bytes, WordBytes))
  /\ bursts' = bursts \o [k \in DOMAIN BurstsOf(s) |-> [n |-> n, beats |-> BurstsOf(s)[k]]]
  /\ answers' = answers \o Copies(n, Len(BurstsOf(s)))
  /\ UNCHANGED <<issuePnt, commitPnt, vrfPnt, len>>

-----------------------------------------------------------------------------
(***************************************************************************)
(* Write data into the W channel.                                          *)
(***************************************************************************)
\* valid_bytes: the bytes of the store in this beat
ValidBytes ==
  LET s == vinsn[issuePnt]
      inWord == IF left < WordBytes THEN left - vrfPnt ELSE WordBytes - vrfPnt
  IN IF s.elem # 0 THEN s.elem ELSE Lesser(inWord, AxiBytes)

\* mutant: the beat itself is not counted
LastBeatLate == len = Head(bursts).beats % LenWrap
\* the beat ends the burst: both sides are of the width of len_t
LastBeat == (len + 1) % LenWrap = Head(bursts).beats % LenWrap

\* the lanes' word is used up
WordDone == vrfPnt + ValidBytes \in {WordBytes, left}
LeftAfterWord == IF left < WordBytes THEN 0 ELSE left - WordBytes

\* the bytes of the store that is issued next, if there is one
NextLeft == IF issueCnt > 1 THEN vinsn[(issuePnt + 1) % Depth].bytes ELSE 0

Count(seq, n) == Cardinality({k \in DOMAIN seq : seq[k] = n})
BurstOwners == [k \in DOMAIN bursts |-> bursts[k].n]
\* our stores the memory has got completely and not answered
Unanswered == ToSet(answers) \ (ToSet(BurstOwners) \cup {0})

CanWrite ==
  /\ issueCnt # 0 /\ words # <<>> /\ bursts # <<>>
  /\ Cardinality(Unanswered) < InFlight

\* a beat inside the store
WriteBeat ==
  /\ CanWrite
  /\ ~(WordDone /\ LeftAfterWord = 0)
  /\ vrfPnt' = IF WordDone THEN 0 ELSE vrfPnt + ValidBytes
  /\ left' = IF WordDone THEN LeftAfterWord ELSE left
  /\ words' = IF WordDone THEN Tail(words) ELSE words
  /\ len' = IF LastBeat THEN 0 ELSE (len + 1) % LenWrap
  /\ bursts' = IF LastBeat THEN Tail(bursts) ELSE bursts
  /\ UNCHANGED <<queueVars, answers, last>>

\* the store's last beat: bump the issue pointer
WriteLastBeat ==
  /\ CanWrite
  /\ WordDone /\ LeftAfterWord = 0
  /\ vrfPnt' = 0 /\ words' = Tail(words)
  /\ len' = IF LastBeat THEN 0 ELSE (len + 1) % LenWrap
  /\ bursts' = IF LastBeat THEN Tail(bursts) ELSE bursts
  /\ issueCnt' = issueCnt - 1
  /\ issuePnt' = (issuePnt + 1) % Depth
  /\ left' = NextLeft
  /\ UNCHANGED <<vinsn, acceptPnt, commitPnt, commitCnt, answers, last>>

-----------------------------------------------------------------------------
(***************************************************************************)
(* The B channel.                                                          *)
(***************************************************************************)

\* The memory answers in order, and a burst after its last beat.
Answerable ==
  /\ answers # <<>>
  /\ Head(answers) = 0 \/ Count(answers, Head(answers)) > Count(BurstOwners, Head(answers))

\* mutant: only when nothing is left to issue
AllIssued == commitCnt # 0 /\ issueCnt = 0
\* a store is wholly issued, judging by the pointers
Waiting == issuePnt # commitPnt
\* vinsn_commit: the store that is reported as done
Committed == vinsn[commitPnt]

\* the answer completes the oldest store
Commit ==
  /\ Answerable /\ Waiting
  /\ commitCnt' = commitCnt - 1
  /\ commitPnt' = (commitPnt + 1) % Depth
  /\ answers' = Tail(answers)
  /\ UNCHANGED <<vinsn, acceptPnt, issuePnt, issueCnt, left, vrfPnt, len, words, bursts, last>>

\* the answer is acknowledged, and that is all
DropAnswer ==
  /\ Answerable /\ ~Waiting
  /\ answers' = Tail(answers)
  /\ UNCHANGED <<queueVars, left, vrfPnt, len, words, bursts, last>>

\* A store the other clusters take part in and this one's dispatcher drops: the
\* global load-store unit passes its answer to all of them.
StoreElsewhere ==
  /\ Elsewhere /\ Len(answers) < MaxOwed
  /\ answers' = Append(answers, 0)
  /\ UNCHANGED <<queueVars, left, vrfPnt, len, words, bursts, last>>

Next ==
  \/ \E s \in Stores : Accept(s)
  \/ WriteBeat \/ WriteLastBeat
  \/ Commit \/ DropAnswer \/ StoreElsewhere

\* The lanes deliver, the address generator and the memory make progress.
Fairness == WF_vars(WriteBeat) /\ WF_vars(WriteLastBeat) /\ WF_vars(Commit) /\ WF_vars(DropAnswer)
Spec == Init /\ [][Next]_vars
FairSpec == Spec /\ Fairness
-----------------------------------------------------------------------------
(***************************************************************************)
(* Properties.                                                             *)
(***************************************************************************)
BurstType == [n : 1 .. Numbers, beats : 1 .. LenWrap]
\* The types of the registers and of the environment's queues.
TypeOK ==
  /\ vinsn \in [Slots -> [n : 0 .. Numbers, bytes : Nat, elem : Nat]]
  /\ acceptPnt \in Slots /\ issuePnt \in Slots /\ commitPnt \in Slots
  /\ commitCnt \in 0 .. Depth /\ issueCnt \in 0 .. commitCnt
  /\ left \in Nat /\ vrfPnt \in 0 .. WordBytes - 1 /\ len \in 0 .. LenWrap - 1
  /\ words \in Seq(1 .. Numbers) /\ bursts \in Seq(BurstType)
  /\ answers \in Seq(0 .. Numbers) /\ last \in 0 .. Numbers

\* Every beat carries bytes of the store it is sent for, in a burst of that
\* store: beats, words and bursts never drift apart, whatever the lengths are.
BeatCarriesOwnBytes ==
  CanWrite => /\ Head(words) = vinsn[issuePnt].n
              /\ Head(bursts).n = vinsn[issuePnt].n
              /\ 0 < ValidBytes /\ vrfPnt + ValidBytes <= Lesser(left, WordBytes)

\* The stores in the ring, oldest first.
Live == [k \in 1 .. commitCnt |-> vinsn[(commitPnt + k - 1) % Depth].n]

\* A store is reported as done with the last answer to it, not before.
DoneMeansAnswered ==
  [][commitCnt' < commitCnt => Count(answers', Committed.n) = 0]_vars

\* The store unit implements the abstract queue of stores: the ring's stores,
\* each with the answers still to come, in the order of acceptance.
StoreAbs == INSTANCE StoreQueue WITH
  Names <- 1 .. Numbers,
  MaxAnswers <- LenWrap,
  queue <- [k \in 1 .. commitCnt |-> [name |-> Live[k], owed |-> Count(answers, Live[k])]],
  written <- commitCnt - issueCnt
ImplementsStoreQueue == StoreAbs!Spec

\* Every accepted store is completed.
StoresComplete ==
  \A n \in 1 .. Numbers : (n \in ToSet(Live)) ~> (n \notin ToSet(Live))
=============================================================================
