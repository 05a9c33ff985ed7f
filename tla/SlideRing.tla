----------------------------- MODULE SlideRing ------------------------------
(***************************************************************************)
(* The slide units of all the clusters (hardware/src/sldu/sldu.sv) on the  *)
(* ring of module RingRouter, for slides of 64-bit elements: in each row   *)
(* of the vector a lane holds one element, and an element that moves to    *)
(* another cluster is one packet.  A packet names its lane and cluster but *)
(* not its instruction: a slide unit takes what comes for the oldest slide *)
(* that has not got all its packets.                                       *)
(*                                                                         *)
(* A step is a clock cycle.  Chosen in each: which units have the operands *)
(* to show their next packet, and who receives an instruction: the request *)
(* is forked into a pipe per cluster, and each cluster's own dispatcher    *)
(* and sequencer hand it over when they are ready.                         *)
(***************************************************************************)
EXTENDS RingRouter

CONSTANTS
  NrLanes,
  VInsnQueueDepth,
  ResultQueueDepth,
  Receivings, \* sets of clusters that may receive a slide in a cycle
  Programs \* sequences of slides [op, stride, vl]; vl is that of all the clusters

ASSUME SlideAssumption ==
  /\ NrLanes \in Nat \ {0} /\ VInsnQueueDepth \in Nat \ {0}
  /\ ResultQueueDepth \in Nat \ {0} /\ Receivings \subseteq SUBSET Clusters
  /\ \A p \in Programs : \A s \in Range(p) :
       /\ s.op \in {"VSLIDEUP", "VSLIDEDOWN"} /\ s.vl \in Nat \ {0}
       /\ s.stride \in 1 .. NrLanes \* further ones need the edge clusters to keep more rows
       /\ s.op = "VSLIDEUP" => s.stride < s.vl \* null_vslideup

TotalLanes == N * NrLanes
MaxCluster == N - 1

\* The rows of a slide in which cluster c has an element.
Words(s, c) == Cardinality({r \in 0 .. s.vl : r * TotalLanes + c * NrLanes < s.vl})
LastCluster(s) == LET rem == s.vl % TotalLanes
                  IN IF rem = 0 THEN MaxCluster ELSE (rem - 1) \div NrLanes
OneRow(s) == s.vl <= TotalLanes
IsLast(s, c) == s.vl <= (c + 1) * NrLanes

\* The packets a cluster sends, and receives, for a word.
PerWord(s) == s.stride

(* The packets of a word: down, the first lanes; up, the last ones.         *)

SrcLane(s, i) == IF s.op = "VSLIDEDOWN" THEN i ELSE NrLanes - PerWord(s) + i
Target(s, c, lane) ==
  IF s.op = "VSLIDEDOWN"
  THEN (NrLanes * c + lane + TotalLanes - s.stride) % TotalLanes
  ELSE (NrLanes * c + lane + s.stride) % TotalLanes
\* One row has no element behind its last cluster.
LeavesRow(s, dst) == dst > LastCluster(s) /\ OneRow(s)
DstCluster(s, c, lane) ==
  LET dst == Target(s, c, lane) \div NrLanes IN
  IF ~LeavesRow(s, dst) THEN dst
  ELSE IF s.op = "VSLIDEDOWN" THEN LastCluster(s) ELSE 0
DstLane(s, c, lane) == Target(s, c, lane) % NrLanes

\* The row a packet's element belongs to after the slide; -1 when it leaves the
\* vector at its beginning, or goes to the last cluster or the first in place of
\* one that has no element.
Row(s, c, lane, r) ==
  LET e == r * TotalLanes + c * NrLanes + lane IN
  IF LeavesRow(s, Target(s, c, lane) \div NrLanes) THEN -1
  ELSE IF s.op = "VSLIDEUP" THEN (e + s.stride) \div TotalLanes
  ELSE IF e < s.stride THEN -1
  ELSE (e - s.stride) \div TotalLanes

\* What cluster c sends for slide s, the k-th of the program.
PacketsOf(k, s, c) ==
  [j \in 1 .. Words(s, c) * PerWord(s) |->
     LET r == (j - 1) \div PerWord(s)
         lane == SrcLane(s, (j - 1) % PerWord(s))
     IN [src |-> c, dst |-> DstCluster(s, c, lane), lane |-> DstLane(s, c, lane),
         slide |-> k, row |-> Row(s, c, lane, r)]]
ProgramPackets(p) == [c \in Clusters |->
  FlattenSeq([k \in 1 .. Len(p) |-> PacketsOf(k, p[k], c)])]
ASSUME ProgramAssumption == \A p \in Programs : ProgramPackets(p) \in Traffic
-----------------------------------------------------------------------------
VARIABLES
  program, \* the slides of this behaviour
  taken,   \* the last slide each unit has received
  run,     \* whether each unit is in SLIDE_RUN
  issuing, \* the slide each unit is sending packets of
  out,     \* how many packets of it have been sent
  ring,    \* the slide each unit is receiving packets of
  word,    \* how many of its words are complete (ring_cnt_q counts down)
  inWord,  \* packets received of the next word (n_ring_in_q counts down)
  prev,    \* ring_data_prev_valid_q: lanes that have received a packet of it
  early,   \* history: who has dropped a packet of a slide it has yet to receive
  stray    \* history: who has used a packet of another slide or row

slideVars == <<program, taken, run, issuing, out, ring, word, inWord, prev, early, stray>>
allVars == <<vars, slideVars>>

\* The next slide after k in which cluster c has an element: its dispatcher
\* drops the others.
NextSlide(k, c) ==
  LET later == {j \in k + 1 .. Len(program) : Words(program[j], c) > 0}
  IN IF later = {} THEN Len(program) + 1 ELSE CHOOSE j \in later : \A i \in later : j <= i

SlideInit ==
  /\ Init /\ program \in Programs /\ todo = ProgramPackets(program)
  /\ run = [c \in Clusters |-> FALSE]
  /\ taken = [c \in Clusters |-> 0]
  /\ issuing = [c \in Clusters |-> NextSlide(0, c)]
  /\ ring = [c \in Clusters |-> NextSlide(0, c)]
  /\ out = [c \in Clusters |-> 0]
  /\ word = [c \in Clusters |-> 0] /\ inWord = [c \in Clusters |-> 0]
  /\ prev = [c \in Clusters |-> {}]
  /\ early = {} /\ stray = {}
-----------------------------------------------------------------------------
(* Sending.  A slide starts when the one before has got all its packets,    *)
(* and sends a word when the result queue has room for one more.            *)

InSync(c) == issuing[c] = ring[c] /\ issuing[c] <= taken[c]
MaySend(c) ==
  /\ run[c]
  /\ (out[c] \div PerWord(program[ring[c]])) - word[c] < ResultQueueDepth
Showing(S) == {c \in S : MaySend(c)}

SentBy(c, offer) == out[c] + (IF Accepted(c, offer) THEN 1 ELSE 0)
AllSent(c, offer) ==
  SentBy(c, offer) = Words(program[issuing[c]], c) * PerWord(program[issuing[c]])

(* Receiving.                                                               *)

NoSlide(c) == ring[c] > taken[c]

\* A packet is taken once the lanes' own word for it has been prepared.
Expecting(c, offer) ==
  /\ ~NoSlide(c)
  /\ issuing[c] # ring[c] \/ SentBy(c, offer) \div PerWord(program[ring[c]]) > word[c]

\* A packet without a slide is dropped.
Taking(offer) == {c \in Clusters : NoSlide(c) \/ Expecting(c, offer)}

PacketThere(c) == \E d \in Directions : AtHome(c, d)
Packet(c) == Head(inq[<<c, HomeSelected(c)>>])
Uses(c, offer) == Expecting(c, offer) /\ PacketThere(c)

\* The first packet into a lane of the last cluster is only remembered: in a
\* slide down it completes no word.
RememberedNever(c) == FALSE \* mutant: the edge cluster has no register for it
Remembered(c) ==
  program[ring[c]].op = "VSLIDEDOWN" /\ c = MaxCluster /\ Packet(c).lane \notin prev[c]

\* The row the unit uses the packet for; cluster 0 keeps what comes in a slide
\* up for its next word.
UsedFor(c) ==
  IF Remembered(c) THEN -1
  ELSE IF program[ring[c]].op = "VSLIDEUP" /\ c = 0 THEN word[c] + 1 ELSE word[c]

\* In a slide of one row, what has left the vector only fills a word.
Belongs(c) ==
  /\ Packet(c).slide = ring[c]
  /\ Packet(c).row = UsedFor(c) \/ (OneRow(program[ring[c]]) /\ Packet(c).row = -1)

\* The last word may be complete without a packet.
FullWord(s, c) == s.vl >= (Words(s, c) - 1) * TotalLanes + (c + 1) * NrLanes
NeedsPacket(s, c) == FALSE \* mutant: no word is complete without a packet
NeedsNoPacket(s, c) ==
  IF s.op = "VSLIDEUP" THEN c = 0 /\ (prev[c] # {} \/ OneRow(s))
  ELSE IF c = MaxCluster /\ prev[c] # {} THEN c = LastCluster(s) \/ ~FullWord(s, c)
  ELSE c = LastCluster(s) /\ (prev[c] # {} \/ IsLast(s, c))
EndsAlone(c, offer) ==
  /\ Expecting(c, offer) /\ ~PacketThere(c)
  /\ issuing[c] # ring[c] /\ word[c] = Words(program[ring[c]], c) - 1
  /\ NeedsNoPacket(program[ring[c]], c)

EndsWord(c, offer) ==
  \/ EndsAlone(c, offer)
  \/ Uses(c, offer) /\ ~Remembered(c) /\ inWord[c] = PerWord(program[ring[c]]) - 1
EndsSlide(c, offer) == EndsWord(c, offer) /\ word[c] = Words(program[ring[c]], c) - 1

(* A cycle.                                                                 *)

Queued(c) == Cardinality({k \in ring[c] .. taken[c] : Words(program[k], c) > 0})
MayReceive(c) ==
  NextSlide(taken[c], c) <= Len(program) /\ Queued(c) < VInsnQueueDepth
Receivers == {{c \in R : MayReceive(c)} : R \in Receivings}

SlideCycle(S, receivers) ==
  LET offer == Showing(S) IN
  /\ UNCHANGED program
  /\ run' = [c \in Clusters |->
       IF run[c] THEN ~(Accepted(c, offer) /\ AllSent(c, offer)) ELSE InSync(c)]
  /\ Cycle(offer, Taking(offer))
  /\ taken' = [c \in Clusters |-> IF c \in receivers THEN NextSlide(taken[c], c) ELSE taken[c]]
  /\ issuing' = [c \in Clusters |->
       IF Accepted(c, offer) /\ AllSent(c, offer) THEN NextSlide(issuing[c], c) ELSE issuing[c]]
  /\ out' = [c \in Clusters |->
       IF Accepted(c, offer) /\ AllSent(c, offer) THEN 0 ELSE SentBy(c, offer)]
  /\ ring' = [c \in Clusters |->
       IF EndsSlide(c, offer) THEN NextSlide(ring[c], c) ELSE ring[c]]
  /\ word' = [c \in Clusters |->
       IF EndsSlide(c, offer) THEN 0
       ELSE IF EndsWord(c, offer) THEN word[c] + 1 ELSE word[c]]
  /\ inWord' = [c \in Clusters |->
       IF EndsWord(c, offer) THEN 0
       ELSE IF Uses(c, offer) /\ ~Remembered(c) THEN inWord[c] + 1 ELSE inWord[c]]
  /\ prev' = [c \in Clusters |->
       IF EndsSlide(c, offer) THEN {}
       ELSE IF Uses(c, offer) THEN prev[c] \cup {Packet(c).lane} ELSE prev[c]]
  /\ early' = early \cup {c \in Clusters :
       NoSlide(c) /\ PacketThere(c) /\ Packet(c).slide > taken[c]}
  /\ stray' = stray \cup {c \in Clusters :
       /\ Uses(c, offer)
       /\ ~Belongs(c)}

SlideNext == \E S \in Offerings, receivers \in Receivers : SlideCycle(S, receivers)
SlideSpec == SlideInit /\ [][SlideNext]_allVars

SendsPacket(c) == \E S \in Offerings, receivers \in Receivers :
  Accepted(c, Showing(S)) /\ SlideCycle(S, receivers)
Receives(c) == \E S \in Offerings, receivers \in Receivers :
  c \in receivers /\ SlideCycle(S, receivers)
FairSlideSpec ==
  /\ SlideSpec /\ WF_allVars(SlideNext)
  /\ \A c \in Clusters : SF_allVars(SendsPacket(c)) /\ WF_allVars(Receives(c))
-----------------------------------------------------------------------------
(* A unit starts to send "in sync to avoid data getting lost in the ring":  *)
(* no packet comes to a unit that has not received its slide, which would   *)
(* drop it.                                                                 *)
NothingLost == early = {}

(* However the clusters receive a slide and whatever waits, a packet is     *)
(* used by the slide it was sent for, in the row its element belongs to,    *)
(* although packets do not say whose they are and the clusters are at       *)
(* different rows; unless one has come before its slide.                    *)
PacketsUsedWhereTheyBelong == NothingLost => stray = {}

(* No slide waits for a packet forever, as long as none has come before its *)
(* slide: a word is completed without a packet exactly when none is coming  *)
(* for it, and none is stuck in the ring.                                   *)
EverySlideCompletes ==
  <>(\A c \in Clusters : ring[c] > Len(program)) \/ <>(~NothingLost)
=============================================================================
