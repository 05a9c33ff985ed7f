----------------------------- MODULE RingRouter -----------------------------
(***************************************************************************)
(* The ring between the clusters (hardware/src/sldu/ring_router.sv, wired  *)
(* in ara_cluster.sv): every cluster has a router with a register of two   *)
(* entries at each input and each output.  A packet that arrives on one    *)
(* side goes to the slide unit when this cluster is its destination and    *)
(* leaves on the other side when not; the slide unit's own packets join    *)
(* the direction that is the shorter one.  Three round-robin arbiters      *)
(* decide who goes first, and the ready signals of two of them are joined  *)
(* at each input.                                                          *)
(*                                                                         *)
(* A step is a clock cycle of all the routers.  Chosen in each: which      *)
(* slide units show a packet and which would take one.                     *)
(***************************************************************************)
EXTENDS Naturals, Sequences, FiniteSets, SequencesExt

CONSTANTS
  N,         \* clusters in the ring, a power of two
  CutLinks,  \* <<c, d>>: the output of c in direction d goes through a register
  Traffic,   \* the packets the slide units may want to send, by cluster
  Offerings, \* which slide units may show a packet in the same cycle
  Takings    \* which slide units may take a packet in the same cycle

Clusters == 0 .. N - 1
Directions == {"left", "right"}
Packets == UNION {UNION {Range(t[c]) : c \in Clusters} : t \in Traffic}

ASSUME RingAssumption == N \in {1, 2, 4, 8, 16} /\ CutLinks \subseteq Clusters \X Directions
ASSUME TrafficAssumption ==
  \A t \in Traffic : /\ DOMAIN t = Clusters
                     /\ \A c \in Clusters : t[c] \in Seq(Range(t[c]))
                     /\ \A c \in Clusters : \A p \in Range(t[c]) : p.src = c /\ p.dst \in Clusters
ASSUME EnvironmentAssumption ==
  /\ Offerings \subseteq SUBSET Clusters /\ UNION Offerings = Clusters
  /\ Takings \subseteq SUBSET Clusters /\ UNION Takings = Clusters

VARIABLES
  inq,    \* the input registers, by cluster and the direction packets travel in
  outq,   \* the output registers
  cut,    \* the registers between two macros
  turn,   \* whom an output arbiter prefers: the packets passing through?
  turnUp, \* which input the slide unit's arbiter prefers
  todo,   \* the packets each slide unit has still to send
  arrived \* how many packets of each source each slide unit has taken

vars == <<inq, outq, cut, turn, turnUp, todo, arrived>>
Pairs == Clusters \X Clusters
Links == Clusters \X Directions

\* The cluster a packet comes to next, and the one it comes from.
After(c, d) == IF d = "right" THEN (c + 1) % N ELSE (c + N - 1) % N
Before(c, d) == IF d = "right" THEN (c + N - 1) % N ELSE (c + 1) % N

\* numClusters has as many bits as a cluster's number: 5.
FindRingDir(src, dst) ==
  LET half == (N % 32) \div 2 IN
  IF dst > src THEN IF dst - src < half THEN "right" ELSE "left"
               ELSE IF src - dst < half THEN "left" ELSE "right"

Init ==
  /\ inq = [l \in Links |-> <<>>] /\ outq = [l \in Links |-> <<>>]
  /\ cut = [l \in Links |-> <<>>]
  /\ turn = [l \in Links |-> FALSE] /\ turnUp = [c \in Clusters |-> "right"]
  /\ todo \in Traffic
  /\ arrived = [p \in Pairs |-> 0]
-----------------------------------------------------------------------------
(* Registers of two entries (spill_register).                               *)

HasRoomLate(q) == Len(q) <= 2 \* mutant: a third entry
HasRoom(q) == Len(q) < 2
Shifted(q, pop, push) == (IF pop THEN Tail(q) ELSE q) \o push

(* The arbiters of a router.  `offer' are the slide units that show a       *)
(* packet, `take' those that would take one.                                *)

AtHome(c, d) == inq[<<c, d>>] # <<>> /\ Head(inq[<<c, d>>]).dst = c
Passing(c, d) == inq[<<c, d>>] # <<>> /\ Head(inq[<<c, d>>]).dst # c
Joining(c, d, offer) ==
  c \in offer /\ todo[c] # <<>> /\ FindRingDir(c, Head(todo[c]).dst) = d

\* The output arbiter of direction d; without a request it points to the input.
PassingSelected(c, d, offer) ==
  ~Joining(c, d, offer) \/ (Passing(c, d) /\ turn[<<c, d>>])
PassingReady(c, d, offer) == HasRoom(outq[<<c, d>>]) /\ PassingSelected(c, d, offer)
JoiningReady(c, d, offer) ==
  HasRoom(outq[<<c, d>>]) /\ Joining(c, d, offer) /\ ~PassingSelected(c, d, offer)

\* The slide unit's arbiter; without a request it points to the packets
\* travelling left, which arrive from the cluster on the right.
HomeSelected(c) ==
  IF AtHome(c, "right") /\ (~AtHome(c, "left") \/ turnUp[c] = "right")
  THEN "right" ELSE "left"

\* A slide unit raises its ready only for a packet that is there.
SlduReadyRight(c, take) == \* mutant: packets travelling left are not seen
  c \in take /\ AtHome(c, "right")
SlduReady(c, take) == c \in take /\ \E d \in Directions : AtHome(c, d)

\* ring_right_ready_out and ring_left_ready_out: two ready signals joined.
InReadyAlone(c, d, offer, take) == \* mutant: not gated with the packet's direction
  PassingReady(c, d, offer) \/ (SlduReady(c, take) /\ HomeSelected(c) = d)
InReady(c, d, offer, take) ==
  \/ PassingReady(c, d, offer) /\ Passing(c, d)
  \/ SlduReady(c, take) /\ HomeSelected(c) = d

Pops(c, d, offer, take) == inq[<<c, d>>] # <<>> /\ InReady(c, d, offer, take)
Accepted(c, offer) == \E d \in Directions : JoiningReady(c, d, offer)

Entering(c, d, offer) ==
  IF ~HasRoom(outq[<<c, d>>]) THEN <<>>
  ELSE IF Passing(c, d) /\ PassingSelected(c, d, offer) THEN <<Head(inq[<<c, d>>])>>
  ELSE IF Joining(c, d, offer) THEN <<Head(todo[c])>>
  ELSE <<>>

(* The wires between two routers.                                           *)

LeavesOut(c, d) ==
  /\ outq[<<c, d>>] # <<>>
  /\ HasRoom(IF <<c, d>> \in CutLinks THEN cut[<<c, d>>] ELSE inq[<<After(c, d), d>>])
LeavesCut(c, d) == cut[<<c, d>>] # <<>> /\ HasRoom(inq[<<After(c, d), d>>])
Arriving(c, d) ==
  LET b == Before(c, d) IN
  IF <<b, d>> \in CutLinks
  THEN IF LeavesCut(b, d) THEN <<Head(cut[<<b, d>>])>> ELSE <<>>
  ELSE IF LeavesOut(b, d) THEN <<Head(outq[<<b, d>>])>> ELSE <<>>

(* An arbiter with two inputs prefers the other one after each grant.       *)

NextTurn(c, d, offer) ==
  IF Entering(c, d, offer) = <<>> THEN turn[<<c, d>>]
  ELSE ~(Passing(c, d) /\ PassingSelected(c, d, offer))
NextTurnUp(c, take) ==
  IF ~SlduReady(c, take) THEN turnUp[c]
  ELSE IF HomeSelected(c) = "right" THEN "left" ELSE "right"

Cycle(offer, take) ==
  /\ inq' = [l \in Links |-> Shifted(inq[l], Pops(l[1], l[2], offer, take),
                                     Arriving(l[1], l[2]))]
  /\ outq' = [l \in Links |-> Shifted(outq[l], LeavesOut(l[1], l[2]),
                                      Entering(l[1], l[2], offer))]
  /\ cut' = [l \in Links |-> Shifted(cut[l], LeavesCut(l[1], l[2]),
               IF l \in CutLinks /\ LeavesOut(l[1], l[2]) THEN <<Head(outq[l])>> ELSE <<>>)]
  /\ turn' = [l \in Links |-> NextTurn(l[1], l[2], offer)]
  /\ turnUp' = [c \in Clusters |-> NextTurnUp(c, take)]
  /\ todo' = [c \in Clusters |-> IF Accepted(c, offer) THEN Tail(todo[c]) ELSE todo[c]]
  /\ arrived' = [p \in Pairs |-> arrived[p] +
       (IF /\ SlduReady(p[2], take)
           /\ Head(inq[<<p[2], HomeSelected(p[2])>>]).src = p[1] THEN 1 ELSE 0)]

Next == \E offer \in Offerings, take \in Takings : Cycle(offer, take)
Spec == Init /\ [][Next]_vars

\* A slide unit holds a packet up until it is taken, and takes in the end what
\* is held up to it.
Sends(c) == \E offer \in Offerings, take \in Takings :
              Accepted(c, offer) /\ Cycle(offer, take)
Takes(c) == \E offer \in Offerings, take \in Takings :
              SlduReady(c, take) /\ Cycle(offer, take)
FairSpec == Spec /\ WF_vars(Next) /\ \A c \in Clusters : SF_vars(Sends(c)) /\ WF_vars(Takes(c))
-----------------------------------------------------------------------------
Registers == {inq, outq, cut}

TypeOK ==
  /\ \A regs \in Registers : \A l \in Links :
       regs[l] \in Seq(Packets) /\ Len(regs[l]) <= 2
  /\ \A l \in Links \ CutLinks : cut[l] = <<>>
  /\ turn \in [Links -> BOOLEAN] /\ turnUp \in [Clusters -> Directions]
  /\ arrived \in [Pairs -> Nat]

\* The packets of p in a register, the oldest first.
Of(p, q) ==
  LET mine(i) == IF i <= Len(q) /\ q[i].src = p[1] /\ q[i].dst = p[2] THEN <<q[i]>> ELSE <<>>
  IN mine(1) \o mine(2)

\* The router k hops back from the destination of p on the way of its packets.
Back(p, k) ==
  IF FindRingDir(p[1], p[2]) = "right" THEN (p[2] + N - k) % N ELSE (p[2] + k) % N

\* The packets of p, those nearest to the destination first: in the registers
\* of the routers on the way back from there to the source.
OnTheWay(p) ==
  LET dir == FindRingDir(p[1], p[2])
      hop(k) == Of(p, inq[<<Back(p, k - 1), dir>>]) \o Of(p, cut[<<Back(p, k), dir>>])
                  \o Of(p, outq[<<Back(p, k), dir>>])
  IN FlattenSeq([k \in 1 .. N |-> hop(k)])

channels == [p \in Pairs |-> OnTheWay(p)]
Promise == INSTANCE RingChannels WITH chan <- channels

(* Each packet reaches its destination once, and those from the same        *)
(* cluster in the order they were sent, although the ready signals at an    *)
(* input come from two arbiters and one is high by default                  *)
(* (ring_router.sv:176-182).                                                *)
ImplementsChannels == Promise!Spec

(* Every packet a slide unit wants to send is taken by the slide unit it is *)
(* for: passing and joining packets never block each other for good.        *)
EveryPacketArrives ==
  <>(/\ \A c \in Clusters : todo[c] = <<>>
     /\ \A l \in Links : inq[l] = <<>> /\ outq[l] = <<>> /\ cut[l] = <<>>)
=============================================================================
