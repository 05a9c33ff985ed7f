----------------------------- MODULE AraBackend -----------------------------
(***************************************************************************)
(* The main sequencer together with the units it drives: every lane's      *)
(* request register (lane/lane_sequencer.sv) and the instruction queues of *)
(* its ALU and MFPU, the queues of the slide, mask, load and store units,  *)
(* the address generator's one instruction, and the MaskB operand queue of *)
(* lane 0, from which scalar results are read (ara.sv).                    *)
(*                                                                         *)
(* A step is a clock cycle of all of them.  What each unit does with its   *)
(* oldest instruction takes any number of cycles: the cycle chooses which  *)
(* units finish one.  The register between a lane and its units is left    *)
(* out: an instruction enters its queue in the cycle it is executed in.    *)
(***************************************************************************)
EXTENDS AraSequencer, Sequences

CONSTANT
  OutrunLanes \* whether a load that needs no lane can end, and lane 0 can answer a
              \* scalar move, while some lane still has that instruction ahead of it
ASSUME OutrunAssumption == OutrunLanes \in BOOLEAN

LaneVFUs == {"Alu", "MFpu"}
Units == {"SlideUnit", "MaskUnit", "LoadUnit", "StoreUnit"}

VARIABLES
  laneReg,    \* per lane, i_pe_req_register: a broadcast not yet executed, if any
  syncMask,   \* per lane, en_sync_mask_q and last_id_q
  laneRun,    \* per lane, vinsn_running_q of the lane sequencer
  laneQueue,  \* per lane and unit, the ids in the instruction queue
  unitQueue,  \* the ids in the instruction queue of every other unit
  unitRun,    \* vinsn_running_q of those units
  doneReg,    \* per PE, vinsn_done as the sequencer sees it: a cycle late
  laneDoneReg,\* alu_vinsn_done_o and mfpu_vinsn_done_o of lane 0
  addrgen,    \* the instruction in the address generator, if any
  addrgenRun, \* its vinsn_running_q
  maskB,      \* who the operands in lane 0's MaskB queue belong to, in order
  maskBValid, \* masku_operand_valid[0][1]
  lost        \* history: the ids some queue had no room for

backendVars == <<laneReg, syncMask, laneRun, laneQueue, unitQueue, unitRun,
                 doneReg, laneDoneReg, addrgen, addrgenRun, maskB, maskBValid, lost>>
bvars == <<vars, backendVars>>

BInit ==
  /\ Init
  /\ laneReg = [l \in Lanes |-> <<>>]
  /\ syncMask = [l \in Lanes |-> [on |-> FALSE, last |-> 0]]
  /\ laneRun = [l \in Lanes |-> {}]
  /\ laneQueue = [l \in Lanes |-> [v \in LaneVFUs |-> <<>>]]
  /\ unitQueue = [u \in Units |-> <<>>]
  /\ unitRun = [u \in Units |-> {}]
  /\ doneReg = [pe \in PEs |-> {}] /\ laneDoneReg = {}
  /\ addrgen = {} /\ addrgenRun = {}
  /\ maskB = <<>> /\ maskBValid = FALSE
  /\ lost = {}

Elements(q) == {q[n] : n \in DOMAIN q}

-----------------------------------------------------------------------------
(***************************************************************************)
(* A lane.                                                                 *)
(***************************************************************************)
LanesReady == \A l \in Lanes : laneReg[l] = <<>>

\* the broadcast, unless the lane has sampled this id already
Offered(l) == peReq.valid /\ ~(syncMask[l].on /\ syncMask[l].last = peReq.id)
Handshake(l) == Offered(l) /\ laneReg[l] = <<>>

\* what the lane can execute: the register's content or, through it, the broadcast
Pending(l) ==
  IF laneReg[l] # <<>> THEN laneReg[l]
  ELSE IF Handshake(l) THEN <<[id |-> peReq.id, r |-> peReq.r]>> ELSE <<>>

Reduction(r) == r.op \in {"VREDSUM", "VFREDUSUM"}
Compare(r) == r.op \in {"VMSEQ", "VMFEQ", "VCPOP"}
\* the unit of the lane that takes the instruction
LaneUnit(r) == target_vfus(r) \cap LaneVFUs

\* `free': the operand requesters the instruction needs are free
Executes(l, free) == Pending(l) # <<>> /\ free
Starts(l, free) ==
  Executes(l, free) /\ Pending(l)[1].id \notin laneRun[l] \cap Running
\* An instruction without an element in this lane is done at once.
Mutes(l, free) ==
  /\ Starts(l, free)
  /\ LET r == Pending(l)[1].r IN
     vfu(r.op) \in LaneVFUs /\ ~Reduction(r) /\ l >= r.vl
Enters(l, free, v) ==
  Starts(l, free) /\ ~Mutes(l, free) /\ v \in LaneUnit(Pending(l)[1].r)

Muted(l, free) == IF Mutes(l, free) THEN {Pending(l)[1].id} ELSE {}

LaneRegNext(l, free) == IF Executes(l, free) THEN <<>> ELSE Pending(l)
\* mutant: the mask stays on when the broadcast ends
SyncMaskSticky(l) ==
  IF Handshake(l) THEN [on |-> TRUE, last |-> peReq.id] ELSE syncMask[l]
SyncMaskNext(l) ==
  IF Handshake(l) THEN [on |-> TRUE, last |-> peReq.id]
  ELSE [syncMask[l] EXCEPT !.on = @ /\ peReq.valid]
LaneRunNext(l, free) ==
  (laneRun[l] \cap Running) \cup
  (IF Starts(l, free) /\ ~Mutes(l, free) /\ vfu(Pending(l)[1].r.op) # "None"
     THEN {Pending(l)[1].id} ELSE {})

\* a queue after this cycle: the unit pops what it finishes and takes what is pushed
LaneQueueNext(l, free, v, finishes) ==
  LET q == laneQueue[l][v]
      kept == IF finishes THEN Tail(q) ELSE q
  IN IF Enters(l, free, v) /\ Len(q) < InsnQueueDepth[v]
       THEN Append(kept, Pending(l)[1].id) ELSE kept

-----------------------------------------------------------------------------
(***************************************************************************)
(* The units outside the lanes.                                            *)
(***************************************************************************)
PeOf(u) == CASE u = "LoadUnit" -> PeLoad [] u = "StoreUnit" -> PeStore
             [] u = "MaskUnit" -> PeMask [] u = "SlideUnit" -> PeSlide
Takes(u, r) ==
  CASE u = "SlideUnit" -> vfu(r.op) = "SlideUnit" \/ Reduction(r)
    [] u = "MaskUnit" -> vfu(r.op) = "MaskUnit" \/ ~r.vm
    [] OTHER -> vfu(r.op) = u
Wants(u) == peReq.valid /\ Takes(u, peReq.r) /\ peReq.id \notin unitRun[u]
Accepts(u) == Wants(u) /\ Len(unitQueue[u]) < InsnQueueDepth[u]

UnitQueueNext(u, finishes) ==
  LET kept == IF finishes THEN Tail(unitQueue[u]) ELSE unitQueue[u]
  IN IF Accepts(u) THEN Append(kept, peReq.id) ELSE kept

UnitStep(unitDone) ==
  /\ unitQueue' = [u \in Units |-> UnitQueueNext(u, u \in unitDone)]
  /\ unitRun' = [u \in Units |->
       (unitRun[u] \cap Running) \cup (IF Accepts(u) THEN {peReq.id} ELSE {})]

\* The address generator works on one load or store at a time and acknowledges it.
AddrgenTakes ==
  /\ addrgen = {}
  /\ peReq.valid /\ peReq.r.op \in Loads \cup Stores /\ peReq.id \notin addrgenRun
AddrgenStep(ack) ==
  /\ addrgen' = IF AddrgenTakes THEN {peReq.id} ELSE IF ack THEN {} ELSE addrgen
  /\ addrgenRun' = (addrgenRun \cap Running) \cup (IF AddrgenTakes THEN {peReq.id} ELSE {})

-----------------------------------------------------------------------------
(***************************************************************************)
(* When a unit can finish its oldest instruction.                          *)
(***************************************************************************)
\* An instruction is executed after those it depends on, unless it is shorter.
Overtakes(i, w) == insn[i].vl < insn[w].vl
\* every lane has executed the instruction: its operands can arrive
InAllLanes(i) ==
  /\ \A l \in Lanes : \A n \in DOMAIN laneReg[l] : laneReg[l][n].id # i
  /\ \A l \in Lanes : ~(Offered(l) /\ peReq.id = i)
\* no ALU or MFPU works on it any more
OutOfLanes(i) == \A l \in Lanes, v \in LaneVFUs : i \notin Elements(laneQueue[l][v])
\* masked instructions need the mask unit to have taken them
HasMask(i) == insn[i].vm \/ i \in unitRun["MaskUnit"]

LaneMayFinish(l, v) ==
  /\ laneQueue[l][v] # <<>>
  /\ LET i == Head(laneQueue[l][v]) IN
     /\ \A w \in hazardTable[i] :
          \/ Overtakes(i, w)
          \/ w \notin peRunning[l] /\ \A pe \in PEs \ Lanes : w \notin peRunning[pe]
     /\ HasMask(i)
     \* a reduction ends in lane 0, after the slide unit has moved its results
     /\ Reduction(insn[i]) /\ l = 0 =>
          InAllLanes(i) /\ i \notin Elements(unitQueue["SlideUnit"])
     \* the mask unit takes the results of a comparison from all the lanes at once
     /\ Compare(insn[i]) =>
          /\ unitQueue["MaskUnit"] # <<>> /\ Head(unitQueue["MaskUnit"]) = i
          /\ \A k \in Lanes : laneQueue[k][v] # <<>> /\ Head(laneQueue[k][v]) = i

\* with use_vd_op, a comparison reads the old destination from MaskB
ReadsMaskB(r) == vfu(r.op) = "MaskUnit" /\ r.vdOp

UnitMayFinish(u) ==
  /\ unitQueue[u] # <<>>
  /\ LET i == Head(unitQueue[u]) IN
     \* the mask unit only hands out the mask of other units' instructions
     /\ vfu(insn[i].op) = u => \A w \in hazardTable[i] : Overtakes(i, w) \/ w \notin Running
     /\ (OutrunLanes /\ NeedsNoLane(insn[i])) \/ InAllLanes(i)
     /\ u # "MaskUnit" => HasMask(i)
     /\ u \in {"LoadUnit", "StoreUnit"} => i \in addrgenRun \ addrgen
     /\ u = "MaskUnit" /\ Compare(insn[i]) => OutOfLanes(i)
     /\ u = "MaskUnit" /\ ReadsMaskB(insn[i]) => maskBValid

Finishing(u, op) == unitQueue[u] # <<>> /\ insn[Head(unitQueue[u])].op = op

-----------------------------------------------------------------------------
(***************************************************************************)
(* Scalar results: from the mask unit for VCPOP, otherwise whatever is at  *)
(* the end of lane 0's MaskB queue.                                        *)
(***************************************************************************)
ScalarValid(unitDone) ==
  IF peReq.r.op = "VCPOP" THEN "MaskUnit" \in unitDone /\ Finishing("MaskUnit", "VCPOP")
  ELSE maskBValid

\* mutant: the operand is read and not taken
ScalarPeek(unitDone) == FALSE

\* pe_scalar_resp_ready_o: the sequencer takes the operand it has answered with
ScalarReady(unitDone) ==
  state = "WAIT" /\ ScalarAnswer(ScalarValid(unitDone)) /\ ~runningMask

RequestsMaskB(r) == r.op = "VMVXS" \/ ReadsMaskB(r)

MaskBStep(unitDone, free, arrives) ==
  LET pops == \/ ScalarReady(unitDone)
              \/ "MaskUnit" \in unitDone /\ ReadsMaskB(insn[Head(unitQueue["MaskUnit"])])
      kept == IF pops /\ maskBValid THEN Tail(maskB) ELSE maskB
      pushes == Starts(0, free) /\ RequestsMaskB(Pending(0)[1].r)
  IN /\ maskB' = IF pushes THEN Append(kept, [id |-> Pending(0)[1].id,
                                              scalar |-> Pending(0)[1].r.op = "VMVXS"])
                 ELSE kept
     /\ maskBValid' = (kept # <<>> /\ ((maskBValid /\ ~pops) \/ arrives))

-----------------------------------------------------------------------------
(***************************************************************************)
(* A cycle.  laneDone and unitDone: who finishes its oldest instruction;   *)
(* free: in which lanes the operand requesters are free; ack: the address  *)
(* generator acknowledges; arrives: the next MaskB operand is there.       *)
(***************************************************************************)
FinishingIn(laneDone, l) == {v \in LaneVFUs : <<l, v>> \in laneDone}
LaneFinishes(laneDone, l) == {Head(laneQueue[l][v]) : v \in FinishingIn(laneDone, l)}

DoneNext(laneDone, unitDone, free) ==
  [pe \in PEs |->
     IF pe \in Lanes THEN LaneFinishes(laneDone, pe) \cup Muted(pe, free[pe])
     ELSE {Head(unitQueue[u]) : u \in {x \in unitDone : PeOf(x) = pe}}]

\* the last cycle in which the sequencer shows the broadcast
BroadcastEnds == peReq.valid /\ (IF state = "WAIT" THEN LanesReady ELSE ~BroadcastStuck(LanesReady))

Losses(free) ==
  {peReq.id : u \in {x \in Units : Wants(x) /\ ~Accepts(x) /\ BroadcastEnds}} \cup
  UNION {{Pending(l)[1].id : v \in {x \in LaneVFUs : Enters(l, free[l], x) /\
             Len(laneQueue[l][x]) >= InsnQueueDepth[x]}} : l \in Lanes}

\* The inputs of a cycle.  The mask unit takes a comparison's results from all
\* the lanes at once, so they finish it together.
LaneDoneChoices ==
  {d \in SUBSET {x \in Lanes \X LaneVFUs : LaneMayFinish(x[1], x[2])} :
     \A x \in d : Compare(insn[Head(laneQueue[x[1]][x[2]])]) => \A k \in Lanes : <<k, x[2]>> \in d}
UnitDoneChoices == SUBSET {u \in Units : UnitMayFinish(u)}
AckChoices == {FALSE, addrgen # {}}
ArrivalChoices ==
  {FALSE, maskB # <<>> /\ ~maskBValid /\ (OutrunLanes \/ InAllLanes(maskB[1].id))}

BackendCycle(laneDone, unitDone, free, ack, arrives) ==
  /\ Cycle(doneReg, laneDoneReg \cup {u \in Units : doneReg[PeOf(u)] # {}}, LanesReady, ack,
           ScalarValid(unitDone))
  /\ doneReg' = DoneNext(laneDone, unitDone, free)
  /\ laneDoneReg' = FinishingIn(laneDone, 0)
  /\ laneReg' = [l \in Lanes |-> LaneRegNext(l, free[l])]
  /\ syncMask' = [l \in Lanes |-> SyncMaskNext(l)]
  /\ laneRun' = [l \in Lanes |-> LaneRunNext(l, free[l])]
  /\ laneQueue' = [l \in Lanes |-> [v \in LaneVFUs |->
                     LaneQueueNext(l, free[l], v, <<l, v>> \in laneDone)]]
  /\ UnitStep(unitDone)
  /\ AddrgenStep(ack)
  /\ MaskBStep(unitDone, free[0], arrives)
  /\ lost' = lost \cup Losses(free)

BNext ==
  \E laneDone \in LaneDoneChoices, unitDone \in UnitDoneChoices, free \in [Lanes -> BOOLEAN],
     ack \in AckChoices, arrives \in ArrivalChoices :
    BackendCycle(laneDone, unitDone, free, ack, arrives)

BSpec == BInit /\ [][BNext]_bvars

\* Every unit ends what it can end, every lane gets its operand requesters,
\* every address translation and every MaskB operand arrives.
SomeCycle(P(_, _, _, _, _)) ==
  \E laneDone \in LaneDoneChoices, unitDone \in UnitDoneChoices, free \in [Lanes -> BOOLEAN],
     ack \in AckChoices, arrives \in ArrivalChoices :
    P(laneDone, unitDone, free, ack, arrives) /\ BackendCycle(laneDone, unitDone, free, ack, arrives)
LaneEnds(l, v) == SomeCycle(LAMBDA ld, ud, f, a, m : <<l, v>> \in ld)
UnitEnds(u) == SomeCycle(LAMBDA ld, ud, f, a, m : u \in ud)
LaneGoesOn(l) == Pending(l) # <<>> /\ SomeCycle(LAMBDA ld, ud, f, a, m : f[l])
Acknowledges == SomeCycle(LAMBDA ld, ud, f, a, m : a)
OperandArrives == SomeCycle(LAMBDA ld, ud, f, a, m : m)

Fairness ==
  /\ WF_bvars(BNext)
  /\ \A l \in Lanes, v \in LaneVFUs : WF_bvars(LaneEnds(l, v))
  /\ \A u \in Units : WF_bvars(UnitEnds(u))
  /\ \A l \in Lanes : WF_bvars(LaneGoesOn(l))
  /\ WF_bvars(Acknowledges) /\ WF_bvars(OperandArrives)

FairSpec == BSpec /\ Fairness
-----------------------------------------------------------------------------
(***************************************************************************)
(* Properties.                                                             *)
(***************************************************************************)

\* The types of the units' state.
BTypeOK ==
  /\ TypeOK
  /\ \A l \in Lanes : Len(laneReg[l]) <= 1 /\ laneReg[l] \in Seq([id : Ids, r : Requests])
  /\ syncMask \in [Lanes -> [on : BOOLEAN, last : Ids]]
  /\ laneRun \in [Lanes -> SUBSET Ids]
  /\ \A l \in Lanes, v \in LaneVFUs : laneQueue[l][v] \in Seq(Ids)
  /\ \A u \in Units : unitQueue[u] \in Seq(Ids)
  /\ unitRun \in [Units -> SUBSET Ids]
  /\ doneReg \in [PEs -> SUBSET Ids] /\ laneDoneReg \in SUBSET LaneVFUs
  /\ addrgen \in SUBSET Ids /\ Cardinality(addrgen) <= 1 /\ addrgenRun \in SUBSET Ids
  /\ maskB \in Seq([id : Ids, scalar : BOOLEAN])
  /\ maskBValid \in BOOLEAN /\ lost \in SUBSET Ids

\* No instruction ever reaches a queue that has no room for it: the sequencer
\* counts the instructions of lane 0 and of the units outside the lanes, and
\* stalls as soon as lane 0 does not stand for the other lanes any more.
QueuesNeverOverflow == lost = {}

\* An instruction marked as running on a processing element is in that
\* element's queue or still on its way to it: none is forgotten, or the
\* sequencer would wait for it forever.
OnItsWay(l, i) ==
  \/ Offered(l) /\ peReq.id = i
  \/ \E n \in DOMAIN laneReg[l] : laneReg[l][n].id = i
NothingForgotten ==
  /\ \A l \in Lanes : \A i \in peRunning[l] \ doneReg[l] :
       OnItsWay(l, i) \/ \E v \in LaneVFUs : i \in Elements(laneQueue[l][v])
  /\ \A u \in Units : \A i \in peRunning[PeOf(u)] \ doneReg[PeOf(u)] :
       (peReq.valid /\ peReq.id = i) \/ i \in Elements(unitQueue[u])

\* Every queue counter is the number of instructions in the queue, on their
\* way to it, or stalled in the sequencer with a gold ticket or a plain count.
Stalled(v) == /\ state = "IDLE" /\ araReq.valid /\ token = araReq.token
              /\ v \in target_vfus(araReq.r)
One(b) == IF b THEN 1 ELSE 0
CountersExact ==
  /\ \A v \in LaneVFUs :
       cnt[v] = Len(laneQueue[0][v]) + One(Stalled(v)) + One(v \in laneDoneReg)
                + One(Pending(0) # <<>> /\ v \in LaneUnit(Pending(0)[1].r))
                + One(laneReg[0] # <<>> /\ Offered(0) /\ v \in LaneUnit(peReq.r))
  /\ \A u \in Units :
       cnt[u] = Len(unitQueue[u]) + One(Stalled(u)) + One(doneReg[PeOf(u)] # {}) + One(Wants(u))

\* Leaving WAIT with a scalar move returns that move's own operand: the only one
\* in the queue, as nothing younger has been issued.
ScalarAnswerIsOwn ==
  [][state = "WAIT" /\ state' = "IDLE" /\ peReq.r.op = "VMVXS" =>
       maskB = <<[id |-> peReq.id, scalar |-> TRUE]>>]_bvars

\* A load or a store leaves WAIT in the cycle in which the address generator
\* acknowledges it, and no acknowledgement is given to nobody.
MemoryAnswerIsOwn ==
  [][(state = "WAIT" /\ state' = "IDLE" /\ peReq.r.op \in Loads \cup Stores)
     <=> (addrgen # {} /\ addrgen' = {} /\ addrgen = {peReq.id})]_bvars

\* Every request of the dispatcher is taken in the end: no combination of full
\* queues, gold tickets, hazards, desynchronised lanes and answers stops the
\* sequencer for good.
Progress ==
  \A b \in BOOLEAN :
    (araReq.valid /\ araReq.token = b) ~> ~(araReq.valid /\ araReq.token = b)
=============================================================================
