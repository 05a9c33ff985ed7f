---------------------------- MODULE AraSequencer ----------------------------
(***************************************************************************)
(* Ara's main sequencer (hardware/src/ara_sequencer.sv): it gives every    *)
(* vector instruction an id, records on which running instructions it      *)
(* depends, broadcasts it to the processing elements (PEs) and keeps them  *)
(* from receiving more instructions than their queues hold.                *)
(*                                                                         *)
(* One step is one clock cycle.  The inputs of the cycle are chosen by the *)
(* environment: which PEs report instructions as done, whether all the     *)
(* lanes' operand requesters take the broadcast, whether the address       *)
(* generator or the scalar response arrives.  The dispatcher's output      *)
(* register, which holds the request, is part of the state.                *)
(*                                                                         *)
(* An opcode stands for the range of opcodes the source treats alike; it   *)
(* is the first one of the range.  A register operand is the set of the    *)
(* registers it names: empty when use_vs1 / use_vs2 / use_vd is 0.    *)
(* The length vl of a request only tells apart which instruction is longer *)
(* and which lanes have an element to process.                             *)
(***************************************************************************)
EXTENDS Naturals, FiniteSets

CONSTANTS
  NrVInsn,        \* instructions that can run at once: ids 0 .. NrVInsn - 1
  NrLanes,
  VRegs,          \* the vector registers
  VMASK,          \* the register that holds the mask
  Requests,       \* the requests the dispatcher may send
  InsnQueueDepth, \* depth of every functional unit's instruction queue
  CntWrap         \* 2 ^ width of the queue counters

Ids == 0 .. NrVInsn - 1
Lanes == 0 .. NrLanes - 1
\* the PEs after the lanes, in the order of vfu_offset_e
PeLoad == NrLanes
PeStore == NrLanes + 1
PeMask == NrLanes + 2
PeSlide == NrLanes + 3
PEs == 0 .. NrLanes + 3

VFUs == {"Alu", "MFpu", "SlideUnit", "MaskUnit", "LoadUnit", "StoreUnit", "None"}

Loads == {"VLE", "VLXE"}
Stores == {"VSE"}
Ops == Loads \cup Stores \cup
       {"VADD", "VREDSUM", "VMUL", "VFREDUSUM", "VMFEQ", "VMSEQ", "VCPOP",
        "VMVXS", "VSLIDEUP", "VSLIDEDOWN"}

Operand == {{}} \cup {{v} : v \in VRegs}
RequestType == [op : Ops, vm : BOOLEAN, vs1 : Operand, vs2 : Operand,
                vd : Operand, vdOp : BOOLEAN, vl : Nat]

ASSUME NrVInsnAssumption == NrVInsn \in Nat \ {0}
ASSUME NrLanesAssumption == NrLanes \in Nat \ {0}
ASSUME VRegsAssumption == VMASK \in VRegs
ASSUME RequestsAssumption == Requests # {} /\ Requests \subseteq RequestType
ASSUME DepthAssumption ==
  /\ InsnQueueDepth \in [VFUs -> Nat \ {0}]
  /\ CntWrap \in Nat
  /\ \A v \in VFUs : InsnQueueDepth[v] + 1 < CntWrap

\* the unit that handles an operation
vfu(op) ==
  CASE op \in {"VADD", "VREDSUM"} -> "Alu"
    [] op \in {"VMUL", "VFREDUSUM"} -> "MFpu"
    [] op \in {"VMFEQ", "VMSEQ", "VCPOP"} -> "MaskUnit"
    [] op \in Loads -> "LoadUnit"
    [] op \in Stores -> "StoreUnit"
    [] op \in {"VSLIDEUP", "VSLIDEDOWN"} -> "SlideUnit"
    [] op = "VMVXS" -> "None"

\* every unit whose queue the instruction occupies
target_vfus(r) ==
  (CASE r.op = "VADD" -> {"Alu"}
     [] r.op = "VREDSUM" -> {"Alu", "SlideUnit"}
     [] r.op = "VFREDUSUM" -> {"MFpu", "SlideUnit"}
     [] r.op = "VMUL" -> {"MFpu"}
     [] r.op \in {"VMSEQ", "VCPOP"} -> {"Alu", "MaskUnit"}
     [] r.op = "VMFEQ" -> {"MFpu", "MaskUnit"}
     [] r.op \in Loads -> {"LoadUnit"}
     [] r.op \in Stores -> {"StoreUnit"}
     [] r.op \in {"VSLIDEUP", "VSLIDEDOWN"} -> {"SlideUnit"}
     [] r.op = "VMVXS" -> {"None"})
  \cup (IF r.vm THEN {} ELSE {"MaskUnit"})

\* Only stores and scalar results have no destination register, VCPOP keeps no
\* old destination, and an instruction without an element is a NOP: the
\* dispatcher does not send it.
ASSUME DispatcherAssumption ==
  \A r \in Requests :
    /\ r.vd = {} <=> r.op \in Stores \cup {"VCPOP", "VMVXS"}
    /\ r.op = "VCPOP" => ~r.vdOp
    /\ vfu(r.op) \in {"Alu", "MFpu"} => r.vl > 0

\* the PEs on which the instruction is marked as running
RunsOn(r) ==
  (CASE vfu(r.op) = "LoadUnit" -> {PeLoad}
     [] vfu(r.op) = "StoreUnit" -> {PeStore}
     [] vfu(r.op) = "SlideUnit" -> {PeSlide}
     [] vfu(r.op) = "MaskUnit" -> {PeMask}
     [] vfu(r.op) = "None" -> {}
     [] OTHER -> Lanes)
  \cup (IF r.vm THEN {} ELSE {PeMask})

VARIABLES
  state,       \* state_q: "IDLE" or "WAIT"
  araReq,      \* the dispatcher's request register: [valid, r, token]
  token,       \* ara_req_token_q
  peReq,       \* pe_req_o and pe_req_valid_o: [valid, id, r, hz]
  peRunning,   \* pe_vinsn_running_q: the instructions running on each PE
  readList,    \* per register, the last instruction that reads it, if any
  writeList,   \* per register, the last instruction that writes it, if any
  hazardTable, \* global_hazard_table_o: on which ids each id depends
  cnt,         \* insn_queue_cnt_q
  gold,        \* gold_ticket_q
  runningMask, \* running_mask_insn_q
  \* History variables:
  older,       \* per id, the instructions that were running when it was issued
               \* and have not stopped running since
  insn         \* per id, the request it was last given to

seqVars == <<state, araReq, token, peReq, peRunning, readList, writeList,
             hazardTable, cnt, gold, runningMask>>
vars == <<state, araReq, token, peReq, peRunning, readList, writeList,
          hazardTable, cnt, gold, runningMask, older, insn>>

NoHazards == [vs1 |-> {}, vs2 |-> {}, vm |-> {}, vd |-> {}]
SomeRequest == CHOOSE r \in Requests : TRUE
NoPeReq == [valid |-> FALSE, id |-> 0, r |-> SomeRequest, hz |-> NoHazards]

Init ==
  /\ state = "IDLE"
  /\ araReq = [valid |-> FALSE, r |-> SomeRequest, token |-> FALSE]
  /\ token = TRUE
  /\ peReq = NoPeReq
  /\ peRunning = [pe \in PEs |-> {}]
  /\ readList = [v \in VRegs |-> {}]
  /\ writeList = [v \in VRegs |-> {}]
  /\ hazardTable = [i \in Ids |-> {}]
  /\ cnt = [v \in VFUs |-> 0]
  /\ gold = {}
  /\ runningMask = FALSE
  /\ older = [i \in Ids |-> {}]
  /\ insn = [i \in Ids |-> SomeRequest]

-----------------------------------------------------------------------------
(***************************************************************************)
(* Combinational logic.                                                    *)
(***************************************************************************)

\* vinsn_running_q
Running == UNION {peRunning[pe] : pe \in PEs}
\* mutant: only the lanes are looked at
FreeOfLanes == Ids \ UNION {peRunning[l] : l \in Lanes}

\* vinsn_running_full and vinsn_id_n: the lowest free id
Free == Ids \ Running
\* mutant: ids are handed out in turn, without a wrap
NextIdInTurn == peReq.id + 1

NextId == CHOOSE i \in Free : \A j \in Free : i <= j

\* the access lists forget instructions that no longer run
Reader(v) == readList[v] \cap Running
\* mutant: the write list is not refreshed
StaleWriter(v) == writeList[v]
Writer(v) == writeList[v] \cap Running

\* Hazards of a request against the running instructions.  A write-after-read
\* hazard is put on every operand.
WarHazard(r) == UNION {Reader(v) : v \in r.vd}
\* mutant: a writer does not wait for the writer before it
HazardsNoWriter(r) ==
  [vs1 |-> (UNION {Writer(v) : v \in r.vs1}) \cup WarHazard(r),
   vs2 |-> (UNION {Writer(v) : v \in r.vs2}) \cup WarHazard(r),
   vm  |-> (IF r.vm THEN {} ELSE Writer(VMASK)) \cup WarHazard(r), vd |-> {}]
Hazards(r) ==
  [vs1 |-> (UNION {Writer(v) : v \in r.vs1}) \cup WarHazard(r),
   vs2 |-> (UNION {Writer(v) : v \in r.vs2}) \cup WarHazard(r),
   vm  |-> (IF r.vm THEN {} ELSE Writer(VMASK)) \cup WarHazard(r),
   vd  |-> UNION {Writer(v) : v \in r.vd}]
AllHazards(hz) == hz.vs1 \cup hz.vs2 \cup hz.vm \cup hz.vd

\* Instructions that read nothing wait until they have no hazard at all, and
\* slides until they have none they cannot be chained on.
NotChainable(r) ==
  LET hz == Hazards(r) IN
  \/ /\ r.vs1 = {} /\ r.vs2 = {} /\ ~r.vdOp /\ r.vm
     /\ AllHazards(hz) # {}
  \/ r.op = "VSLIDEUP" /\ hz.vd \cup hz.vs1 \cup hz.vs2 # {}
  \/ r.op = "VSLIDEDOWN" /\ hz.vs1 \cup hz.vs2 # {}

\* mutant: lane 0 always stands for all the lanes
NeverDesynched == FALSE

\* Lane 0 is done with an instruction another lane still runs.
DesynchedLanes ==
  \E i \in Ids : i \notin peRunning[0] /\ \E l \in Lanes \ {0} : i \in peRunning[l]

\* mutant: no priority pass
NoPass(v) == FALSE

\* A queue has room, or its counter already includes this very request.
PriorityPass(v) ==
  v \in gold /\ cnt[v] = InsnQueueDepth[v] /\ token = araReq.token
QueueIssue(v) == cnt[v] < InsnQueueDepth[v] \/ PriorityPass(v)
CanIssue ==
  /\ \A v \in target_vfus(araReq.r) : QueueIssue(v)
  /\ ~DesynchedLanes
  /\ Free # {}

\* a load without a mask needs no operand of a lane
NeedsNoLane(r) == r.op \in Loads /\ r.vm
BroadcastStuck(lanesReady) ==
  peReq.valid /\ ~(lanesReady \/ NeedsNoLane(peReq.r))

\* Loads, stores and scalar results are acknowledged to the scalar core.
NeedsAnswer(r) == r.op \in Loads \cup Stores \/ r.vd = {}

\* mutant: a stalled request is counted again
AcceptedAgain == araReq.valid

\* a request the sequencer has not seen before
Accepted == araReq.valid /\ token # araReq.token

-----------------------------------------------------------------------------
(***************************************************************************)
(* The parts of a cycle.  `done' is what every PE reports as done, `fuDone'*)
(* the units whose queue counter counts down.                              *)
(***************************************************************************)

\* pe_vinsn_running_d, given the PEs that start `id'
RunningNext(done, starts, id) ==
  [pe \in PEs |-> (peRunning[pe] \ done[pe]) \cup (IF pe \in starts THEN {id} ELSE {})]

Track(done, starts, id, row) ==
  LET next == RunningNext(done, starts, id)
      alive == UNION {next[pe] : pe \in PEs}
  IN /\ peRunning' = next
     /\ hazardTable' = [i \in Ids |-> (IF i = id THEN row ELSE hazardTable[i]) \cap alive]
     /\ older' = [i \in Ids |-> (IF i = id /\ starts # {} THEN Running ELSE older[i])
                                \cap alive]

\* a cycle that issues nothing: the lists are refreshed all the same
TrackOnly(done) ==
  LET next == [pe \in PEs |-> peRunning[pe] \ done[pe]]
      alive == UNION {next[pe] : pe \in PEs}
  IN /\ peRunning' = next
     /\ hazardTable' = [i \in Ids |-> hazardTable[i] \cap alive]
     /\ older' = [i \in Ids |-> older[i] \cap alive]
     /\ UNCHANGED insn

RefreshLists ==
  /\ readList' = [v \in VRegs |-> Reader(v)]
  /\ writeList' = [v \in VRegs |-> Writer(v)]

\* gen_seq_fu_cnt: a request is counted in the cycle it is first seen; a gold
\* ticket remembers that a stalled request has been counted already.
Count(fuDone, ready) ==
  LET up(v) == Accepted /\ v \in target_vfus(araReq.r) IN
  /\ cnt' = [v \in VFUs |->
       IF v = "None" \/ (up(v) <=> v \in fuDone) THEN cnt[v]
       ELSE IF up(v) THEN (cnt[v] + 1) % CntWrap
       ELSE (cnt[v] + CntWrap - 1) % CntWrap]
  /\ gold' = IF Accepted /\ ~ready
               THEN {v \in target_vfus(araReq.r) : cnt[v] >= InsnQueueDepth[v] - 1}
               ELSE gold
  /\ token' = IF araReq.valid THEN araReq.token ELSE token

\* A mask instruction has been taken by the lanes and not finished by the MASKU.
TrackMask(done, lanesReady) ==
  runningMask' =
    (\/ peReq.valid /\ lanesReady /\ vfu(peReq.r.op) = "MaskUnit"
     \/ runningMask /\ done[PeMask] = {})

\* The dispatcher's register: loaded when the sequencer is ready; the token
\* flips after every handshake.
Dispatch(ready) ==
  IF ready
    THEN \E valid \in BOOLEAN, r \in Requests :
           /\ ~valid => r = araReq.r
           /\ araReq' = [valid |-> valid, r |-> r,
                         token |-> IF araReq.valid THEN ~araReq.token ELSE araReq.token]
    ELSE UNCHANGED araReq

\* what every cycle does besides deciding about the request
Clock(done, fuDone, lanesReady, ready) ==
  /\ Count(fuDone, ready)
  /\ TrackMask(done, lanesReady)
  /\ Dispatch(ready)

-----------------------------------------------------------------------------
(***************************************************************************)
(* The cycles.                                                             *)
(***************************************************************************)

\* IDLE: some lane has not taken the last broadcast yet
HoldBroadcast(done, fuDone, lanesReady) ==
  /\ state = "IDLE" /\ BroadcastStuck(lanesReady)
  /\ UNCHANGED <<state, peReq>>
  /\ TrackOnly(done) /\ RefreshLists
  /\ Clock(done, fuDone, lanesReady, FALSE)

\* IDLE: nothing requested
NoRequest(done, fuDone, lanesReady) ==
  /\ state = "IDLE" /\ ~BroadcastStuck(lanesReady)
  /\ ~araReq.valid
  /\ peReq' = NoPeReq /\ UNCHANGED state
  /\ TrackOnly(done) /\ RefreshLists
  /\ Clock(done, fuDone, lanesReady, TRUE)

\* IDLE: a target queue is full, the lanes are desynchronised, or no id is free
PEsBusy(done, fuDone, lanesReady) ==
  /\ state = "IDLE" /\ ~BroadcastStuck(lanesReady)
  /\ araReq.valid /\ ~CanIssue
  /\ peReq' = NoPeReq /\ UNCHANGED state
  /\ TrackOnly(done) /\ RefreshLists
  /\ Clock(done, fuDone, lanesReady, FALSE)

\* IDLE: the request must not be chained on the instructions it depends on
HazardStall(done, fuDone, lanesReady) ==
  /\ state = "IDLE" /\ ~BroadcastStuck(lanesReady)
  /\ araReq.valid /\ CanIssue /\ NotChainable(araReq.r)
  /\ peReq' = [valid |-> FALSE, id |-> NextId, r |-> araReq.r, hz |-> Hazards(araReq.r)]
  /\ Track(done, {}, NextId, AllHazards(Hazards(araReq.r)))
  /\ RefreshLists
  /\ UNCHANGED <<state, insn>>
  /\ Clock(done, fuDone, lanesReady, FALSE)

\* IDLE: issue the request under a free id
Issue(done, fuDone, lanesReady) ==
  LET r == araReq.r
      id == NextId
  IN /\ state = "IDLE" /\ ~BroadcastStuck(lanesReady)
     /\ araReq.valid /\ CanIssue /\ ~NotChainable(r)
     /\ peReq' = [valid |-> TRUE, id |-> id, r |-> r, hz |-> Hazards(r)]
     /\ Track(done, RunsOn(r), id, AllHazards(Hazards(r)))
     /\ writeList' = [v \in VRegs |-> IF v \in r.vd THEN {id} ELSE Writer(v)]
     /\ readList' = [v \in VRegs |->
          IF v \in r.vs1 \cup r.vs2 \/ (v = VMASK /\ ~r.vm) THEN {id} ELSE Reader(v)]
     /\ insn' = [insn EXCEPT ![id] = r]
     /\ state' = IF NeedsAnswer(r) THEN "WAIT" ELSE "IDLE"
     /\ Clock(done, fuDone, lanesReady, ~NeedsAnswer(r))

\* WAIT: the broadcast ends once every lane has taken it
BroadcastInWait(lanesReady) ==
  peReq' = [peReq EXCEPT !.valid = @ /\ ~lanesReady]

\* mutant: only loads are answered
LoadAnswer(ack) == peReq.r.op \in Loads /\ ack
\* the conditions under which an answer ends WAIT
MemAnswer(ack) == peReq.r.op \in Loads \cup Stores /\ ack
ScalarAnswer(scalar) == araReq.r.vd = {} /\ scalar

StayInWait(done, fuDone, lanesReady, ack, scalar) ==
  /\ state = "WAIT" /\ ~MemAnswer(ack) /\ ~ScalarAnswer(scalar)
  /\ BroadcastInWait(lanesReady) /\ UNCHANGED state
  /\ TrackOnly(done) /\ RefreshLists
  /\ Clock(done, fuDone, lanesReady, FALSE)

\* WAIT: the address translation or the scalar result has arrived
Answer(done, fuDone, lanesReady, ack, scalar) ==
  /\ state = "WAIT" /\ (MemAnswer(ack) \/ ScalarAnswer(scalar))
  /\ state' = "IDLE"
  /\ BroadcastInWait(lanesReady)
  /\ TrackOnly(done) /\ RefreshLists
  /\ Clock(done, fuDone, lanesReady, TRUE)

Cycle(done, fuDone, lanesReady, ack, scalar) ==
  \/ HoldBroadcast(done, fuDone, lanesReady)
  \/ NoRequest(done, fuDone, lanesReady)
  \/ PEsBusy(done, fuDone, lanesReady)
  \/ HazardStall(done, fuDone, lanesReady)
  \/ Issue(done, fuDone, lanesReady)
  \/ StayInWait(done, fuDone, lanesReady, ack, scalar)
  \/ Answer(done, fuDone, lanesReady, ack, scalar)

\* Whatever the PEs do: AraBackend says what they really do.
Next ==
  \E done \in [PEs -> SUBSET Ids], fuDone \in SUBSET VFUs, lanesReady, ack, scalar \in BOOLEAN :
    Cycle(done, fuDone, lanesReady, ack, scalar)

Spec == Init /\ [][Next]_vars

-----------------------------------------------------------------------------
(***************************************************************************)
(* Properties.                                                             *)
(***************************************************************************)

\* The types of the registers, and of the two history variables.
HazardType == [vs1 : SUBSET Ids, vs2 : SUBSET Ids, vm : SUBSET Ids, vd : SUBSET Ids]
TypeOK ==
  /\ state \in {"IDLE", "WAIT"}
  /\ araReq \in [valid : BOOLEAN, r : Requests, token : BOOLEAN]
  /\ token \in BOOLEAN
  /\ peReq \in [valid : BOOLEAN, id : Ids, r : Requests, hz : HazardType]
  /\ peRunning \in [PEs -> SUBSET Ids]
  /\ readList \in [VRegs -> SUBSET Ids]
  /\ writeList \in [VRegs -> SUBSET Ids]
  /\ hazardTable \in [Ids -> SUBSET Ids]
  /\ cnt \in [VFUs -> 0 .. CntWrap - 1]
  /\ gold \in SUBSET VFUs
  /\ runningMask \in BOOLEAN
  /\ older \in [Ids -> SUBSET Ids]
  /\ insn \in [Ids -> Requests]

\* Being issued earlier is a strict total order on the running instructions.
AgeIsOrder ==
  /\ \A i \in Ids : older[i] \subseteq Running
  /\ \A i \in Running : i \notin older[i]
  /\ \A i, j \in Running : i # j => (i \in older[j] <=> j \notin older[i])
  /\ \A i, j \in Running : i \in older[j] => older[i] \subseteq older[j]

\* Every running instruction waits only for instructions that were issued
\* before it and are still running.  So no two instructions ever wait for each
\* other, and a row never names an instruction that got a finished one's id.
HazardsPointBack == \A i \in Running : hazardTable[i] \subseteq older[i]

\* Whom an instruction waits for, directly or through others: those in every
\* set that holds its row and, with an instruction, that one's row.
Reads(r) == r.vs1 \cup r.vs2 \cup (IF r.vm THEN {} ELSE {VMASK})
Waits(i) ==
  {w \in Ids : \A S \in SUBSET Ids :
     hazardTable[i] \subseteq S /\ (\A j \in S : hazardTable[j] \subseteq S) => w \in S}

\* A running instruction waits, directly or through others, for every older
\* running instruction that writes a register it reads or writes (RAW, WAW).
\* The write list remembers only the last writer of every register: the others
\* are reached through it.
WritersCovered ==
  \A i \in Running : \A w \in older[i] :
    insn[w].vd \cap (Reads(insn[i]) \cup insn[i].vd) # {} => w \in Waits(i)

\* The same for the older running instructions that read the register it
\* writes (WAR): "it indicates all the instruction on which instruction N
\* depends".
ReadersCovered ==
  \A i \in Running : \A r \in older[i] :
    Reads(insn[r]) \cap insn[i].vd # {} => r \in Waits(i)
=============================================================================
