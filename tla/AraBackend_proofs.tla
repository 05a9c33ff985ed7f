------------------------- MODULE AraBackend_proofs -------------------------
(***************************************************************************)
(* What holds of the main sequencer, alone and together with the units it  *)
(* drives, for every number of ids, lanes and registers, every set of      *)
(* requests, every queue depth, and, alone, whatever the processing        *)
(* elements report: its types, ages and hazards; with the units, the types *)
(* of all the registers, the queue counters, the answers to the scalar     *)
(* core, the queues themselves and the order in which they are left.       *)
(***************************************************************************)
EXTENDS AraBackend, WellFoundedInduction, FiniteSetTheorems, TLAPS

-----------------------------------------------------------------------------
(***************************************************************************)
(* The sequencer alone.                                                    *)
(***************************************************************************)
\* The inductive invariant.
Inv == TypeOK /\ AgeIsOrder /\ HazardsPointBack

LEMMA RunningDef ==
  ASSUME NEW i
  PROVE  i \in Running <=> \E pe \in PEs : i \in peRunning[pe]
BY DEF Running

\* A free id is found whenever there is one.
LEMMA NextIdLemma ==
  ASSUME Free # {}
  PROVE  NextId \in Ids /\ NextId \notin Running
<1> DEFINE R == OpToRel(<, Nat)
<1>1. Free \subseteq Nat
  BY NrVInsnAssumption DEF Free, Ids
<1>2. IsWellFoundedOn(R, Nat)
  BY NatLessThanWellFounded
<1>3. \E i \in Free : \A j \in Free : ~(<<j, i>> \in R)
  <2> HIDE DEF R
  <2> QED  BY <1>1, <1>2, WFMin
<1>4. \E i \in Free : \A j \in Free : i <= j
  <2>1. ASSUME NEW i \in Nat, NEW j \in Nat, ~(<<j, i>> \in R)
        PROVE  i <= j
    <3>1. R = {ss \in Nat \X Nat : ss[1] < ss[2]}
      BY DEF OpToRel
    <3>2. ~(j < i)
      <4> HIDE DEF R
      <4> QED  BY <2>1, <3>1
    <3>3. QED
      BY <3>2
  <2> HIDE DEF R
  <2>2. QED
    BY <1>1, <1>3, <2>1
<1>5. NextId \in Free
  BY <1>4 DEF NextId
<1>6. QED
  BY <1>5 DEF Free

\* The access lists and the hazards name running instructions only.
LEMMA HazardsLemma ==
  ASSUME TypeOK, NEW r \in Requests
  PROVE  /\ Hazards(r) \in HazardType
         /\ AllHazards(Hazards(r)) \subseteq Running
<1>1. r.vs1 \subseteq VRegs /\ r.vs2 \subseteq VRegs /\ r.vd \subseteq VRegs
  BY RequestsAssumption DEF RequestType, Operand
<1>2. \A v \in VRegs : /\ Reader(v) \subseteq Ids /\ Reader(v) \subseteq Running
                       /\ Writer(v) \subseteq Ids /\ Writer(v) \subseteq Running
  BY DEF TypeOK, Reader, Writer
<1>3. WarHazard(r) \subseteq Ids /\ WarHazard(r) \subseteq Running
  BY <1>1, <1>2 DEF WarHazard
<1>4. /\ UNION {Writer(v) : v \in r.vs1} \subseteq Ids \cap Running
      /\ UNION {Writer(v) : v \in r.vs2} \subseteq Ids \cap Running
      /\ UNION {Writer(v) : v \in r.vd} \subseteq Ids \cap Running
  BY <1>1, <1>2
<1>5. Writer(VMASK) \subseteq Ids \cap Running
  BY <1>2, VRegsAssumption
<1> DEFINE s1 == (UNION {Writer(v) : v \in r.vs1}) \cup WarHazard(r)
           s2 == (UNION {Writer(v) : v \in r.vs2}) \cup WarHazard(r)
           m == (IF r.vm THEN {} ELSE Writer(VMASK)) \cup WarHazard(r)
           d == UNION {Writer(v) : v \in r.vd}
<1>6. /\ s1 \subseteq Ids \cap Running /\ s2 \subseteq Ids \cap Running
      /\ m \subseteq Ids \cap Running /\ d \subseteq Ids \cap Running
  BY <1>3, <1>4, <1>5
<1>7. Hazards(r) = [vs1 |-> s1, vs2 |-> s2, vm |-> m, vd |-> d]
  BY DEF Hazards
<1> HIDE DEF s1, s2, m, d
<1>8. Hazards(r) \in HazardType
  BY <1>6, <1>7 DEF HazardType
<1>9. AllHazards(Hazards(r)) = s1 \cup s2 \cup m \cup d
  BY <1>7 DEF AllHazards
<1>10. QED
  BY <1>6, <1>8, <1>9

LEMMA RunsOnLemma ==
  ASSUME NEW r
  PROVE  RunsOn(r) \subseteq PEs
BY NrLanesAssumption DEF RunsOn, PEs, Lanes, PeLoad, PeStore, PeMask, PeSlide

\* How ages and hazards evolve when instructions stop running and those of `new'
\* (at most one, with an id that was free) start.
LEMMA AgeStep ==
  ASSUME Inv,
         NEW new \in SUBSET Ids,
         \A i \in new : i \notin Running,
         \A i, j \in new : i = j,
         Running' \subseteq Running \cup new,
         \A i \in Ids : older'[i] = (IF i \in new THEN Running ELSE older[i]) \cap Running',
         \A i \in Ids : i \in Running' =>
           hazardTable'[i] \subseteq (IF i \in new THEN Running ELSE hazardTable[i]) \cap Running'
  PROVE  AgeIsOrder' /\ HazardsPointBack'
<1>1. Running \subseteq Ids
  BY DEF Inv, TypeOK, Running
<1>2. Running' \subseteq Ids
  BY <1>1
<1>3. \A i \in Ids : older'[i] \subseteq Running'
  OBVIOUS
<1>4. \A i \in Ids : older'[i] \subseteq Running
  BY DEF Inv, AgeIsOrder
<1>5. \A i \in Running' : i \notin older'[i]
  BY <1>2 DEF Inv, AgeIsOrder
<1>6. ASSUME NEW i \in Running', NEW j \in Running', i # j
      PROVE  i \in older'[j] <=> j \notin older'[i]
  <2>1. CASE i \notin new /\ j \notin new
    BY <1>2, <1>6, <2>1 DEF Inv, AgeIsOrder
  <2>2. CASE i \in new
    <3>1. j \in Running /\ j \notin new
      BY <1>6, <2>2
    <3>2. j \in older'[i]
      BY <1>2, <2>2, <3>1
    <3>3. i \notin older'[j]
      BY <1>2, <1>4, <2>2
    <3>4. QED
      BY <3>2, <3>3
  <2>3. CASE j \in new
    <3>1. i \in Running /\ i \notin new
      BY <1>6, <2>3
    <3>2. i \in older'[j]
      BY <1>2, <2>3, <3>1
    <3>3. j \notin older'[i]
      BY <1>2, <1>4, <2>3
    <3>4. QED
      BY <3>2, <3>3
  <2>4. QED
    BY <2>1, <2>2, <2>3
<1>7. ASSUME NEW i \in Running', NEW j \in Running', i \in older'[j]
      PROVE  older'[i] \subseteq older'[j]
  <2>1. i \in Running /\ i \notin new
    BY <1>2, <1>4, <1>7
  <2>2. CASE j \in new
    BY <1>2, <1>3, <1>4, <2>2
  <2>3. CASE j \notin new
    <3>1. i \in older[j] /\ j \in Running
      BY <1>2, <1>7, <2>3
    <3>2. older[i] \subseteq older[j]
      BY <2>1, <3>1 DEF Inv, AgeIsOrder
    <3>3. QED
      BY <1>2, <2>1, <2>3, <3>2
  <2>4. QED
    BY <2>2, <2>3
<1>8. AgeIsOrder'
  BY <1>3, <1>5, <1>6, <1>7 DEF AgeIsOrder
<1>9. HazardsPointBack'
  <2>1. ASSUME NEW i \in Running'
        PROVE  hazardTable'[i] \subseteq older'[i]
    BY <1>2 DEF Inv, HazardsPointBack
  <2>2. QED
    BY <2>1 DEF HazardsPointBack
<1>10. QED
  BY <1>8, <1>9

\* The registers that every cycle writes alike.
TrackTypes ==
  /\ peRunning \in [PEs -> SUBSET Ids]
  /\ hazardTable \in [Ids -> SUBSET Ids]
  /\ older \in [Ids -> SUBSET Ids]

LEMMA TrackOnlyStep ==
  ASSUME Inv, NEW done \in [PEs -> SUBSET Ids], TrackOnly(done)
  PROVE  TrackTypes' /\ insn' \in [Ids -> Requests] /\ AgeIsOrder' /\ HazardsPointBack'
<1>1. TypeOK
  BY DEF Inv
<1>2. peRunning' = [pe \in PEs |-> peRunning[pe] \ done[pe]]
  BY DEF TrackOnly
<1>3. \A pe \in PEs : peRunning'[pe] \subseteq peRunning[pe]
  BY <1>2
<1>4. Running' \subseteq Running
  BY <1>3 DEF Running
<1>5. /\ hazardTable' = [i \in Ids |-> hazardTable[i] \cap Running']
      /\ older' = [i \in Ids |-> older[i] \cap Running']
  BY <1>2 DEF TrackOnly, Running
<1>6. TrackTypes' /\ insn' \in [Ids -> Requests]
  BY <1>1, <1>2, <1>5 DEF TrackTypes, TypeOK, TrackOnly
<1>7. AgeIsOrder' /\ HazardsPointBack'
  <2> DEFINE new == {}
  <2>1. /\ new \in SUBSET Ids
        /\ \A i \in new : i \notin Running
        /\ \A i, j \in new : i = j
        /\ Running' \subseteq Running \cup new
    BY <1>4
  <2>2. /\ \A i \in Ids : older'[i] = (IF i \in new THEN Running ELSE older[i]) \cap Running'
        /\ \A i \in Ids : i \in Running' =>
             hazardTable'[i] \subseteq (IF i \in new THEN Running ELSE hazardTable[i]) \cap Running'
    BY <1>5
  <2> HIDE DEF new
  <2>3. QED
    BY <2>1, <2>2, AgeStep
<1>8. QED
  BY <1>6, <1>7

LEMMA TrackStep ==
  ASSUME Inv, NEW done \in [PEs -> SUBSET Ids], NEW starts \in SUBSET PEs,
         NEW id \in Ids, id \notin Running,
         NEW row \in SUBSET Ids, row \subseteq Running,
         Track(done, starts, id, row)
  PROVE  TrackTypes' /\ AgeIsOrder' /\ HazardsPointBack'
<1>1. TypeOK
  BY DEF Inv
<1> DEFINE new == IF starts = {} THEN {} ELSE {id}
<1>2. peRunning' = [pe \in PEs |-> (peRunning[pe] \ done[pe])
                                   \cup (IF pe \in starts THEN {id} ELSE {})]
  BY DEF Track, RunningNext
<1>3. \A pe \in PEs : peRunning'[pe] \subseteq peRunning[pe] \cup new
  BY <1>2
<1>4. Running' \subseteq Running \cup new
  <2> HIDE DEF new
  <2>1. ASSUME NEW i \in Running' PROVE i \in Running \cup new
    BY <1>3, <2>1 DEF Running
  <2>2. QED
    BY <2>1
<1>5. /\ hazardTable' = [i \in Ids |-> (IF i = id THEN row ELSE hazardTable[i]) \cap Running']
      /\ older' = [i \in Ids |-> (IF i = id /\ starts # {} THEN Running ELSE older[i])
                                 \cap Running']
  <2>1. UNION {RunningNext(done, starts, id)[pe] : pe \in PEs} = Running'
    BY DEF Track, Running
  <2>2. QED
    BY <2>1 DEF Track
<1>6. Running \subseteq Ids
  BY <1>1 DEF TypeOK, Running
<1>7. TrackTypes'
  <2>1. peRunning' \in [PEs -> SUBSET Ids]
    BY <1>1, <1>2 DEF TypeOK
  <2>2. hazardTable' \in [Ids -> SUBSET Ids]
    BY <1>1, <1>5 DEF TypeOK
  <2>3. older' \in [Ids -> SUBSET Ids]
    BY <1>1, <1>5, <1>6 DEF TypeOK
  <2>4. QED
    BY <2>1, <2>2, <2>3 DEF TrackTypes
<1>8. /\ new \in SUBSET Ids
      /\ \A i \in new : i \notin Running
      /\ \A i, j \in new : i = j
  OBVIOUS
<1>9. \A i \in Ids : older'[i] = (IF i \in new THEN Running ELSE older[i]) \cap Running'
  BY <1>5
<1>10. \A i \in Ids : i \in Running' =>
         hazardTable'[i] \subseteq (IF i \in new THEN Running ELSE hazardTable[i]) \cap Running'
  <2>1. ASSUME NEW i \in Ids, i \in Running'
        PROVE  hazardTable'[i] \subseteq (IF i \in new THEN Running ELSE hazardTable[i]) \cap Running'
    <3>1. CASE i # id
      BY <1>5, <3>1
    <3>2. CASE i = id
      <4>1. i \in new
        <5> HIDE DEF new
        <5> QED  BY <1>4, <2>1, <3>2
      <4>2. QED
        BY <1>5, <3>2, <4>1
    <3>3. QED
      BY <3>1, <3>2
  <2>2. QED
    BY <2>1
<1>11. AgeIsOrder' /\ HazardsPointBack'
  <2> HIDE DEF new
  <2> QED  BY <1>4, <1>8, <1>9, <1>10, AgeStep
<1>12. QED
  BY <1>7, <1>11

LEMMA TargetsLemma ==
  ASSUME NEW r \in Requests
  PROVE  target_vfus(r) \subseteq VFUs
<1>1. r.op \in Ops
  BY RequestsAssumption DEF RequestType
<1>2. QED
  BY <1>1 DEF target_vfus, VFUs, Ops, Loads, Stores

\* A counter that counts up or down modulo CntWrap stays a counter.
LEMMA CountLemma ==
  ASSUME NEW c \in 0 .. CntWrap - 1
  PROVE  /\ (c + 1) % CntWrap \in 0 .. CntWrap - 1
         /\ (c + CntWrap - 1) % CntWrap \in 0 .. CntWrap - 1
<1>1. CntWrap \in Nat \ {0}
  <2>1. "Alu" \in VFUs
    BY DEF VFUs
  <2>2. InsnQueueDepth["Alu"] \in Nat /\ InsnQueueDepth["Alu"] + 1 < CntWrap /\ CntWrap \in Nat
    BY <2>1, DepthAssumption
  <2>3. QED
    BY <2>2
<1>2. \A k \in Nat : k % CntWrap \in 0 .. CntWrap - 1
  BY <1>1
<1>3. c + 1 \in Nat /\ c + CntWrap - 1 \in Nat
  BY <1>1
<1>4. QED
  BY <1>2, <1>3

\* the registers of Clock
ClockTypes ==
  /\ cnt \in [VFUs -> 0 .. CntWrap - 1]
  /\ gold \in SUBSET VFUs
  /\ token \in BOOLEAN
  /\ runningMask \in BOOLEAN
  /\ araReq \in [valid : BOOLEAN, r : Requests, token : BOOLEAN]

LEMMA ClockStep ==
  ASSUME TypeOK, NEW done, NEW fuDone, NEW lanesReady, NEW ready \in BOOLEAN,
         Clock(done, fuDone, lanesReady, ready)
  PROVE  ClockTypes'
<1>1. araReq.r \in Requests /\ araReq.valid \in BOOLEAN /\ araReq.token \in BOOLEAN
  BY DEF TypeOK
<1>2. cnt' \in [VFUs -> 0 .. CntWrap - 1]
  <2>1. \A v \in VFUs : /\ cnt[v] \in 0 .. CntWrap - 1
                        /\ (cnt[v] + 1) % CntWrap \in 0 .. CntWrap - 1
                        /\ (cnt[v] + CntWrap - 1) % CntWrap \in 0 .. CntWrap - 1
    BY CountLemma DEF TypeOK
  <2>2. QED
    BY <2>1 DEF Clock, Count
<1>3. gold' \in SUBSET VFUs
  <2>1. target_vfus(araReq.r) \subseteq VFUs
    BY <1>1, TargetsLemma
  <2>2. gold \in SUBSET VFUs
    BY DEF TypeOK
  <2>3. gold' = IF Accepted /\ ~ready
                  THEN {v \in target_vfus(araReq.r) : cnt[v] >= InsnQueueDepth[v] - 1}
                  ELSE gold
    BY DEF Clock, Count
  <2>4. QED
    BY <2>1, <2>2, <2>3
<1>4. token' \in BOOLEAN
  BY <1>1 DEF Clock, Count, TypeOK
<1>5. runningMask' \in BOOLEAN
  BY DEF Clock, TrackMask
<1>6. araReq' \in [valid : BOOLEAN, r : Requests, token : BOOLEAN]
  <2>1. CASE ready
    <3>1. PICK valid \in BOOLEAN, r \in Requests :
            araReq' = [valid |-> valid, r |-> r,
                       token |-> IF araReq.valid THEN ~araReq.token ELSE araReq.token]
      BY <2>1 DEF Clock, Dispatch
    <3>2. (IF araReq.valid THEN ~araReq.token ELSE araReq.token) \in BOOLEAN
      BY <1>1
    <3>3. QED
      BY <3>1, <3>2
  <2>2. CASE ~ready
    BY <2>2 DEF Clock, Dispatch, TypeOK
  <2>3. QED
    BY <2>1, <2>2
<1>7. QED
  BY <1>2, <1>3, <1>4, <1>5, <1>6 DEF ClockTypes

LEMMA RefreshStep ==
  ASSUME TypeOK, RefreshLists
  PROVE  /\ readList' \in [VRegs -> SUBSET Ids]
         /\ writeList' \in [VRegs -> SUBSET Ids]
<1>1. \A v \in VRegs : Reader(v) \in SUBSET Ids /\ Writer(v) \in SUBSET Ids
  BY DEF TypeOK, Reader, Writer
<1>2. QED
  BY <1>1 DEF RefreshLists

\* The registers of the request's side, the same way.
ReqTypes ==
  /\ state \in {"IDLE", "WAIT"}
  /\ peReq \in [valid : BOOLEAN, id : Ids, r : Requests, hz : HazardType]

LEMMA TypeOKParts ==
  ASSUME TrackTypes', ClockTypes', ReqTypes',
         readList' \in [VRegs -> SUBSET Ids], writeList' \in [VRegs -> SUBSET Ids],
         insn' \in [Ids -> Requests]
  PROVE  TypeOK'
BY DEF TrackTypes, ClockTypes, ReqTypes, TypeOK

LEMMA SomeRequestLemma == SomeRequest \in Requests
BY RequestsAssumption DEF SomeRequest

\* NoPeReq is a broadcast register like any other.
LEMMA NoPeReqLemma == NoPeReq \in [valid : BOOLEAN, id : Ids, r : Requests, hz : HazardType]
<1>1. 0 \in Ids
  BY NrVInsnAssumption DEF Ids
<1>2. NoHazards \in HazardType
  BY DEF NoHazards, HazardType
<1>3. QED
  BY <1>1, <1>2, SomeRequestLemma DEF NoPeReq

LEMMA InitInv == Init => Inv
<1> SUFFICES ASSUME Init PROVE Inv
  OBVIOUS
<1>1. Running = {}
  BY DEF Init, Running
<1>2. TypeOK
  <2>1. 0 \in 0 .. CntWrap - 1
    <3>1. "Alu" \in VFUs
      BY DEF VFUs
    <3>2. InsnQueueDepth["Alu"] \in Nat /\ InsnQueueDepth["Alu"] + 1 < CntWrap /\ CntWrap \in Nat
      BY <3>1, DepthAssumption
    <3>3. QED
      BY <3>2
  <2>2. araReq \in [valid : BOOLEAN, r : Requests, token : BOOLEAN]
    BY SomeRequestLemma DEF Init
  <2>3. peReq \in [valid : BOOLEAN, id : Ids, r : Requests, hz : HazardType]
    BY NoPeReqLemma DEF Init
  <2>4. cnt \in [VFUs -> 0 .. CntWrap - 1]
    BY <2>1 DEF Init
  <2>5. insn \in [Ids -> Requests]
    BY SomeRequestLemma DEF Init
  <2>6. /\ state \in {"IDLE", "WAIT"}
        /\ token \in BOOLEAN /\ runningMask \in BOOLEAN /\ gold \in SUBSET VFUs
        /\ peRunning \in [PEs -> SUBSET Ids]
        /\ readList \in [VRegs -> SUBSET Ids]
        /\ writeList \in [VRegs -> SUBSET Ids]
        /\ hazardTable \in [Ids -> SUBSET Ids]
        /\ older \in [Ids -> SUBSET Ids]
    BY DEF Init
  <2>7. QED
    BY <2>2, <2>3, <2>4, <2>5, <2>6 DEF TypeOK
<1>3. AgeIsOrder /\ HazardsPointBack
  BY <1>1 DEF Init, AgeIsOrder, HazardsPointBack
<1>4. QED
  BY <1>2, <1>3 DEF Inv

\* A cycle that issues nothing and keeps or drops the broadcast.
LEMMA QuietStep ==
  ASSUME Inv, NEW done \in [PEs -> SUBSET Ids], NEW fuDone, NEW lanesReady,
         NEW ready \in BOOLEAN,
         TrackOnly(done), RefreshLists, Clock(done, fuDone, lanesReady, ready), ReqTypes'
  PROVE  Inv'
<1>1. TypeOK
  BY DEF Inv
<1>2. TrackTypes' /\ insn' \in [Ids -> Requests] /\ AgeIsOrder' /\ HazardsPointBack'
  BY TrackOnlyStep
<1>3. ClockTypes'
  BY <1>1, ClockStep
<1>4. readList' \in [VRegs -> SUBSET Ids] /\ writeList' \in [VRegs -> SUBSET Ids]
  BY <1>1, RefreshStep
<1>5. TypeOK'
  BY <1>2, <1>3, <1>4, TypeOKParts
<1>6. QED
  BY <1>2, <1>5 DEF Inv

LEMMA HazardStallStep ==
  ASSUME Inv, NEW done \in [PEs -> SUBSET Ids], NEW fuDone, NEW lanesReady,
         HazardStall(done, fuDone, lanesReady)
  PROVE  Inv'
<1> DEFINE id == NextId
           hz == Hazards(araReq.r)
<1>1. TypeOK /\ araReq.r \in Requests
  BY DEF Inv, TypeOK
<1>2. id \in Ids /\ id \notin Running
  BY NextIdLemma DEF HazardStall, CanIssue
<1>3. hz \in HazardType /\ AllHazards(hz) \subseteq Running
  BY <1>1, HazardsLemma
<1>4. AllHazards(hz) \in SUBSET Ids
  BY <1>3 DEF AllHazards, HazardType
<1>5. Track(done, {}, id, AllHazards(hz))
  BY DEF HazardStall
<1>6. /\ RefreshLists /\ insn' = insn /\ state' = state
      /\ Clock(done, fuDone, lanesReady, FALSE)
      /\ peReq' = [valid |-> FALSE, id |-> id, r |-> araReq.r, hz |-> hz]
  BY DEF HazardStall
<1> HIDE DEF id, hz
<1>7. TrackTypes' /\ AgeIsOrder' /\ HazardsPointBack'
  <2>1. {} \in SUBSET PEs
    OBVIOUS
  <2>2. QED
    BY <2>1, <1>2, <1>3, <1>4, <1>5, TrackStep
<1>8. ClockTypes'
  BY <1>1, <1>6, ClockStep
<1>9. readList' \in [VRegs -> SUBSET Ids] /\ writeList' \in [VRegs -> SUBSET Ids]
  BY <1>1, <1>6, RefreshStep
<1>10. ReqTypes'
  BY <1>1, <1>2, <1>3, <1>6 DEF ReqTypes, TypeOK
<1>11. insn' \in [Ids -> Requests]
  BY <1>1, <1>6 DEF TypeOK
<1>12. TypeOK'
  BY <1>7, <1>8, <1>9, <1>10, <1>11, TypeOKParts
<1>13. QED
  BY <1>7, <1>12 DEF Inv

LEMMA IssueStep ==
  ASSUME Inv, NEW done \in [PEs -> SUBSET Ids], NEW fuDone, NEW lanesReady,
         Issue(done, fuDone, lanesReady)
  PROVE  Inv'
<1> DEFINE r == araReq.r
           id == NextId
           hz == Hazards(r)
<1>1. TypeOK /\ r \in Requests
  BY DEF Inv, TypeOK
<1>2. id \in Ids /\ id \notin Running
  BY NextIdLemma DEF Issue, CanIssue
<1>3. hz \in HazardType /\ AllHazards(hz) \subseteq Running
  BY <1>1, HazardsLemma
<1>4. AllHazards(hz) \in SUBSET Ids
  BY <1>3 DEF AllHazards, HazardType
<1>5. Track(done, RunsOn(r), id, AllHazards(hz))
  BY DEF Issue
<1>6. /\ peReq' = [valid |-> TRUE, id |-> id, r |-> r, hz |-> hz]
      /\ writeList' = [v \in VRegs |-> IF v \in r.vd THEN {id} ELSE Writer(v)]
      /\ readList' = [v \in VRegs |->
           IF v \in r.vs1 \cup r.vs2 \/ (v = VMASK /\ ~r.vm) THEN {id} ELSE Reader(v)]
      /\ insn' = [insn EXCEPT ![id] = r]
      /\ state' = IF NeedsAnswer(r) THEN "WAIT" ELSE "IDLE"
      /\ Clock(done, fuDone, lanesReady, ~NeedsAnswer(r))
  BY DEF Issue
<1> HIDE DEF r, id, hz
<1>7. TrackTypes' /\ AgeIsOrder' /\ HazardsPointBack'
  <2>1. RunsOn(r) \in SUBSET PEs
    BY RunsOnLemma
  <2>2. QED
    BY <2>1, <1>2, <1>3, <1>4, <1>5, TrackStep
<1>8. ClockTypes'
  <2>1. (~NeedsAnswer(r)) \in BOOLEAN
    OBVIOUS
  <2>2. QED
    BY <1>1, <1>6, <2>1, ClockStep
<1>9. readList' \in [VRegs -> SUBSET Ids] /\ writeList' \in [VRegs -> SUBSET Ids]
  <2>1. \A v \in VRegs : Reader(v) \in SUBSET Ids /\ Writer(v) \in SUBSET Ids
    BY <1>1 DEF TypeOK, Reader, Writer
  <2>2. QED
    BY <1>2, <1>6, <2>1
<1>10. ReqTypes'
  BY <1>1, <1>2, <1>3, <1>6 DEF ReqTypes
<1>11. insn' \in [Ids -> Requests]
  BY <1>1, <1>2, <1>6 DEF TypeOK
<1>12. TypeOK'
  BY <1>7, <1>8, <1>9, <1>10, <1>11, TypeOKParts
<1>13. QED
  BY <1>7, <1>12 DEF Inv

LEMMA CycleStep ==
  ASSUME Inv, NEW done \in [PEs -> SUBSET Ids], NEW fuDone, NEW lanesReady \in BOOLEAN,
         NEW ack, NEW scalar,
         Cycle(done, fuDone, lanesReady, ack, scalar)
  PROVE  Inv'
<1>1. TypeOK
  BY DEF Inv
<1>2. CASE HoldBroadcast(done, fuDone, lanesReady)
  <2>1. ReqTypes'
    BY <1>1, <1>2 DEF HoldBroadcast, ReqTypes, TypeOK
  <2>2. /\ TrackOnly(done) /\ RefreshLists
        /\ Clock(done, fuDone, lanesReady, FALSE)
    BY <1>2 DEF HoldBroadcast
  <2>3. QED
    BY <2>1, <2>2, QuietStep
<1>3. CASE NoRequest(done, fuDone, lanesReady)
  <2>1. ReqTypes'
    BY <1>1, <1>3, NoPeReqLemma DEF NoRequest, ReqTypes, TypeOK
  <2>2. /\ TrackOnly(done) /\ RefreshLists
        /\ Clock(done, fuDone, lanesReady, TRUE)
    BY <1>3 DEF NoRequest
  <2>3. QED
    BY <2>1, <2>2, QuietStep
<1>4. CASE PEsBusy(done, fuDone, lanesReady)
  <2>1. ReqTypes'
    BY <1>1, <1>4, NoPeReqLemma DEF PEsBusy, ReqTypes, TypeOK
  <2>2. /\ TrackOnly(done) /\ RefreshLists
        /\ Clock(done, fuDone, lanesReady, FALSE)
    BY <1>4 DEF PEsBusy
  <2>3. QED
    BY <2>1, <2>2, QuietStep
<1>5. CASE HazardStall(done, fuDone, lanesReady)
  BY <1>5, HazardStallStep
<1>6. CASE Issue(done, fuDone, lanesReady)
  BY <1>6, IssueStep
<1>7. ASSUME BroadcastInWait(lanesReady)
      PROVE  peReq' \in [valid : BOOLEAN, id : Ids, r : Requests, hz : HazardType]
  BY <1>1, <1>7 DEF BroadcastInWait, TypeOK
<1>8. CASE StayInWait(done, fuDone, lanesReady, ack, scalar)
  <2>1. ReqTypes'
    BY <1>1, <1>7, <1>8 DEF StayInWait, ReqTypes, TypeOK
  <2>2. /\ TrackOnly(done) /\ RefreshLists
        /\ Clock(done, fuDone, lanesReady, FALSE)
    BY <1>8 DEF StayInWait
  <2>3. QED
    BY <2>1, <2>2, QuietStep
<1>9. CASE Answer(done, fuDone, lanesReady, ack, scalar)
  <2>1. ReqTypes'
    BY <1>1, <1>7, <1>9 DEF Answer, ReqTypes, TypeOK
  <2>2. /\ TrackOnly(done) /\ RefreshLists
        /\ Clock(done, fuDone, lanesReady, TRUE)
    BY <1>9 DEF Answer
  <2>3. QED
    BY <2>1, <2>2, QuietStep
<1>10. QED
  BY <1>2, <1>3, <1>4, <1>5, <1>6, <1>8, <1>9 DEF Cycle

LEMMA NextInv == Inv /\ [Next]_vars => Inv'
<1> SUFFICES ASSUME Inv, [Next]_vars PROVE Inv'
  OBVIOUS
<1>1. CASE Next
  BY <1>1, CycleStep DEF Next
<1>2. CASE UNCHANGED vars
  <2>1. Running' = Running
    BY <1>2 DEF vars, Running
  <2>2. TypeOK'
    BY <1>2 DEF vars, Inv, TypeOK
  <2>3. AgeIsOrder' /\ HazardsPointBack'
    BY <1>2, <2>1 DEF vars, Inv, AgeIsOrder, HazardsPointBack
  <2>4. QED
    BY <2>2, <2>3 DEF Inv
<1>3. QED
  BY <1>1, <1>2

\* Every register of the sequencer keeps its type: in particular an id is only
\* handed out when one is free, so pe_req_o.id always is an id.
THEOREM TypeCorrect == Spec => []TypeOK
<1>1. Inv => TypeOK
  BY DEF Inv
<1>2. QED
  BY <1>1, InitInv, NextInv, PTL DEF Spec

\* An instruction only ever waits for instructions issued before it that are
\* still running, and being issued before is a strict total order: no two
\* instructions wait for each other, directly or through others, and nothing
\* waits for an instruction that inherited a finished one's id
\* (ara_sequencer.sv's global hazard table and id allocation).
THEOREM HazardsPointBackAlways == Spec => [](AgeIsOrder /\ HazardsPointBack)
<1>1. Inv => AgeIsOrder /\ HazardsPointBack
  BY DEF Inv
<1>2. QED
  BY <1>1, InitInv, NextInv, PTL DEF Spec

\* Being issued before is a strict total order on the running instructions, so
\* "the oldest" is one instruction and waiting along it ends.
THEOREM AgeIsOrderAlways == Spec => []AgeIsOrder
<1>1. Inv => AgeIsOrder
  BY DEF Inv
<1>2. QED
  BY <1>1, InitInv, NextInv, PTL DEF Spec
-----------------------------------------------------------------------------
(***************************************************************************)
(* The units are one more environment of the sequencer.                    *)
(***************************************************************************)
Broadcast == [id : Ids, r : Requests]

\* The inductive invariant: the sequencer's own, and the types of the units.
BInv ==
  /\ Inv
  /\ laneReg \in [Lanes -> {<<>>} \cup {<<b>> : b \in Broadcast}]
  /\ syncMask \in [Lanes -> [on : BOOLEAN, last : Ids]]
  /\ laneRun \in [Lanes -> SUBSET Ids]
  /\ laneQueue \in [Lanes -> [LaneVFUs -> Seq(Ids)]]
  /\ unitQueue \in [Units -> Seq(Ids)]
  /\ unitRun \in [Units -> SUBSET Ids]
  /\ doneReg \in [PEs -> SUBSET Ids] /\ laneDoneReg \in SUBSET LaneVFUs
  /\ addrgen = {} \/ (\E i \in Ids : addrgen = {i})
  /\ addrgenRun \in SUBSET Ids
  /\ maskB \in Seq([id : Ids, scalar : BOOLEAN])
  /\ maskBValid \in BOOLEAN /\ (maskBValid => maskB # <<>>)
  /\ lost \in SUBSET Ids

LEMMA BInvTypes == BInv => BTypeOK
<1> SUFFICES ASSUME BInv PROVE BTypeOK
  OBVIOUS
<1>1. \A l \in Lanes : Len(laneReg[l]) <= 1 /\ laneReg[l] \in Seq([id : Ids, r : Requests])
  <2>1. ASSUME NEW l \in Lanes
        PROVE  Len(laneReg[l]) <= 1 /\ laneReg[l] \in Seq(Broadcast)
    <3>1. laneReg[l] = <<>> \/ \E b \in Broadcast : laneReg[l] = <<b>>
      BY DEF BInv
    <3>2. CASE laneReg[l] = <<>>
      BY <3>2
    <3>3. CASE \E b \in Broadcast : laneReg[l] = <<b>>
      BY <3>3
    <3>4. QED
      BY <3>1, <3>2, <3>3
  <2>2. QED
    BY <2>1 DEF Broadcast
<1>2. addrgen \in SUBSET Ids /\ Cardinality(addrgen) <= 1
  <2>1. CASE addrgen = {}
    <3>1. Cardinality(addrgen) = 0
      BY <2>1, FS_EmptySet
    <3>2. QED
      BY <2>1, <3>1
  <2>2. ASSUME NEW i \in Ids, addrgen = {i} PROVE addrgen \in SUBSET Ids /\ Cardinality(addrgen) <= 1
    <3>1. Cardinality(addrgen) = 1
      BY <2>2, FS_Singleton
    <3>2. QED
      BY <2>2, <3>1
  <2>3. QED
    BY <2>1, <2>2 DEF BInv
<1>3. \A l \in Lanes, v \in LaneVFUs : laneQueue[l][v] \in Seq(Ids)
  BY DEF BInv
<1>4. QED
  BY <1>1, <1>2, <1>3 DEF BInv, BTypeOK, Inv

LEMMA BInit_BInv == BInit => BInv
<1> SUFFICES ASSUME BInit PROVE BInv
  OBVIOUS
<1>1. Inv
  BY InitInv DEF BInit
<1>2. 0 \in Ids
  BY NrVInsnAssumption DEF Ids
<1>3. /\ laneReg \in [Lanes -> {<<>>} \cup {<<b>> : b \in Broadcast}]
      /\ syncMask \in [Lanes -> [on : BOOLEAN, last : Ids]]
      /\ laneRun \in [Lanes -> SUBSET Ids]
  BY <1>2 DEF BInit
<1>4. /\ laneQueue \in [Lanes -> [LaneVFUs -> Seq(Ids)]]
      /\ unitQueue \in [Units -> Seq(Ids)]
      /\ unitRun \in [Units -> SUBSET Ids]
      /\ doneReg \in [PEs -> SUBSET Ids] /\ laneDoneReg \in SUBSET LaneVFUs
  BY DEF BInit
<1>5. /\ addrgen = {} /\ addrgenRun \in SUBSET Ids /\ lost \in SUBSET Ids
      /\ maskB \in Seq([id : Ids, scalar : BOOLEAN]) /\ maskBValid = FALSE
  BY DEF BInit
<1>6. QED
  BY <1>1, <1>3, <1>4, <1>5 DEF BInv

\* What a lane can execute is a broadcast.
LEMMA PendingLemma ==
  ASSUME BInv, NEW l \in Lanes
  PROVE  Pending(l) = <<>> \/ \E b \in Broadcast : Pending(l) = <<b>>
<1>1. laneReg[l] = <<>> \/ \E b \in Broadcast : laneReg[l] = <<b>>
  BY DEF BInv
<1>2. [id |-> peReq.id, r |-> peReq.r] \in Broadcast
  BY DEF BInv, Inv, TypeOK, Broadcast
<1>3. QED
  BY <1>1, <1>2 DEF Pending

LEMMA PendingTypes ==
  ASSUME BInv, NEW l \in Lanes, Pending(l) # <<>>
  PROVE  Pending(l)[1].id \in Ids /\ Pending(l)[1].r \in Requests
<1>1. PICK b \in Broadcast : Pending(l) = <<b>>
  BY PendingLemma
<1>2. Pending(l)[1] = b
  BY <1>1
<1>3. QED
  BY <1>2 DEF Broadcast

\* Who finishes has something to finish.
LEMMA ChoicesLemma ==
  ASSUME NEW laneDone \in LaneDoneChoices, NEW unitDone \in UnitDoneChoices
  PROVE  /\ \A l \in Lanes, v \in LaneVFUs : <<l, v>> \in laneDone => LaneMayFinish(l, v)
         /\ \A u \in unitDone : u \in Units /\ UnitMayFinish(u)
<1>1. \A x \in laneDone : LaneMayFinish(x[1], x[2])
  BY DEF LaneDoneChoices
<1>2. QED
  BY <1>1 DEF UnitDoneChoices

LEMMA HeadTail ==
  ASSUME NEW S, NEW q \in Seq(S), q # <<>>
  PROVE  Head(q) \in S /\ Tail(q) \in Seq(S)
OBVIOUS

LEMMA PeOfLemma ==
  /\ \A u \in Units : PeOf(u) \in PEs /\ PeOf(u) \notin Lanes
  /\ \A u, w \in Units : PeOf(u) = PeOf(w) => u = w
  /\ Lanes \subseteq PEs
<1>1. /\ PeOf("LoadUnit") = NrLanes /\ PeOf("StoreUnit") = NrLanes + 1
      /\ PeOf("MaskUnit") = NrLanes + 2 /\ PeOf("SlideUnit") = NrLanes + 3
  BY DEF PeOf, PeLoad, PeStore, PeMask, PeSlide
<1>2. NrLanes \in Nat \ {0}
  BY NrLanesAssumption
<1>3. Units = {"SlideUnit", "MaskUnit", "LoadUnit", "StoreUnit"}
  BY DEF Units
<1>4. \A u \in Units : PeOf(u) \in PEs /\ PeOf(u) \notin Lanes
  BY <1>1, <1>2, <1>3 DEF PEs, Lanes
<1>5. \A u, w \in Units : PeOf(u) = PeOf(w) => u = w
  <2> HIDE DEF PeOf
  <2> QED  BY <1>1, <1>2, <1>3
<1>6. Lanes \subseteq PEs
  BY <1>2 DEF PEs, Lanes
<1>7. QED
  BY <1>4, <1>5, <1>6

LEMMA BackendStep ==
  ASSUME BInv,
         NEW laneDone \in LaneDoneChoices, NEW unitDone \in UnitDoneChoices,
         NEW free \in [Lanes -> BOOLEAN], NEW ack \in AckChoices, NEW arrives \in ArrivalChoices,
         BackendCycle(laneDone, unitDone, free, ack, arrives)
  PROVE  BInv'
<1>1. Inv'
  <2>1. Inv /\ doneReg \in [PEs -> SUBSET Ids]
    BY DEF BInv
  <2>2. LanesReady \in BOOLEAN
    BY DEF LanesReady
  <2>3. Cycle(doneReg, laneDoneReg \cup {u \in Units : doneReg[PeOf(u)] # {}}, LanesReady, ack,
              ScalarValid(unitDone))
    BY DEF BackendCycle
  <2>4. QED
    BY <2>1, <2>2, <2>3, CycleStep
<1>2. /\ peReq.id \in Ids /\ peReq.r \in Requests /\ peReq.valid \in BOOLEAN
      /\ Running \subseteq Ids
  BY DEF BInv, Inv, TypeOK, Running
<1>3. \A l \in Lanes, v \in LaneVFUs : <<l, v>> \in laneDone => laneQueue[l][v] # <<>>
  BY ChoicesLemma DEF LaneMayFinish
<1>4. \A u \in unitDone : u \in Units /\ unitQueue[u] # <<>>
  BY ChoicesLemma DEF UnitMayFinish
<1>5. \A l \in Lanes, v \in LaneVFUs :
        /\ laneQueue[l][v] \in Seq(Ids)
        /\ <<l, v>> \in laneDone => /\ Head(laneQueue[l][v]) \in Ids
                                    /\ Tail(laneQueue[l][v]) \in Seq(Ids)
  <2>1. ASSUME NEW l \in Lanes, NEW v \in LaneVFUs
        PROVE  laneQueue[l][v] \in Seq(Ids)
    BY DEF BInv
  <2>2. ASSUME NEW l \in Lanes, NEW v \in LaneVFUs, <<l, v>> \in laneDone
        PROVE  Head(laneQueue[l][v]) \in Ids /\ Tail(laneQueue[l][v]) \in Seq(Ids)
    <3>1. laneQueue[l][v] # <<>>
      BY <1>3, <2>2
    <3>2. QED
      BY <2>1, <3>1, HeadTail
  <2>3. QED
    BY <2>1, <2>2
<1>6. \A u \in Units :
        /\ unitQueue[u] \in Seq(Ids)
        /\ u \in unitDone => Head(unitQueue[u]) \in Ids /\ Tail(unitQueue[u]) \in Seq(Ids)
  BY <1>4, HeadTail DEF BInv
<1>7. laneReg' \in [Lanes -> {<<>>} \cup {<<b>> : b \in Broadcast}]
  <2>1. \A l \in Lanes : LaneRegNext(l, free[l]) \in {<<>>} \cup {<<b>> : b \in Broadcast}
    BY PendingLemma DEF LaneRegNext
  <2>2. QED
    BY <2>1 DEF BackendCycle
<1>8. syncMask' \in [Lanes -> [on : BOOLEAN, last : Ids]]
  <2>1. ASSUME NEW l \in Lanes
        PROVE  SyncMaskNext(l) \in [on : BOOLEAN, last : Ids]
    <3>1. CASE Handshake(l)
      BY <1>2, <3>1 DEF SyncMaskNext
    <3>2. CASE ~Handshake(l)
      <4>1. SyncMaskNext(l) = [syncMask[l] EXCEPT !.on = syncMask[l].on /\ peReq.valid]
        BY <3>2 DEF SyncMaskNext
      <4>2. syncMask[l] \in [on : BOOLEAN, last : Ids]
        BY DEF BInv
      <4>3. (syncMask[l].on /\ peReq.valid) \in BOOLEAN
        OBVIOUS
      <4> DEFINE b == syncMask[l].on /\ peReq.valid
      <4> HIDE DEF b
      <4>4. b \in BOOLEAN
        BY <4>3 DEF b
      <4>5. [syncMask[l] EXCEPT !.on = b] \in [on : BOOLEAN, last : Ids]
        BY <4>2, <4>4
      <4>6. QED
        BY <4>1, <4>5 DEF b
    <3>3. QED
      BY <3>1, <3>2
  <2>2. QED
    BY <2>1 DEF BackendCycle
<1>9. laneRun' \in [Lanes -> SUBSET Ids]
  <2>1. \A l \in Lanes : LaneRunNext(l, free[l]) \in SUBSET Ids
    BY <1>2, PendingTypes DEF LaneRunNext, Starts, Executes
  <2>2. QED
    BY <2>1 DEF BackendCycle
<1>10. laneQueue' \in [Lanes -> [LaneVFUs -> Seq(Ids)]]
  <2>1. ASSUME NEW l \in Lanes, NEW v \in LaneVFUs
        PROVE  LaneQueueNext(l, free[l], v, <<l, v>> \in laneDone) \in Seq(Ids)
    <3> DEFINE kept == IF <<l, v>> \in laneDone THEN Tail(laneQueue[l][v]) ELSE laneQueue[l][v]
    <3>1. kept \in Seq(Ids)
      BY <1>5
    <3>2. Pending(l) # <<>> => Append(kept, Pending(l)[1].id) \in Seq(Ids)
      <4> HIDE DEF kept
      <4> QED  BY <3>1, PendingTypes
    <3>3. Enters(l, free[l], v) => Pending(l) # <<>>
      BY DEF Enters, Starts, Executes
    <3>4. QED
      BY <3>1, <3>2, <3>3 DEF LaneQueueNext
  <2>2. QED
    BY <2>1 DEF BackendCycle
<1>11. unitQueue' \in [Units -> Seq(Ids)] /\ unitRun' \in [Units -> SUBSET Ids]
  <2>1. ASSUME NEW u \in Units
        PROVE  UnitQueueNext(u, u \in unitDone) \in Seq(Ids)
    <3> DEFINE kept == IF u \in unitDone THEN Tail(unitQueue[u]) ELSE unitQueue[u]
    <3>1. kept \in Seq(Ids)
      BY <1>6
    <3>2. Append(kept, peReq.id) \in Seq(Ids)
      <4> HIDE DEF kept
      <4> QED  BY <1>2, <3>1
    <3>3. QED
      BY <3>1, <3>2 DEF UnitQueueNext
  <2>2. QED
    BY <1>2, <2>1 DEF BackendCycle, UnitStep
<1>12. doneReg' \in [PEs -> SUBSET Ids] /\ laneDoneReg' \in SUBSET LaneVFUs
  <2>1. ASSUME NEW l \in Lanes
        PROVE  LaneFinishes(laneDone, l) \cup Muted(l, free[l]) \in SUBSET Ids
    <3>1. LaneFinishes(laneDone, l) \subseteq Ids
      BY <1>5 DEF LaneFinishes, FinishingIn
    <3>2. Muted(l, free[l]) \subseteq Ids
      BY PendingTypes DEF Muted, Mutes, Starts, Executes
    <3>3. QED
      BY <3>1, <3>2
  <2>2. ASSUME NEW pe
        PROVE  {Head(unitQueue[u]) : u \in {x \in unitDone : PeOf(x) = pe}} \in SUBSET Ids
    BY <1>4, <1>6
  <2>3. DoneNext(laneDone, unitDone, free) \in [PEs -> SUBSET Ids]
    BY <2>1, <2>2 DEF DoneNext
  <2>4. QED
    BY <2>3 DEF BackendCycle, FinishingIn
<1>13. /\ addrgen' = {} \/ \E i \in Ids : addrgen' = {i}
       /\ addrgenRun' \in SUBSET Ids
  BY <1>2 DEF BackendCycle, AddrgenStep, BInv
<1>14. /\ maskB' \in Seq([id : Ids, scalar : BOOLEAN])
       /\ maskBValid' \in BOOLEAN /\ (maskBValid' => maskB' # <<>>)
  <2> DEFINE pops == \/ ScalarReady(unitDone)
                     \/ "MaskUnit" \in unitDone /\ ReadsMaskB(insn[Head(unitQueue["MaskUnit"])])
             kept == IF pops /\ maskBValid THEN Tail(maskB) ELSE maskB
             pushes == Starts(0, free[0]) /\ RequestsMaskB(Pending(0)[1].r)
             new == [id |-> Pending(0)[1].id, scalar |-> Pending(0)[1].r.op = "VMVXS"]
             T == [id : Ids, scalar : BOOLEAN]
  <2>1. kept \in Seq(T)
    <3>1. maskB \in Seq(T) /\ (maskBValid => maskB # <<>>)
      BY DEF BInv
    <3>2. QED
      BY <3>1, HeadTail
  <2>2. pushes => new \in T
    <3>1. 0 \in Lanes
      BY NrLanesAssumption DEF Lanes
    <3>2. pushes => Pending(0)[1].id \in Ids
      BY <3>1, PendingTypes DEF Starts, Executes
    <3>3. (Pending(0)[1].r.op = "VMVXS") \in BOOLEAN
      OBVIOUS
    <3>4. QED
      BY <3>2, <3>3
  <2>3. /\ maskB' = IF pushes THEN Append(kept, new) ELSE kept
        /\ maskBValid' = (kept # <<>> /\ ((maskBValid /\ ~pops) \/ arrives))
    BY DEF BackendCycle, MaskBStep
  <2> HIDE DEF pops, kept, pushes, new, T
  <2>4. maskB' \in Seq(T) /\ (kept # <<>> => maskB' # <<>>)
    BY <2>1, <2>2, <2>3
  <2>5. maskBValid' \in BOOLEAN /\ (maskBValid' => kept # <<>>)
    BY <2>3
  <2>6. QED
    BY <2>4, <2>5 DEF T
<1>15. lost' \in SUBSET Ids
  <2>1. {peReq.id : u \in {x \in Units : Wants(x) /\ ~Accepts(x) /\ BroadcastEnds}} \subseteq Ids
    BY <1>2
  <2>2. ASSUME NEW l \in Lanes
        PROVE  {Pending(l)[1].id : v \in {x \in LaneVFUs : Enters(l, free[l], x) /\
                  Len(laneQueue[l][x]) >= InsnQueueDepth[x]}} \subseteq Ids
    BY PendingTypes DEF Enters, Starts, Executes
  <2>3. Losses(free) \subseteq Ids
    BY <2>1, <2>2 DEF Losses
  <2>4. QED
    BY <2>3 DEF BackendCycle, BInv
<1>16. QED
  BY <1>1, <1>7, <1>8, <1>9, <1>10, <1>11, <1>12, <1>13, <1>14, <1>15 DEF BInv

LEMMA BackendNext == BInv /\ [BNext]_bvars => BInv'
<1> SUFFICES ASSUME BInv, [BNext]_bvars PROVE BInv'
  OBVIOUS
<1>1. CASE BNext
  BY <1>1, BackendStep DEF BNext
<1>2. CASE UNCHANGED bvars
  <2>1. UNCHANGED vars /\ UNCHANGED backendVars
    BY <1>2 DEF bvars
  <2>2. Inv'
    BY <2>1, NextInv DEF BInv
  <2>3. QED
    BY <2>1, <2>2 DEF backendVars, BInv
<1>3. QED
  BY <1>1, <1>2

\* The registers of the lanes and of the units keep their types: a unit only
\* finishes what it has, and an operand is only taken when there is one.
THEOREM BackendTypeCorrect == BSpec => []BTypeOK
BY BInit_BInv, BackendNext, BInvTypes, PTL DEF BSpec

\* The sequencer's order of ages and its hazard table are right for the units
\* that the source has, as they are for any.
THEOREM BackendAges == BSpec => [](AgeIsOrder /\ HazardsPointBack)
<1>1. BInv => AgeIsOrder /\ HazardsPointBack
  BY DEF BInv, Inv
<1>2. QED
  BY <1>1, BInit_BInv, BackendNext, PTL DEF BSpec

-----------------------------------------------------------------------------
(***************************************************************************)
(* Flow control: no queue counter goes wrong, and every answer is that of  *)
(* the instruction that waits for it.                                      *)
(*                                                                         *)
(* Two things the source does not rule out, and under which all this fails *)
(* (see the README), are excluded by assumption: that a load ends while a  *)
(* lane has not seen it (OutrunLanes), and that a scalar move runs beside  *)
(* an instruction that leaves an operand, or its mark, in the mask unit.   *)
(***************************************************************************)
\* No mask instruction but VCPOP, or neither a scalar move nor an instruction
\* that reads its old destination in the mask unit.
MovesApart ==
  \/ \A r \in Requests : vfu(r.op) = "MaskUnit" => r.op = "VCPOP"
  \/ \A r \in Requests : r.op # "VMVXS" /\ ~ReadsMaskB(r)

-----------------------------------------------------------------------------
(***************************************************************************)
(* Which unit takes what.                                                  *)
(***************************************************************************)
LEMMA OpsLemma ==
  ASSUME NEW r \in Requests
  PROVE  /\ r.op \in {"VLE", "VLXE", "VSE", "VADD", "VREDSUM", "VMUL", "VFREDUSUM", "VMFEQ",
                      "VMSEQ", "VCPOP", "VMVXS", "VSLIDEUP", "VSLIDEDOWN"}
         /\ r.vm \in BOOLEAN
BY RequestsAssumption DEF RequestType, Ops, Loads, Stores

LEMMA LaneZero == 0 \in Lanes /\ Lanes \subseteq PEs
BY NrLanesAssumption DEF Lanes, PEs

\* The processing elements on which an instruction is marked as running.
LEMMA RunsOnShape ==
  ASSUME NEW r \in Requests
  PROVE  /\ vfu(r.op) \in LaneVFUs => Lanes \subseteq RunsOn(r)
         /\ \A l \in Lanes : l \in RunsOn(r) => vfu(r.op) \in LaneVFUs
         /\ RunsOn(r) = {} => r.op = "VMVXS" /\ r.vm
         /\ \A u \in Units : PeOf(u) \in RunsOn(r) <=>
              Takes(u, r) /\ ~(u = "SlideUnit" /\ Reduction(r))
         /\ Reduction(r) => vfu(r.op) \in LaneVFUs
<1>1. /\ PeLoad \notin Lanes /\ PeStore \notin Lanes /\ PeMask \notin Lanes /\ PeSlide \notin Lanes
      /\ PeLoad # PeStore /\ PeLoad # PeMask /\ PeLoad # PeSlide
      /\ PeStore # PeMask /\ PeStore # PeSlide /\ PeMask # PeSlide
      /\ 0 \in Lanes
  BY NrLanesAssumption DEF PeLoad, PeStore, PeMask, PeSlide, Lanes
<1>2. /\ PeOf("LoadUnit") = PeLoad /\ PeOf("StoreUnit") = PeStore
      /\ PeOf("MaskUnit") = PeMask /\ PeOf("SlideUnit") = PeSlide
      /\ Units = {"LoadUnit", "StoreUnit", "MaskUnit", "SlideUnit"}
  BY DEF PeOf, Units
<1>3. r.op \in {"VADD", "VREDSUM"} => vfu(r.op) = "Alu"
  BY DEF vfu, Loads, Stores
<1>4. r.op \in {"VMUL", "VFREDUSUM"} => vfu(r.op) = "MFpu"
  BY DEF vfu, Loads, Stores
<1>5. r.op \in {"VMFEQ", "VMSEQ", "VCPOP"} => vfu(r.op) = "MaskUnit"
  BY DEF vfu, Loads, Stores
<1>6. r.op \in {"VLE", "VLXE"} => vfu(r.op) = "LoadUnit"
  BY DEF vfu, Loads, Stores
<1>7. r.op = "VSE" => vfu(r.op) = "StoreUnit"
  BY DEF vfu, Loads, Stores
<1>8. r.op \in {"VSLIDEUP", "VSLIDEDOWN"} => vfu(r.op) = "SlideUnit"
  BY DEF vfu, Loads, Stores
<1>9. r.op = "VMVXS" => vfu(r.op) = "None"
  BY DEF vfu, Loads, Stores
<1> DEFINE m == IF r.vm THEN {} ELSE {PeMask}
<1>10. /\ vfu(r.op) = "LoadUnit" => RunsOn(r) = {PeLoad} \cup m
       /\ vfu(r.op) = "StoreUnit" => RunsOn(r) = {PeStore} \cup m
       /\ vfu(r.op) = "SlideUnit" => RunsOn(r) = {PeSlide} \cup m
       /\ vfu(r.op) = "MaskUnit" => RunsOn(r) = {PeMask} \cup m
       /\ vfu(r.op) = "None" => RunsOn(r) = {} \cup m
       /\ vfu(r.op) \in LaneVFUs => RunsOn(r) = Lanes \cup m
  BY DEF RunsOn, LaneVFUs
<1>11. Reduction(r) <=> r.op \in {"VREDSUM", "VFREDUSUM"}
  BY DEF Reduction
<1>12. /\ Takes("SlideUnit", r) <=> vfu(r.op) = "SlideUnit" \/ Reduction(r)
       /\ Takes("MaskUnit", r) <=> vfu(r.op) = "MaskUnit" \/ ~r.vm
       /\ Takes("LoadUnit", r) <=> vfu(r.op) = "LoadUnit"
       /\ Takes("StoreUnit", r) <=> vfu(r.op) = "StoreUnit"
  BY DEF Takes
<1>13. LaneVFUs = {"Alu", "MFpu"}
  BY DEF LaneVFUs
<1>14. r.vm => m = {}
  OBVIOUS
<1>15. ~r.vm => m = {PeMask}
  OBVIOUS
<1> HIDE DEF m
<1>16. CASE vfu(r.op) \in LaneVFUs
  BY <1>1, <1>2, <1>3, <1>4, <1>5, <1>6, <1>7, <1>8, <1>9, <1>10, <1>11, <1>12, <1>13, <1>14, <1>15, <1>16
<1>17. CASE vfu(r.op) \in Units
  BY <1>1, <1>2, <1>3, <1>4, <1>5, <1>6, <1>7, <1>8, <1>9, <1>10, <1>11, <1>12, <1>13, <1>14, <1>15, <1>17
<1>18. CASE vfu(r.op) = "None"
  BY <1>1, <1>2, <1>3, <1>4, <1>5, <1>6, <1>7, <1>8, <1>9, <1>10, <1>11, <1>12, <1>13, <1>14, <1>15, <1>18,
     OpsLemma
<1>19. QED
  BY <1>2, <1>3, <1>4, <1>5, <1>6, <1>7, <1>8, <1>9, <1>13, <1>16, <1>17, <1>18, OpsLemma

\* The queues an instruction occupies.
LEMMA QueuesShape ==
  ASSUME NEW r \in Requests
  PROVE  /\ \A u \in Units : u \in target_vfus(r) <=> Takes(u, r)
         /\ \A v, w \in LaneUnit(r) : v = w
         /\ \A v \in LaneUnit(r) : v \in LaneVFUs /\ (vfu(r.op) = v \/ Compare(r))
         /\ vfu(r.op) \in LaneVFUs => vfu(r.op) \in LaneUnit(r)
         /\ Compare(r) => vfu(r.op) = "MaskUnit"
         /\ vfu(r.op) = "MaskUnit" => Compare(r)
         /\ NeedsNoLane(r) => vfu(r.op) = "LoadUnit" /\ r.vm /\ LaneUnit(r) = {}
<1>1. r.op = "VADD" => /\ vfu(r.op) = "Alu" /\ ~Reduction(r) /\ ~Compare(r)
                       /\ target_vfus(r) = {"Alu"} \cup (IF r.vm THEN {} ELSE {"MaskUnit"})
  BY DEF vfu, target_vfus, Reduction, Compare, Loads, Stores
<1>2. r.op = "VREDSUM" => /\ vfu(r.op) = "Alu" /\ Reduction(r) /\ ~Compare(r)
                          /\ target_vfus(r) = {"Alu", "SlideUnit"}
                                               \cup (IF r.vm THEN {} ELSE {"MaskUnit"})
  BY DEF vfu, target_vfus, Reduction, Compare, Loads, Stores
<1>3. r.op = "VMUL" => /\ vfu(r.op) = "MFpu" /\ ~Reduction(r) /\ ~Compare(r)
                       /\ target_vfus(r) = {"MFpu"} \cup (IF r.vm THEN {} ELSE {"MaskUnit"})
  BY DEF vfu, target_vfus, Reduction, Compare, Loads, Stores
<1>4. r.op = "VFREDUSUM" => /\ vfu(r.op) = "MFpu" /\ Reduction(r) /\ ~Compare(r)
                            /\ target_vfus(r) = {"MFpu", "SlideUnit"}
                                                 \cup (IF r.vm THEN {} ELSE {"MaskUnit"})
  BY DEF vfu, target_vfus, Reduction, Compare, Loads, Stores
<1>5. r.op = "VMFEQ" => /\ vfu(r.op) = "MaskUnit" /\ ~Reduction(r) /\ Compare(r)
                        /\ target_vfus(r) = {"MFpu", "MaskUnit"}
                                             \cup (IF r.vm THEN {} ELSE {"MaskUnit"})
  BY DEF vfu, target_vfus, Reduction, Compare, Loads, Stores
<1>6. r.op \in {"VMSEQ", "VCPOP"} => /\ vfu(r.op) = "MaskUnit" /\ ~Reduction(r) /\ Compare(r)
                                     /\ target_vfus(r) = {"Alu", "MaskUnit"}
                                                          \cup (IF r.vm THEN {} ELSE {"MaskUnit"})
  BY DEF vfu, target_vfus, Reduction, Compare, Loads, Stores
<1>7. r.op \in {"VLE", "VLXE"} => /\ vfu(r.op) = "LoadUnit" /\ ~Reduction(r) /\ ~Compare(r)
                                  /\ target_vfus(r) = {"LoadUnit"}
                                                       \cup (IF r.vm THEN {} ELSE {"MaskUnit"})
  BY DEF vfu, target_vfus, Reduction, Compare, Loads, Stores
<1>8. r.op = "VSE" => /\ vfu(r.op) = "StoreUnit" /\ ~Reduction(r) /\ ~Compare(r)
                      /\ target_vfus(r) = {"StoreUnit"}
                                           \cup (IF r.vm THEN {} ELSE {"MaskUnit"})
  BY DEF vfu, target_vfus, Reduction, Compare, Loads, Stores
<1>9. r.op \in {"VSLIDEUP", "VSLIDEDOWN"} =>
        /\ vfu(r.op) = "SlideUnit" /\ ~Reduction(r) /\ ~Compare(r)
        /\ target_vfus(r) = {"SlideUnit"} \cup (IF r.vm THEN {} ELSE {"MaskUnit"})
  BY DEF vfu, target_vfus, Reduction, Compare, Loads, Stores
<1>10. r.op = "VMVXS" => /\ vfu(r.op) = "None" /\ ~Reduction(r) /\ ~Compare(r)
                         /\ target_vfus(r) = {"None"} \cup (IF r.vm THEN {} ELSE {"MaskUnit"})
  BY DEF vfu, target_vfus, Reduction, Compare, Loads, Stores
<1>11. /\ Takes("SlideUnit", r) <=> vfu(r.op) = "SlideUnit" \/ Reduction(r)
       /\ Takes("MaskUnit", r) <=> vfu(r.op) = "MaskUnit" \/ ~r.vm
       /\ Takes("LoadUnit", r) <=> vfu(r.op) = "LoadUnit"
       /\ Takes("StoreUnit", r) <=> vfu(r.op) = "StoreUnit"
  BY DEF Takes
<1>12. Units = {"LoadUnit", "StoreUnit", "MaskUnit", "SlideUnit"} /\ LaneVFUs = {"Alu", "MFpu"}
  BY DEF LaneVFUs, Units
<1>13. NeedsNoLane(r) <=> r.op \in {"VLE", "VLXE"} /\ r.vm
  BY DEF NeedsNoLane, Loads
<1>14. LaneUnit(r) = target_vfus(r) \cap LaneVFUs
  BY DEF LaneUnit
<1> HIDE DEF LaneUnit
<1>15. CASE r.op \in {"VADD", "VREDSUM", "VMUL", "VFREDUSUM"}
  BY <1>1, <1>2, <1>3, <1>4, <1>11, <1>12, <1>13, <1>14, <1>15
<1>16. CASE r.op \in {"VMFEQ", "VMSEQ", "VCPOP"}
  BY <1>5, <1>6, <1>11, <1>12, <1>13, <1>14, <1>16
<1>17. CASE r.op \in {"VLE", "VLXE", "VSE", "VSLIDEUP", "VSLIDEDOWN", "VMVXS"}
  BY <1>7, <1>8, <1>9, <1>10, <1>11, <1>12, <1>13, <1>14, <1>17
<1>18. QED
  BY <1>15, <1>16, <1>17, OpsLemma

-----------------------------------------------------------------------------
(***************************************************************************)
(* Queues.                                                                 *)
(***************************************************************************)
NoTwice(q) == \A m, n \in DOMAIN q : q[m] = q[n] => m = n

LEMMA TailElements ==
  ASSUME NEW S, NEW q \in Seq(S), q # <<>>
  PROVE  /\ Elements(Tail(q)) \subseteq Elements(q)
         /\ Elements(q) \subseteq Elements(Tail(q)) \cup {Head(q)}
         /\ Head(q) \in Elements(q)
         /\ NoTwice(q) => NoTwice(Tail(q)) /\ Head(q) \notin Elements(Tail(q))
         /\ Len(Tail(q)) = Len(q) - 1
<1>1. /\ Tail(q) \in Seq(S) /\ Len(Tail(q)) = Len(q) - 1 /\ Len(q) \in Nat \ {0}
      /\ \A n \in 1 .. Len(Tail(q)) : Tail(q)[n] = q[n + 1]
      /\ Head(q) = q[1] /\ DOMAIN q = 1 .. Len(q) /\ DOMAIN Tail(q) = 1 .. Len(Tail(q))
  OBVIOUS
<1>2. \A n \in DOMAIN Tail(q) : n + 1 \in DOMAIN q /\ Tail(q)[n] = q[n + 1]
  BY <1>1
<1>3. \A n \in DOMAIN q : n = 1 \/ (n - 1 \in DOMAIN Tail(q) /\ Tail(q)[n - 1] = q[n])
  BY <1>1
<1>4. Elements(Tail(q)) \subseteq Elements(q) /\ Head(q) \in Elements(q)
  BY <1>1, <1>2 DEF Elements
<1>5. Elements(q) \subseteq Elements(Tail(q)) \cup {Head(q)}
  BY <1>1, <1>3 DEF Elements
<1>6. ASSUME NoTwice(q)
      PROVE  NoTwice(Tail(q)) /\ Head(q) \notin Elements(Tail(q))
  <2>1. NoTwice(Tail(q))
    <3>1. ASSUME NEW m \in DOMAIN Tail(q), NEW n \in DOMAIN Tail(q), Tail(q)[m] = Tail(q)[n]
          PROVE  m = n
      <4>1. m + 1 = n + 1
        BY <1>2, <1>6, <3>1 DEF NoTwice
      <4>2. QED
        BY <1>1, <4>1
    <3>2. QED
      BY <3>1 DEF NoTwice
  <2>2. ASSUME NEW n \in DOMAIN Tail(q), Tail(q)[n] = Head(q)
        PROVE  FALSE
    <3>1. n + 1 = 1
      BY <1>1, <1>2, <1>6, <2>2 DEF NoTwice
    <3>2. QED
      BY <1>1, <3>1
  <2>3. QED
    BY <2>1, <2>2 DEF Elements
<1>7. QED
  BY <1>1, <1>4, <1>5, <1>6

LEMMA AppendElements ==
  ASSUME NEW S, NEW q \in Seq(S), NEW x \in S
  PROVE  /\ Elements(Append(q, x)) = Elements(q) \cup {x}
         /\ NoTwice(q) /\ x \notin Elements(q) => NoTwice(Append(q, x))
         /\ Len(Append(q, x)) = Len(q) + 1
<1>1. /\ Append(q, x) \in Seq(S) /\ Len(Append(q, x)) = Len(q) + 1 /\ Len(q) \in Nat
      /\ \A n \in 1 .. Len(q) : Append(q, x)[n] = q[n]
      /\ Append(q, x)[Len(q) + 1] = x
      /\ DOMAIN q = 1 .. Len(q) /\ DOMAIN Append(q, x) = 1 .. Len(q) + 1
  OBVIOUS
<1> DEFINE a == Append(q, x)
           k == Len(q)
<1>2. /\ k \in Nat /\ DOMAIN q = 1 .. k /\ DOMAIN a = 1 .. k + 1
      /\ \A n \in 1 .. k : a[n] = q[n]
      /\ a[k + 1] = x
  BY <1>1
<1> HIDE DEF a, k
<1>3. \A n \in 1 .. k + 1 : n \in 1 .. k \/ n = k + 1
  BY <1>2
<1>4. Elements(a) = Elements(q) \cup {x}
  <2>1. Elements(a) \subseteq Elements(q) \cup {x}
    BY <1>2, <1>3 DEF Elements
  <2>2. Elements(q) \subseteq Elements(a)
    <3>1. \A n \in 1 .. k : n \in 1 .. k + 1
      BY <1>2
    <3>2. QED
      BY <1>2, <3>1 DEF Elements
  <2>3. x \in Elements(a)
    <3>1. k + 1 \in 1 .. k + 1
      BY <1>2
    <3>2. QED
      BY <1>2, <3>1 DEF Elements
  <2>4. QED
    BY <2>1, <2>2, <2>3
<1>5. NoTwice(q) /\ x \notin Elements(q) => NoTwice(a)
  BY <1>2, <1>3 DEF NoTwice, Elements
<1>6. QED
  BY <1>1, <1>4, <1>5 DEF a

-----------------------------------------------------------------------------
(***************************************************************************)
(* A cycle of the sequencer, as the units see it.                          *)
(***************************************************************************)
\* running, and not about to be reported as done
Runs(pe, i) == i \in peRunning[pe] \ doneReg[pe]

\* the broadcast is shown once more
Stays == peReq.valid /\ ~LanesReady /\ (state = "WAIT" \/ ~NeedsNoLane(peReq.r))

\* the instruction this cycle issues
New(i) == peReq'.valid /\ ~Stays /\ peReq'.id = i

Answered(unitDone, ack) == MemAnswer(ack) \/ ScalarAnswer(ScalarValid(unitDone))

LEMMA QuietShape ==
  ASSUME BInv, TrackOnly(doneReg)
  PROVE  /\ insn' = insn
         /\ \A pe \in PEs, i \in Ids : i \in peRunning'[pe] <=> Runs(pe, i)
BY DEF TrackOnly, Runs

LEMMA CycleShape ==
  ASSUME BInv,
         NEW laneDone, NEW unitDone, NEW free, NEW ack, NEW arrives,
         BackendCycle(laneDone, unitDone, free, ack, arrives)
  PROVE  /\ \A i \in Ids : ~New(i) =>
              /\ insn'[i] = insn[i]
              /\ \A pe \in PEs : i \in peRunning'[pe] <=> Runs(pe, i)
         /\ \A i \in Ids : New(i) =>
              /\ i \notin Running /\ state = "IDLE" /\ araReq.valid /\ CanIssue
              /\ insn'[i] = araReq.r /\ peReq'.r = araReq.r
              /\ \A pe \in PEs : i \in peRunning'[pe] <=> pe \in RunsOn(araReq.r)
              /\ state' = IF NeedsAnswer(araReq.r) THEN "WAIT" ELSE "IDLE"
         /\ Stays => peReq'.valid
         /\ Stays \/ state = "WAIT" => peReq'.id = peReq.id /\ peReq'.r = peReq.r
         /\ state = "WAIT" => /\ \A i \in Ids : ~New(i)
                              /\ state' = "IDLE" <=> Answered(unitDone, ack)
                              /\ state' \in {"IDLE", "WAIT"}
         /\ state = "IDLE" /\ (\A i \in Ids : ~New(i)) => state' = "IDLE"
<1> DEFINE fuDone == laneDoneReg \cup {u \in Units : doneReg[PeOf(u)] # {}}
           sv == ScalarValid(unitDone)
<1>1. /\ state \in {"IDLE", "WAIT"} /\ peReq.valid \in BOOLEAN
      /\ peReq \in [valid : BOOLEAN, id : Ids, r : Requests, hz : HazardType]
      /\ insn \in [Ids -> Requests] /\ peRunning \in [PEs -> SUBSET Ids]
  BY DEF BInv, Inv, TypeOK
<1>2. Cycle(doneReg, fuDone, LanesReady, ack, sv)
  BY DEF BackendCycle
<1> HIDE DEF fuDone
<1>3. CASE HoldBroadcast(doneReg, fuDone, LanesReady)
  <2>1. /\ state = "IDLE" /\ Stays /\ state' = state /\ peReq' = peReq /\ TrackOnly(doneReg)
        /\ peReq.valid
    BY <1>3 DEF HoldBroadcast, BroadcastStuck, Stays
  <2>2. \A i \in Ids : ~New(i)
    BY <2>1 DEF New
  <2>3. QED
    BY <2>1, <2>2, QuietShape
<1>4. CASE NoRequest(doneReg, fuDone, LanesReady) \/ PEsBusy(doneReg, fuDone, LanesReady)
  <2>1. /\ state = "IDLE" /\ ~Stays /\ state' = state /\ peReq' = NoPeReq /\ TrackOnly(doneReg)
    BY <1>4 DEF NoRequest, PEsBusy, BroadcastStuck, Stays
  <2>2. \A i \in Ids : ~New(i)
    BY <2>1 DEF New, NoPeReq
  <2>3. QED
    BY <2>1, <2>2, QuietShape
<1>5. CASE HazardStall(doneReg, fuDone, LanesReady)
  <2>1. /\ state = "IDLE" /\ ~Stays /\ state' = state /\ peReq'.valid = FALSE /\ insn' = insn
        /\ Track(doneReg, {}, NextId, AllHazards(Hazards(araReq.r)))
    BY <1>5 DEF HazardStall, BroadcastStuck, Stays
  <2>2. \A i \in Ids : ~New(i)
    BY <2>1 DEF New
  <2>3. \A pe \in PEs, i \in Ids : i \in peRunning'[pe] <=> Runs(pe, i)
    BY <2>1 DEF Track, RunningNext, Runs
  <2>4. QED
    BY <2>1, <2>2, <2>3
<1>6. CASE Issue(doneReg, fuDone, LanesReady)
  <2> DEFINE f == NextId
             r == araReq.r
  <2>1. /\ state = "IDLE" /\ ~Stays /\ araReq.valid /\ CanIssue
        /\ peReq' = [valid |-> TRUE, id |-> f, r |-> r, hz |-> Hazards(r)]
        /\ Track(doneReg, RunsOn(r), f, AllHazards(Hazards(r)))
        /\ insn' = [insn EXCEPT ![f] = r]
        /\ state' = IF NeedsAnswer(r) THEN "WAIT" ELSE "IDLE"
    BY <1>6 DEF Issue, BroadcastStuck, Stays
  <2>2. f \in Ids /\ f \notin Running
    BY <2>1, NextIdLemma DEF CanIssue
  <2>3. \A pe \in PEs : peRunning'[pe] = (peRunning[pe] \ doneReg[pe])
                                        \cup (IF pe \in RunsOn(r) THEN {f} ELSE {})
    BY <2>1 DEF Track, RunningNext
  <2> HIDE DEF f, r
  <2>4. \A i \in Ids : New(i) <=> i = f
    BY <2>1 DEF New
  <2>5. \A pe \in PEs : f \notin peRunning[pe]
    BY <2>2, RunningDef
  <2>6. \A i \in Ids, pe \in PEs :
          /\ i # f => (i \in peRunning'[pe] <=> Runs(pe, i))
          /\ f \in peRunning'[pe] <=> pe \in RunsOn(r)
    BY <2>3, <2>5 DEF Runs
  <2>7. insn'[f] = r /\ \A i \in Ids : i # f => insn'[i] = insn[i]
    BY <1>1, <2>1, <2>2
  <2>8. peReq'.r = r
    BY <2>1
  <2>9. QED
    BY <2>1, <2>2, <2>4, <2>6, <2>7, <2>8 DEF r
<1>7. CASE StayInWait(doneReg, fuDone, LanesReady, ack, sv) \/ Answer(doneReg, fuDone, LanesReady, ack, sv)
  <2>1. /\ state = "WAIT" /\ TrackOnly(doneReg)
        /\ peReq' = [peReq EXCEPT !.valid = peReq.valid /\ ~LanesReady]
        /\ state' = "IDLE" <=> Answered(unitDone, ack)
        /\ state' \in {"IDLE", "WAIT"}
    BY <1>7 DEF StayInWait, Answer, BroadcastInWait, Answered
  <2>2. /\ peReq'.valid <=> peReq.valid /\ ~LanesReady
        /\ peReq'.id = peReq.id /\ peReq'.r = peReq.r
    BY <1>1, <2>1
  <2>3. Stays <=> peReq'.valid
    BY <2>1, <2>2 DEF Stays
  <2>4. \A i \in Ids : ~New(i)
    BY <2>3 DEF New
  <2>5. QED
    BY <2>1, <2>2, <2>3, <2>4, QuietShape
<1>8. QED
  BY <1>2, <1>3, <1>4, <1>5, <1>6, <1>7 DEF Cycle

-----------------------------------------------------------------------------
(***************************************************************************)
(* The invariant, by its parts.                                            *)
(***************************************************************************)
\* While the sequencer waits, its request is still that of the broadcast; it is
\* counted once; no counter exceeds the depth but by the request that stalls.
SequencerWaits ==
  /\ state = "WAIT" => /\ araReq.valid /\ token = araReq.token
                       /\ peReq.r = araReq.r /\ NeedsAnswer(peReq.r)
  /\ ~araReq.valid => token # araReq.token
CountersBounded ==
  \A v \in VFUs \ {"None"} : cnt[v] <= InsnQueueDepth[v] + One(Stalled(v))

\* A lane samples a broadcast once: its sync mask names the instruction it holds.
SampledOnce ==
  \A l \in Lanes : laneReg[l] # <<>> =>
    /\ syncMask[l].on => syncMask[l].last = laneReg[l][1].id
    /\ Offered(l) => laneReg[l][1].id # peReq.id

\* An id still means the request it was last given to.
Known ==
  /\ \A l \in Lanes : laneReg[l] # <<>> => laneReg[l][1].r = insn[laneReg[l][1].id]
  /\ peReq.valid => peReq.r = insn[peReq.id]

BroadcastRuns ==
  peReq.valid => peReq.id \in Running \/ (state = "WAIT" /\ RunsOn(peReq.r) = {})

RunsWhereItShould == \A pe \in PEs : \A i \in peRunning[pe] : pe \in RunsOn(insn[i])

\* An instruction some lane has not executed yet is still running, in that lane
\* and outside the lanes, or it is the scalar move that is waited for.
RunsUntilExecuted ==
  \A l \in Lanes, i \in Ids : OnItsWay(l, i) =>
    \A pe \in RunsOn(insn[i]) : (pe \in Lanes => pe = l) => Runs(pe, i)
MovesWait ==
  \A l \in Lanes, i \in Ids : OnItsWay(l, i) /\ insn[i].op = "VMVXS" =>
    state = "WAIT" /\ peReq.id = i /\ peReq.r = insn[i]
NotTakenYet == \A l \in Lanes, i \in Ids : OnItsWay(l, i) => i \notin laneRun[l]

\* What is in a queue belongs there, once, and runs.
LaneQueues ==
  \A l \in Lanes, v \in LaneVFUs :
    /\ NoTwice(laneQueue[l][v])
    /\ \A i \in Elements(laneQueue[l][v]) :
         /\ v \in LaneUnit(insn[i]) /\ i \in laneRun[l] /\ ~OnItsWay(l, i)
         /\ vfu(insn[i].op) \in LaneVFUs => Runs(l, i)
         /\ Compare(insn[i]) => Runs(PeMask, i)
UnitQueues ==
  \A u \in Units :
    /\ NoTwice(unitQueue[u])
    /\ \A i \in Elements(unitQueue[u]) :
         /\ Takes(u, insn[i]) /\ i \in unitRun[u]
         /\ Runs(IF PeOf(u) \in RunsOn(insn[i]) THEN PeOf(u) ELSE 0, i)

\* A unit takes a broadcast in its first cycle, before any lane.
TakenAtOnce == \A u \in Units : Wants(u) => \A l \in Lanes : Offered(l)

\* A MaskB operand is that of the scalar move that is waited for, and valid only
\* when every lane has executed the move.
OperandIsMoves ==
  maskB = <<>> \/ /\ state = "WAIT" /\ peReq.r.op = "VMVXS" /\ ~OnItsWay(0, peReq.id)
                  /\ maskB = <<[id |-> peReq.id, scalar |-> TRUE]>>
OperandComesLast == maskBValid => InAllLanes(peReq.id)

\* The mask unit works on a scalar result only while it is waited for.
MaskUnitRuns ==
  runningMask => \/ state = "WAIT" /\ peReq.r.op = "VCPOP"
                 \/ state = "IDLE" /\ doneReg[PeMask] # {}
                 \/ \A r \in Requests : r.op # "VMVXS"
CountsWait ==
  \A i \in Elements(unitQueue["MaskUnit"]) :
    insn[i].op = "VCPOP" => state = "WAIT" /\ i = peReq.id /\ peReq.r.op = "VCPOP"
AnsweredBroadcast == state = "IDLE" /\ peReq.valid => peReq.r.op \notin {"VCPOP", "VMVXS"}

\* The address generator has the load or store that is waited for.
AddrgenWaits ==
  addrgen # {} => state = "WAIT" /\ addrgen = {peReq.id} /\ peReq.r.op \in Loads \cup Stores
AddrgenHasIt ==
  peReq.valid /\ peReq.r.op \in Loads \cup Stores =>
    peReq.id \in addrgenRun \/ (state = "WAIT" /\ addrgen = {})

FlowInv ==
  /\ BInv
  /\ SequencerWaits /\ CountersBounded /\ CountersExact
  /\ SampledOnce /\ Known /\ BroadcastRuns /\ RunsWhereItShould
  /\ RunsUntilExecuted /\ MovesWait /\ NotTakenYet
  /\ LaneQueues /\ UnitQueues /\ TakenAtOnce
  /\ OperandIsMoves /\ OperandComesLast /\ MaskUnitRuns /\ CountsWait /\ AnsweredBroadcast
  /\ AddrgenWaits /\ AddrgenHasIt

\* The hypotheses of a step.
FlowStep(laneDone, unitDone, free, ack, arrives) ==
  /\ FlowInv /\ BInv' /\ ~OutrunLanes /\ MovesApart
  /\ laneDone \in LaneDoneChoices /\ unitDone \in UnitDoneChoices
  /\ free \in [Lanes -> BOOLEAN] /\ ack \in AckChoices /\ arrives \in ArrivalChoices
  /\ BackendCycle(laneDone, unitDone, free, ack, arrives)

-----------------------------------------------------------------------------
(***************************************************************************)
(* What the invariant says of a state.                                     *)
(***************************************************************************)
LEMMA OnItsWayShape ==
  BInv => \A l \in Lanes, i \in Ids :
            OnItsWay(l, i) <=> \/ Offered(l) /\ peReq.id = i
                               \/ laneReg[l] # <<>> /\ laneReg[l][1].id = i
<1> SUFFICES ASSUME BInv, NEW l \in Lanes, NEW i \in Ids
             PROVE  OnItsWay(l, i) <=> \/ Offered(l) /\ peReq.id = i
                                       \/ laneReg[l] # <<>> /\ laneReg[l][1].id = i
  OBVIOUS
<1>1. laneReg[l] = <<>> \/ \E b \in Broadcast : laneReg[l] = <<b>>
  BY DEF BInv
<1>2. CASE laneReg[l] = <<>>
  BY <1>2 DEF OnItsWay
<1>3. ASSUME NEW b \in Broadcast, laneReg[l] = <<b>>
      PROVE  OnItsWay(l, i) <=> \/ Offered(l) /\ peReq.id = i
                                \/ laneReg[l] # <<>> /\ laneReg[l][1].id = i
  <2>1. /\ laneReg[l] # <<>> /\ laneReg[l][1] = b
        /\ \A n : n \in DOMAIN laneReg[l] <=> n = 1
    BY <1>3
  <2>2. QED
    BY <2>1 DEF OnItsWay
<1>4. QED
  BY <1>1, <1>2, <1>3

LEMMA OnItsWayNext ==
  BInv' => \A l \in Lanes, i \in Ids :
             OnItsWay(l, i)' <=> \/ Offered(l)' /\ peReq'.id = i
                                 \/ laneReg'[l] # <<>> /\ laneReg'[l][1].id = i
<1>1. (BInv => \A l \in Lanes, i \in Ids :
                 OnItsWay(l, i) <=> \/ Offered(l) /\ peReq.id = i
                                    \/ laneReg[l] # <<>> /\ laneReg[l][1].id = i)'
  BY OnItsWayShape, PTL
<1>2. QED
  BY <1>1

LEMMA InAllLanesDef ==
  ASSUME NEW i
  PROVE  InAllLanes(i) <=> \A l \in Lanes : ~OnItsWay(l, i)
BY DEF InAllLanes, OnItsWay

\* Every instruction but a scalar move runs where a given lane is not left out.
LEMMA OwnPe ==
  ASSUME NEW r \in Requests, NEW l \in Lanes, r.op # "VMVXS"
  PROVE  \E pe \in RunsOn(r) : pe \in PEs /\ (pe \in Lanes => pe = l)
<1>1. RunsOn(r) # {} /\ RunsOn(r) \subseteq PEs
  BY RunsOnShape, RunsOnLemma
<1>2. QED
  BY <1>1, RunsOnShape

LEMMA OnItsWayRuns ==
  ASSUME FlowInv, NEW l \in Lanes, NEW i \in Ids, OnItsWay(l, i)
  PROVE  i \in Running \/ (state = "WAIT" /\ peReq.id = i)
<1>1. CASE insn[i].op = "VMVXS"
  BY <1>1 DEF FlowInv, MovesWait
<1>2. CASE insn[i].op # "VMVXS"
  <2>1. insn[i] \in Requests
    BY DEF FlowInv, BInv, Inv, TypeOK
  <2>2. PICK pe \in RunsOn(insn[i]) : pe \in PEs /\ (pe \in Lanes => pe = l)
    BY <1>2, <2>1, OwnPe
  <2>3. i \in peRunning[pe]
    BY <2>2 DEF FlowInv, RunsUntilExecuted, Runs
  <2>4. QED
    BY <2>2, <2>3, RunningDef
<1>3. QED
  BY <1>1, <1>2

LEMMA QueuedRuns ==
  ASSUME FlowInv
  PROVE  /\ \A l \in Lanes, v \in LaneVFUs : \A i \in Elements(laneQueue[l][v]) :
              i \in Ids /\ i \in Running
         /\ \A u \in Units : \A i \in Elements(unitQueue[u]) : i \in Ids /\ i \in Running
<1>1. ASSUME NEW l \in Lanes, NEW v \in LaneVFUs, NEW i \in Elements(laneQueue[l][v])
      PROVE  i \in Ids /\ i \in Running
  <2>1. i \in Ids
    <3>1. laneQueue[l][v] \in Seq(Ids)
      BY DEF FlowInv, BInv
    <3>2. QED
      BY <3>1 DEF Elements
  <2>2. insn[i] \in Requests
    BY <2>1 DEF FlowInv, BInv, Inv, TypeOK
  <2>3. vfu(insn[i].op) \in LaneVFUs \/ Compare(insn[i])
    BY <2>2, QueuesShape DEF FlowInv, LaneQueues
  <2>4. Runs(l, i) \/ Runs(PeMask, i)
    BY <2>3 DEF FlowInv, LaneQueues
  <2>5. l \in PEs /\ PeMask \in PEs
    BY PeOfLemma, NrLanesAssumption DEF PeMask, PEs
  <2>6. QED
    BY <2>1, <2>4, <2>5, RunningDef DEF Runs
<1>2. ASSUME NEW u \in Units, NEW i \in Elements(unitQueue[u])
      PROVE  i \in Ids /\ i \in Running
  <2>1. i \in Ids
    <3>1. unitQueue[u] \in Seq(Ids)
      BY DEF FlowInv, BInv
    <3>2. QED
      BY <3>1 DEF Elements
  <2>2. Runs(PeOf(u), i) \/ Runs(0, i)
    BY DEF FlowInv, UnitQueues
  <2>3. PeOf(u) \in PEs /\ 0 \in PEs
    BY PeOfLemma, NrLanesAssumption DEF PEs
  <2>4. QED
    BY <2>1, <2>2, <2>3, RunningDef DEF Runs
<1>3. QED
  BY <1>1, <1>2

\* A broadcast every lane has executed is not held up.
LEMMA AllSampled ==
  ASSUME FlowInv, peReq.valid, InAllLanes(peReq.id)
  PROVE  LanesReady
<1>1. SUFFICES ASSUME NEW l \in Lanes, laneReg[l] # <<>> PROVE FALSE
  BY DEF LanesReady
<1>2. peReq.id \in Ids /\ BInv
  BY DEF FlowInv, BInv, Inv, TypeOK
<1>3. ~Offered(l) /\ laneReg[l][1].id # peReq.id
  BY <1>1, <1>2, InAllLanesDef, OnItsWayShape
<1>4. syncMask[l].on /\ syncMask[l].last = peReq.id
  BY <1>3 DEF Offered
<1>5. QED
  BY <1>1, <1>3, <1>4 DEF FlowInv, SampledOnce

-----------------------------------------------------------------------------
(***************************************************************************)
(* What a step does to an instruction on its way, and to the queues.       *)
(***************************************************************************)
Executed(l, i, free) == Executes(l, free[l]) /\ Pending(l)[1].id = i

LEMMA NotNew ==
  ASSUME NEW laneDone, NEW unitDone, NEW free, NEW ack, NEW arrives,
         FlowStep(laneDone, unitDone, free, ack, arrives)
  PROVE  /\ \A l \in Lanes, i \in Ids : OnItsWay(l, i) => ~New(i)
         /\ \A l \in Lanes, v \in LaneVFUs : \A i \in Elements(laneQueue[l][v]) : ~New(i)
         /\ \A u \in Units : \A i \in Elements(unitQueue[u]) : ~New(i)
         /\ peReq.valid => ~New(peReq.id)
<1>1. FlowInv /\ BInv /\ peReq.id \in Ids
  BY DEF FlowStep, FlowInv, BInv, Inv, TypeOK
<1>2. \A i \in Ids : New(i) => i \notin Running /\ state = "IDLE"
  BY <1>1, CycleShape DEF FlowStep
<1>3. "IDLE" # "WAIT"
  OBVIOUS
<1>4. \A l \in Lanes, i \in Ids : OnItsWay(l, i) => ~New(i)
  BY <1>1, <1>2, <1>3, OnItsWayRuns
<1>5. /\ \A l \in Lanes, v \in LaneVFUs : \A i \in Elements(laneQueue[l][v]) : ~New(i)
      /\ \A u \in Units : \A i \in Elements(unitQueue[u]) : ~New(i)
  BY <1>1, <1>2, QueuedRuns
<1>6. peReq.valid => ~New(peReq.id)
  BY <1>1, <1>2, <1>3 DEF FlowInv, BroadcastRuns
<1>7. QED
  BY <1>4, <1>5, <1>6

\* What a lane can execute is on its way, and is what its id stands for.
LEMMA PendingIs ==
  ASSUME FlowInv, NEW l \in Lanes, Pending(l) # <<>>
  PROVE  /\ Pending(l)[1].id \in Ids /\ OnItsWay(l, Pending(l)[1].id)
         /\ Pending(l)[1].r = insn[Pending(l)[1].id]
<1>1. BInv
  BY DEF FlowInv
<1>2. Pending(l)[1].id \in Ids
  BY <1>1, PendingTypes
<1>3. CASE laneReg[l] # <<>>
  <2>1. Pending(l) = laneReg[l]
    BY <1>3 DEF Pending
  <2>2. QED
    BY <1>1, <1>2, <1>3, <2>1, OnItsWayShape DEF FlowInv, Known
<1>4. CASE laneReg[l] = <<>>
  <2>1. Offered(l) /\ peReq.valid /\ Pending(l) = <<[id |-> peReq.id, r |-> peReq.r]>>
    BY <1>4 DEF Pending, Handshake, Offered
  <2>2. Pending(l)[1].id = peReq.id /\ Pending(l)[1].r = peReq.r
    BY <2>1
  <2>3. QED
    BY <1>1, <1>2, <2>1, <2>2, OnItsWayShape DEF FlowInv, Known
<1>5. QED
  BY <1>3, <1>4

LEMMA LaneStep ==
  ASSUME NEW laneDone, NEW unitDone, NEW free, NEW ack, NEW arrives,
         FlowStep(laneDone, unitDone, free, ack, arrives),
         NEW l \in Lanes
  PROVE  /\ Starts(l, free[l]) <=> Executes(l, free[l])
         /\ laneReg'[l] = IF Executes(l, free[l]) THEN <<>> ELSE Pending(l)
         /\ syncMask'[l].on => \/ Handshake(l) /\ syncMask'[l].last = peReq.id
                               \/ /\ ~Handshake(l) /\ syncMask[l].on /\ peReq.valid
                                  /\ syncMask'[l].last = syncMask[l].last
         /\ Stays => (Offered(l)' <=> Offered(l) /\ laneReg[l] # <<>>)
         /\ \A i \in Ids : New(i) => Offered(l)'
<1>1. FlowInv /\ BInv /\ peReq.id \in Ids /\ peReq.valid \in BOOLEAN
  BY DEF FlowStep, FlowInv, BInv, Inv, TypeOK
<1>2. Starts(l, free[l]) <=> Executes(l, free[l])
  <2>1. Pending(l) # <<>> => Pending(l)[1].id \notin laneRun[l]
    BY <1>1, PendingIs DEF FlowInv, NotTakenYet
  <2>2. QED
    BY <2>1 DEF Starts, Executes
<1>3. laneReg'[l] = IF Executes(l, free[l]) THEN <<>> ELSE Pending(l)
  BY DEF FlowStep, BackendCycle, LaneRegNext
<1>4. syncMask'[l] = SyncMaskNext(l) /\ syncMask[l] \in [on : BOOLEAN, last : Ids]
  BY <1>1 DEF FlowStep, BackendCycle, BInv
<1>5. Handshake(l) => syncMask'[l].on = TRUE /\ syncMask'[l].last = peReq.id
  BY <1>4 DEF SyncMaskNext
<1>6. ~Handshake(l) => /\ syncMask'[l].on = (syncMask[l].on /\ peReq.valid)
                       /\ syncMask'[l].last = syncMask[l].last
  BY <1>4 DEF SyncMaskNext
<1>7. syncMask'[l].on => \/ Handshake(l) /\ syncMask'[l].last = peReq.id
                         \/ /\ ~Handshake(l) /\ syncMask[l].on /\ peReq.valid
                            /\ syncMask'[l].last = syncMask[l].last
  BY <1>5, <1>6
<1>8. Offered(l)' <=> peReq'.valid /\ ~(syncMask'[l].on /\ syncMask'[l].last = peReq'.id)
  BY DEF Offered
<1>9. ASSUME Stays PROVE Offered(l)' <=> Offered(l) /\ laneReg[l] # <<>>
  <2>1. peReq'.valid /\ peReq'.id = peReq.id /\ peReq.valid
    BY <1>1, <1>9, CycleShape DEF FlowStep, Stays
  <2>2. CASE Handshake(l)
    BY <1>5, <1>8, <2>1, <2>2 DEF Handshake
  <2>3. CASE ~Handshake(l)
    BY <1>6, <1>8, <2>1, <2>3 DEF Handshake, Offered
  <2>4. QED
    BY <2>2, <2>3
<1>10. ASSUME NEW i \in Ids, New(i) PROVE Offered(l)'
  <2>1. peReq'.valid /\ peReq'.id = i
    BY <1>10 DEF New
  <2>2. SUFFICES ASSUME syncMask'[l].on, syncMask'[l].last = i PROVE FALSE
    BY <1>8, <2>1
  <2>3. peReq.valid => peReq.id # i
    BY <1>10, NotNew
  <2>4. ~Handshake(l) /\ syncMask[l].on /\ peReq.valid /\ syncMask[l].last = i
    BY <1>7, <2>2, <2>3 DEF Handshake, Offered
  <2>5. Offered(l) /\ laneReg[l] # <<>>
    BY <2>3, <2>4 DEF Handshake, Offered
  <2>6. laneReg[l][1].id = i
    BY <1>1, <2>4, <2>5 DEF FlowInv, SampledOnce
  <2>7. OnItsWay(l, i)
    BY <1>1, <2>5, <2>6, OnItsWayShape
  <2>8. QED
    BY <1>10, <2>7, NotNew
<1>11. QED
  BY <1>2, <1>3, <1>7, <1>9, <1>10

LEMMA WayStep ==
  ASSUME NEW laneDone, NEW unitDone, NEW free, NEW ack, NEW arrives,
         FlowStep(laneDone, unitDone, free, ack, arrives),
         NEW l \in Lanes, NEW i \in Ids
  PROVE  /\ OnItsWay(l, i)' => New(i) \/ (OnItsWay(l, i) /\ ~Executed(l, i, free))
         /\ New(i) => OnItsWay(l, i)'
         /\ OnItsWay(l, i) /\ ~Executed(l, i, free) /\ ~NeedsNoLane(insn[i]) => OnItsWay(l, i)'
<1>1. FlowInv /\ BInv /\ BInv' /\ peReq.id \in Ids /\ peReq.valid \in BOOLEAN
  BY DEF FlowStep, FlowInv, BInv, Inv, TypeOK
<1>2. OnItsWay(l, i) <=> \/ Offered(l) /\ peReq.id = i
                         \/ laneReg[l] # <<>> /\ laneReg[l][1].id = i
  BY <1>1, OnItsWayShape
<1>3. OnItsWay(l, i)' <=> \/ Offered(l)' /\ peReq'.id = i
                          \/ laneReg'[l] # <<>> /\ laneReg'[l][1].id = i
  BY <1>1, OnItsWayNext
<1>4. laneReg'[l] = IF Executes(l, free[l]) THEN <<>> ELSE Pending(l)
  BY LaneStep
<1>5. ASSUME OnItsWay(l, i)', ~New(i)
      PROVE  OnItsWay(l, i) /\ ~Executed(l, i, free)
  <2>1. CASE laneReg'[l] # <<>> /\ laneReg'[l][1].id = i
    <3>1. ~Executes(l, free[l]) /\ Pending(l) # <<>> /\ Pending(l)[1].id = i
      BY <1>4, <2>1
    <3>2. QED
      BY <1>1, <3>1, PendingIs DEF Executed
  <2>2. CASE Offered(l)' /\ peReq'.id = i
    <3>1. Stays /\ peReq.id = i
      <4>1. peReq'.valid
        BY <2>2 DEF Offered
      <4>2. Stays
        BY <1>5, <2>2, <4>1 DEF New
      <4>3. QED
        BY <2>2, <4>2, CycleShape, <1>1 DEF FlowStep
    <3>2. Offered(l) /\ laneReg[l] # <<>>
      BY <2>2, <3>1, LaneStep
    <3>3. Pending(l) = laneReg[l] /\ laneReg[l][1].id # peReq.id
      BY <1>1, <3>2 DEF Pending, FlowInv, SampledOnce
    <3>4. QED
      BY <1>2, <3>1, <3>2, <3>3 DEF Executed
  <2>3. QED
    BY <1>3, <1>5, <2>1, <2>2
<1>6. New(i) => OnItsWay(l, i)'
  BY <1>3, LaneStep DEF New
<1>7. ASSUME OnItsWay(l, i), ~Executed(l, i, free), ~NeedsNoLane(insn[i])
      PROVE  OnItsWay(l, i)'
  <2>1. CASE Pending(l) # <<>> /\ Pending(l)[1].id = i
    <3>1. laneReg'[l] = Pending(l)
      BY <1>4, <1>7, <2>1 DEF Executed
    <3>2. QED
      BY <1>3, <2>1, <3>1
  <2>2. CASE ~(Pending(l) # <<>> /\ Pending(l)[1].id = i)
    <3>1. Offered(l) /\ peReq.id = i /\ laneReg[l] # <<>>
      <4>1. CASE laneReg[l] # <<>>
        BY <1>2, <1>7, <2>2, <4>1 DEF Pending
      <4>2. CASE laneReg[l] = <<>>
        <5>1. Offered(l) /\ peReq.id = i
          BY <1>2, <1>7, <4>2
        <5>2. Pending(l) = <<[id |-> peReq.id, r |-> peReq.r]>>
          BY <4>2, <5>1 DEF Pending, Handshake
        <5>3. QED
          BY <2>2, <5>1, <5>2
      <4>3. QED
        BY <4>1, <4>2
    <3>2. peReq.valid /\ peReq.r = insn[i] /\ ~LanesReady
      BY <1>1, <3>1 DEF Offered, FlowInv, Known, LanesReady
    <3>3. Stays
      BY <1>7, <3>2 DEF Stays
    <3>4. Offered(l)' /\ peReq'.id = i
      BY <1>1, <3>1, <3>3, LaneStep, CycleShape DEF FlowStep
    <3>5. QED
      BY <1>3, <3>4
  <2>3. QED
    BY <2>1, <2>2
<1>8. QED
  BY <1>5, <1>6, <1>7

\* Who is reported as done next.
LEMMA DoneStep ==
  ASSUME NEW laneDone, NEW unitDone, NEW free, NEW ack, NEW arrives,
         FlowStep(laneDone, unitDone, free, ack, arrives),
         NEW i \in Ids
  PROVE  /\ \A l \in Lanes : i \in doneReg'[l] =>
              \/ \E v \in LaneVFUs : /\ <<l, v>> \in laneDone /\ LaneMayFinish(l, v)
                                     /\ laneQueue[l][v] # <<>> /\ i = Head(laneQueue[l][v])
              \/ Mutes(l, free[l]) /\ Pending(l) # <<>> /\ i = Pending(l)[1].id
         /\ \A l \in Lanes, v \in LaneVFUs :
              <<l, v>> \in laneDone /\ i = Head(laneQueue[l][v]) => i \in doneReg'[l]
         /\ \A l \in Lanes : Mutes(l, free[l]) /\ i = Pending(l)[1].id => i \in doneReg'[l]
         /\ \A u \in Units : i \in doneReg'[PeOf(u)] <=> u \in unitDone /\ i = Head(unitQueue[u])
         /\ \A u \in unitDone : /\ u \in Units /\ UnitMayFinish(u) /\ unitQueue[u] # <<>>
                                /\ InAllLanes(Head(unitQueue[u]))
<1>1. doneReg' = DoneNext(laneDone, unitDone, free)
  BY DEF FlowStep, BackendCycle
<1>2. laneDone \in LaneDoneChoices /\ unitDone \in UnitDoneChoices /\ ~OutrunLanes
  BY DEF FlowStep
<1>3. ASSUME NEW l \in Lanes
      PROVE  i \in doneReg'[l] <=>
               \/ \E v \in LaneVFUs : <<l, v>> \in laneDone /\ i = Head(laneQueue[l][v])
               \/ Mutes(l, free[l]) /\ i = Pending(l)[1].id
  <2>1. doneReg'[l] = LaneFinishes(laneDone, l) \cup Muted(l, free[l])
    BY <1>1, PeOfLemma DEF DoneNext
  <2>2. QED
    BY <2>1 DEF LaneFinishes, FinishingIn, Muted
<1>4. ASSUME NEW u \in unitDone
      PROVE  /\ u \in Units /\ UnitMayFinish(u) /\ unitQueue[u] # <<>>
             /\ InAllLanes(Head(unitQueue[u]))
  <2>1. u \in Units /\ UnitMayFinish(u)
    BY <1>2, ChoicesLemma
  <2>2. QED
    BY <1>2, <2>1 DEF UnitMayFinish
<1>5. ASSUME NEW u \in Units
      PROVE  i \in doneReg'[PeOf(u)] <=> u \in unitDone /\ i = Head(unitQueue[u])
  <2>1. doneReg'[PeOf(u)] = {Head(unitQueue[w]) : w \in {x \in unitDone : PeOf(x) = PeOf(u)}}
    BY <1>1, PeOfLemma DEF DoneNext
  <2>2. \A w \in unitDone : PeOf(w) = PeOf(u) <=> w = u
    BY <1>4, PeOfLemma
  <2>3. QED
    BY <2>1, <2>2
<1>6. \A l \in Lanes, v \in LaneVFUs :
        <<l, v>> \in laneDone => LaneMayFinish(l, v) /\ laneQueue[l][v] # <<>>
  BY <1>2, ChoicesLemma DEF LaneMayFinish
<1>7. \A l \in Lanes : Mutes(l, free[l]) => Pending(l) # <<>>
  BY DEF Mutes, Starts, Executes
<1>8. QED
  BY <1>3, <1>4, <1>5, <1>6, <1>7

LEMMA DoneInLane ==
  ASSUME NEW laneDone, NEW unitDone, NEW free, NEW ack, NEW arrives,
         FlowStep(laneDone, unitDone, free, ack, arrives),
         NEW l \in Lanes, NEW i \in doneReg'[l]
  PROVE  \/ \E v \in LaneVFUs : /\ <<l, v>> \in laneDone /\ LaneMayFinish(l, v)
                                /\ laneQueue[l][v] # <<>> /\ i = Head(laneQueue[l][v])
         \/ Mutes(l, free[l]) /\ Pending(l) # <<>> /\ i = Pending(l)[1].id
<1>1. i \in Ids /\ l \in PEs
  BY LaneZero DEF FlowStep, BInv
<1>2. \A k \in Lanes : i \in doneReg'[k] =>
        \/ \E v \in LaneVFUs : /\ <<k, v>> \in laneDone /\ LaneMayFinish(k, v)
                               /\ laneQueue[k][v] # <<>> /\ i = Head(laneQueue[k][v])
        \/ Mutes(k, free[k]) /\ Pending(k) # <<>> /\ i = Pending(k)[1].id
  BY <1>1, DoneStep
<1>3. QED
  BY <1>2

\* A queue after a cycle; pops and pushes are 0 or 1.
After(q, pops, pushes, x) ==
  LET kept == IF pops = 1 THEN Tail(q) ELSE q
  IN IF pushes = 1 THEN Append(kept, x) ELSE kept

LEMMA QueueOps ==
  ASSUME NEW S, NEW q \in Seq(S), NEW x, NEW pops \in {0, 1}, NEW pushes \in {0, 1},
         NoTwice(q), pops = 1 => q # <<>>, pushes = 1 => x \in S /\ x \notin Elements(q)
  PROVE  /\ NoTwice(After(q, pops, pushes, x))
         /\ \A i : i \in Elements(After(q, pops, pushes, x)) <=>
              \/ i \in Elements(q) /\ ~(pops = 1 /\ i = Head(q))
              \/ pushes = 1 /\ i = x
         /\ Len(After(q, pops, pushes, x)) = Len(q) - pops + pushes
<1> DEFINE next == After(q, pops, pushes, x)
           kept == IF pops = 1 THEN Tail(q) ELSE q
<1>1. /\ kept \in Seq(S) /\ NoTwice(kept)
      /\ \A i : i \in Elements(kept) <=> i \in Elements(q) /\ ~(pops = 1 /\ i = Head(q))
      /\ Len(kept) = Len(q) - pops
  <2>1. Len(q) \in Nat
    OBVIOUS
  <2>2. CASE pops = 1
    <3>1. /\ Tail(q) \in Seq(S) /\ NoTwice(Tail(q)) /\ Head(q) \notin Elements(Tail(q))
          /\ Elements(Tail(q)) \subseteq Elements(q)
          /\ Elements(q) \subseteq Elements(Tail(q)) \cup {Head(q)}
          /\ Len(Tail(q)) = Len(q) - 1
      BY <2>2, TailElements, HeadTail
    <3>2. kept = Tail(q)
      BY <2>2
    <3>3. QED
      BY <2>2, <3>1, <3>2
  <2>3. CASE pops = 0
    BY <2>1, <2>3
  <2>4. QED
    BY <2>2, <2>3
<1>2. next = IF pushes = 1 THEN Append(kept, x) ELSE kept
  BY DEF After
<1> HIDE DEF kept, next
<1>3. CASE pushes = 1
  <2>1. x \in S /\ x \notin Elements(kept)
    BY <1>1, <1>3
  <2>2. /\ Elements(Append(kept, x)) = Elements(kept) \cup {x}
        /\ NoTwice(Append(kept, x)) /\ Len(Append(kept, x)) = Len(kept) + 1
    BY <1>1, <2>1, AppendElements
  <2>3. next = Append(kept, x) /\ Len(q) \in Nat /\ pops \in Nat
    BY <1>2, <1>3
  <2>4. Len(next) = Len(q) - pops + pushes
    BY <1>1, <1>3, <2>2, <2>3
  <2>5. \A i : i \in Elements(next) <=> i \in Elements(kept) \/ i = x
    BY <2>2, <2>3
  <2>6. QED
    BY <1>1, <1>3, <2>2, <2>3, <2>4, <2>5 DEF next
<1>4. CASE pushes = 0
  <2>1. next = kept /\ Len(q) \in Nat /\ pops \in Nat
    BY <1>2, <1>4
  <2>2. Len(kept) = Len(q) - pops + pushes
    BY <1>1, <1>4, <2>1
  <2>3. QED
    BY <1>1, <1>4, <2>1, <2>2 DEF next
<1>5. QED
  BY <1>3, <1>4

\* An instruction enters a lane's queue when it is executed there.
LEMMA LaneQueueStep ==
  ASSUME NEW laneDone, NEW unitDone, NEW free, NEW ack, NEW arrives,
         FlowStep(laneDone, unitDone, free, ack, arrives),
         NEW l \in Lanes, NEW v \in LaneVFUs
  PROVE  LET q == laneQueue[l][v]
             pops == <<l, v>> \in laneDone
             pushes == Enters(l, free[l], v) /\ Len(q) < InsnQueueDepth[v]
         IN /\ NoTwice(laneQueue'[l][v])
            /\ \A i : i \in Elements(laneQueue'[l][v]) <=>
                 \/ i \in Elements(q) /\ ~(pops /\ i = Head(q))
                 \/ pushes /\ i = Pending(l)[1].id
            /\ Len(laneQueue'[l][v]) = Len(q) - One(pops) + One(pushes)
            /\ Enters(l, free[l], v) => Executed(l, Pending(l)[1].id, free) /\ Pending(l) # <<>>
<1> DEFINE q == laneQueue[l][v]
           popped == <<l, v>> \in laneDone
           pushed == Enters(l, free[l], v) /\ Len(q) < InsnQueueDepth[v]
           pops == One(popped)
           pushes == One(pushed)
           x == Pending(l)[1].id
           next == laneQueue'[l][v]
<1>1. FlowInv /\ q \in Seq(Ids) /\ NoTwice(q)
  BY DEF FlowStep, FlowInv, BInv, LaneQueues
<1>2. popped => q # <<>>
  BY ChoicesLemma DEF FlowStep, LaneMayFinish
<1>3. Enters(l, free[l], v) => Pending(l) # <<>> /\ Executed(l, x, free)
  BY DEF Enters, Starts, Executes, Executed
<1>4. pushed => x \in Ids /\ x \notin Elements(q)
  BY <1>1, <1>3, PendingIs DEF FlowInv, LaneQueues
<1>5. next = IF pushed THEN Append(IF popped THEN Tail(q) ELSE q, x)
             ELSE IF popped THEN Tail(q) ELSE q
  BY DEF FlowStep, BackendCycle, LaneQueueNext
<1>6. pops \in {0, 1} /\ pushes \in {0, 1} /\ (pops = 1 <=> popped) /\ (pushes = 1 <=> pushed)
  BY DEF One
<1> HIDE DEF q, popped, pushed, pops, pushes, x, next
<1>7. next = After(q, pops, pushes, x)
  BY <1>5, <1>6 DEF After
<1>8. /\ NoTwice(next)
      /\ \A i : i \in Elements(next) <=> \/ i \in Elements(q) /\ ~(pops = 1 /\ i = Head(q))
                                         \/ pushes = 1 /\ i = x
      /\ Len(next) = Len(q) - pops + pushes
  BY <1>1, <1>2, <1>4, <1>6, <1>7, QueueOps
<1>9. \A i : i \in Elements(next) <=> \/ i \in Elements(q) /\ ~(popped /\ i = Head(q))
                                      \/ pushed /\ i = x
  BY <1>6, <1>8
<1>10. QED
  BY <1>3, <1>8, <1>9 DEF q, popped, pushed, pops, pushes, x, next

LEMMA UnitQueueStep ==
  ASSUME NEW laneDone, NEW unitDone, NEW free, NEW ack, NEW arrives,
         FlowStep(laneDone, unitDone, free, ack, arrives),
         NEW u \in Units
  PROVE  LET q == unitQueue[u]
             pops == u \in unitDone
         IN /\ NoTwice(unitQueue'[u])
            /\ \A i : i \in Elements(unitQueue'[u]) <=>
                 \/ i \in Elements(q) /\ ~(pops /\ i = Head(q))
                 \/ Accepts(u) /\ i = peReq.id
            /\ Len(unitQueue'[u]) = Len(q) - One(pops) + One(Accepts(u))
<1> DEFINE q == unitQueue[u]
           popped == u \in unitDone
           pushed == Accepts(u)
           pops == One(popped)
           pushes == One(pushed)
           x == peReq.id
           next == unitQueue'[u]
<1>1. FlowInv /\ q \in Seq(Ids) /\ NoTwice(q) /\ x \in Ids
  BY DEF FlowStep, FlowInv, BInv, Inv, TypeOK, UnitQueues
<1>2. popped => q # <<>>
  BY ChoicesLemma DEF FlowStep, UnitMayFinish
<1>3. pushed => x \notin Elements(q)
  BY <1>1 DEF FlowInv, UnitQueues, Accepts, Wants
<1>4. next = IF pushed THEN Append(IF popped THEN Tail(q) ELSE q, x)
             ELSE IF popped THEN Tail(q) ELSE q
  BY DEF FlowStep, BackendCycle, UnitStep, UnitQueueNext
<1>5. pops \in {0, 1} /\ pushes \in {0, 1} /\ (pops = 1 <=> popped) /\ (pushes = 1 <=> pushed)
  BY DEF One
<1> HIDE DEF q, popped, pushed, pops, pushes, x, next
<1>6. next = After(q, pops, pushes, x)
  BY <1>4, <1>5 DEF After
<1>7. /\ NoTwice(next)
      /\ \A i : i \in Elements(next) <=> \/ i \in Elements(q) /\ ~(pops = 1 /\ i = Head(q))
                                         \/ pushes = 1 /\ i = x
      /\ Len(next) = Len(q) - pops + pushes
  BY <1>1, <1>2, <1>3, <1>5, <1>6, QueueOps
<1>8. \A i : i \in Elements(next) <=> \/ i \in Elements(q) /\ ~(popped /\ i = Head(q))
                                      \/ pushed /\ i = x
  BY <1>5, <1>7
<1>9. QED
  BY <1>7, <1>8 DEF q, popped, pushed, pops, pushes, x, next

-----------------------------------------------------------------------------
(***************************************************************************)
(* Answers, and the instructions on their way.                             *)
(***************************************************************************)
\* An answer that ends WAIT is the one to the broadcast, and comes when every
\* lane has executed it.
LEMMA AnswerStep ==
  ASSUME NEW laneDone, NEW unitDone, NEW free, NEW ack, NEW arrives,
         FlowStep(laneDone, unitDone, free, ack, arrives),
         state = "WAIT"
  PROVE  /\ peReq.r.op \in Loads \cup Stores \cup {"VMVXS", "VCPOP"}
         /\ peReq.r.op \in Loads \cup Stores => (state' = "IDLE" <=> ack) /\ maskB = <<>>
         /\ peReq.r.op = "VMVXS" => (state' = "IDLE" <=> maskBValid)
         /\ peReq.r.op = "VMVXS" /\ state' = "IDLE" => InAllLanes(peReq.id)
         /\ peReq.r.op = "VCPOP" /\ state' = "IDLE" =>
              /\ "MaskUnit" \in unitDone /\ unitQueue["MaskUnit"] # <<>>
              /\ Head(unitQueue["MaskUnit"]) = peReq.id
              /\ InAllLanes(peReq.id)
<1>1. /\ FlowInv /\ peReq.r \in Requests /\ araReq.r = peReq.r /\ NeedsAnswer(peReq.r)
      /\ maskBValid \in BOOLEAN /\ (maskBValid => maskB # <<>>)
  BY DEF FlowStep, FlowInv, BInv, Inv, TypeOK, SequencerWaits
<1>2. ack \in BOOLEAN
  BY DEF FlowStep, AckChoices
<1>3. state' = "IDLE" <=> Answered(unitDone, ack)
  <2>1. BInv /\ BackendCycle(laneDone, unitDone, free, ack, arrives)
    BY <1>1 DEF FlowStep, FlowInv
  <2>2. QED
    BY <2>1, CycleShape
<1>4. Answered(unitDone, ack) <=> \/ peReq.r.op \in Loads \cup Stores /\ ack
                                  \/ peReq.r.vd = {} /\ ScalarValid(unitDone)
  BY <1>1 DEF Answered, MemAnswer, ScalarAnswer
<1>5. peReq.r.vd = {} <=> peReq.r.op \in Stores \cup {"VCPOP", "VMVXS"}
  BY <1>1, DispatcherAssumption
<1>6. peReq.r.op \in Loads \cup Stores \cup {"VMVXS", "VCPOP"}
  BY <1>1, <1>5 DEF NeedsAnswer
<1>7. "VCPOP" \notin Loads \cup Stores /\ "VMVXS" \notin Loads \cup Stores /\ "VCPOP" # "VMVXS"
  BY DEF Loads, Stores
<1>8. ASSUME peReq.r.op \in Loads \cup Stores
      PROVE  (state' = "IDLE" <=> ack) /\ maskB = <<>>
  <2>1. maskB = <<>>
    BY <1>1, <1>7, <1>8 DEF FlowInv, OperandIsMoves
  <2>2. ~ScalarValid(unitDone)
    BY <1>1, <1>7, <1>8, <2>1 DEF ScalarValid
  <2>3. QED
    BY <1>2, <1>3, <1>4, <1>8, <2>1, <2>2
<1>9. ASSUME peReq.r.op = "VMVXS"
      PROVE  /\ state' = "IDLE" <=> maskBValid
             /\ state' = "IDLE" => InAllLanes(peReq.id)
  <2>1. ScalarValid(unitDone) <=> maskBValid
    BY <1>7, <1>9 DEF ScalarValid
  <2>2. state' = "IDLE" <=> maskBValid
    BY <1>3, <1>4, <1>5, <1>7, <1>9, <2>1
  <2>3. QED
    BY <1>1, <2>2 DEF FlowInv, OperandComesLast
<1>10. ASSUME peReq.r.op = "VCPOP", state' = "IDLE"
       PROVE  /\ "MaskUnit" \in unitDone /\ unitQueue["MaskUnit"] # <<>>
              /\ Head(unitQueue["MaskUnit"]) = peReq.id
              /\ InAllLanes(peReq.id)
  <2>1. "MaskUnit" \in unitDone /\ Finishing("MaskUnit", "VCPOP")
    BY <1>3, <1>4, <1>7, <1>10 DEF ScalarValid
  <2>2. unitQueue["MaskUnit"] # <<>> /\ insn[Head(unitQueue["MaskUnit"])].op = "VCPOP"
    BY <2>1 DEF Finishing
  <2>3. unitQueue["MaskUnit"] \in Seq(Ids)
    BY <1>1 DEF FlowInv, BInv, Units
  <2>4. Head(unitQueue["MaskUnit"]) \in Elements(unitQueue["MaskUnit"])
    BY <2>2, <2>3, TailElements
  <2>5. Head(unitQueue["MaskUnit"]) = peReq.id
    BY <1>1, <2>2, <2>4 DEF FlowInv, CountsWait
  <2>6. peReq.id \in Ids
    BY <1>1 DEF FlowInv, BInv, Inv, TypeOK
  <2>7. QED
    BY <2>1, <2>2, <2>5, <2>6, DoneStep
<1>11. QED
  BY <1>6, <1>8, <1>9, <1>10

LEMMA KnownStep ==
  ASSUME NEW laneDone, NEW unitDone, NEW free, NEW ack, NEW arrives,
         FlowStep(laneDone, unitDone, free, ack, arrives)
  PROVE  Known'
<1>1. FlowInv /\ BInv /\ peReq.id \in Ids /\ peReq'.id \in Ids
  BY DEF FlowStep, FlowInv, BInv, Inv, TypeOK
<1>2. ASSUME NEW l \in Lanes, laneReg'[l] # <<>>
      PROVE  laneReg'[l][1].r = insn'[laneReg'[l][1].id]
  <2>1. laneReg'[l] = Pending(l) /\ Pending(l) # <<>>
    BY <1>2, LaneStep
  <2> DEFINE i == Pending(l)[1].id
  <2>2. i \in Ids /\ OnItsWay(l, i) /\ Pending(l)[1].r = insn[i]
    BY <1>1, <2>1, PendingIs
  <2>3. insn'[i] = insn[i]
    BY <1>1, <2>2, NotNew, CycleShape DEF FlowStep
  <2>4. QED
    BY <2>1, <2>2, <2>3
<1>3. ASSUME peReq'.valid
      PROVE  peReq'.r = insn'[peReq'.id]
  <2>1. CASE Stays
    <3>1. /\ peReq.valid /\ peReq'.id = peReq.id /\ peReq'.r = peReq.r
          /\ insn'[peReq.id] = insn[peReq.id]
      BY <1>1, <2>1, NotNew, CycleShape DEF FlowStep, Stays
    <3>2. QED
      BY <1>1, <3>1 DEF FlowInv, Known
  <2>2. CASE ~Stays
    <3>1. New(peReq'.id)
      BY <1>3, <2>2 DEF New
    <3>2. QED
      BY <1>1, <3>1, CycleShape DEF FlowStep
  <2>3. QED
    BY <2>1, <2>2
<1>4. QED
  BY <1>2, <1>3 DEF Known

LEMMA SampledOnceStep ==
  ASSUME NEW laneDone, NEW unitDone, NEW free, NEW ack, NEW arrives,
         FlowStep(laneDone, unitDone, free, ack, arrives)
  PROVE  SampledOnce'
<1>1. FlowInv /\ BInv /\ peReq.id \in Ids /\ peReq'.id \in Ids
  BY DEF FlowStep, FlowInv, BInv, Inv, TypeOK
<1>2. SUFFICES ASSUME NEW l \in Lanes, laneReg'[l] # <<>>
               PROVE  /\ syncMask'[l].on => syncMask'[l].last = laneReg'[l][1].id
                      /\ Offered(l)' => laneReg'[l][1].id # peReq'.id
  BY DEF SampledOnce
<1>3. laneReg'[l] = Pending(l) /\ Pending(l) # <<>>
  BY <1>2, LaneStep
<1>4. Pending(l)[1].id \in Ids /\ OnItsWay(l, Pending(l)[1].id)
  BY <1>1, <1>3, PendingIs
<1>5. ASSUME syncMask'[l].on PROVE syncMask'[l].last = Pending(l)[1].id
  <2>1. CASE Handshake(l) /\ syncMask'[l].last = peReq.id
    <3>1. Pending(l) = <<[id |-> peReq.id, r |-> peReq.r]>>
      BY <2>1 DEF Pending, Handshake
    <3>2. QED
      BY <2>1, <3>1
  <2>2. CASE ~Handshake(l) /\ syncMask[l].on /\ syncMask'[l].last = syncMask[l].last
    <3>1. laneReg[l] # <<>> /\ Pending(l) = laneReg[l]
      BY <1>3, <2>2 DEF Pending
    <3>2. QED
      BY <1>1, <2>2, <3>1 DEF FlowInv, SampledOnce
  <2>3. QED
    BY <1>5, <2>1, <2>2, LaneStep
<1>6. ASSUME Offered(l)' PROVE Pending(l)[1].id # peReq'.id
  <2>1. peReq'.valid
    BY <1>6 DEF Offered
  <2>2. CASE Stays
    <3>1. Offered(l) /\ laneReg[l] # <<>> /\ peReq'.id = peReq.id
      BY <1>1, <1>6, <2>2, LaneStep, CycleShape DEF FlowStep
    <3>2. Pending(l) = laneReg[l]
      BY <3>1 DEF Pending
    <3>3. QED
      BY <1>1, <3>1, <3>2 DEF FlowInv, SampledOnce
  <2>3. CASE ~Stays
    <3>1. New(peReq'.id)
      BY <2>1, <2>3 DEF New
    <3>2. QED
      BY <1>1, <1>4, <3>1, NotNew
  <2>4. QED
    BY <2>2, <2>3
<1>7. QED
  BY <1>3, <1>5, <1>6

LEMMA RunsWhereStep ==
  ASSUME NEW laneDone, NEW unitDone, NEW free, NEW ack, NEW arrives,
         FlowStep(laneDone, unitDone, free, ack, arrives)
  PROVE  RunsWhereItShould'
<1>1. FlowInv /\ BInv /\ BackendCycle(laneDone, unitDone, free, ack, arrives)
  BY DEF FlowStep, FlowInv
<1>2. SUFFICES ASSUME NEW pe \in PEs, NEW i \in peRunning'[pe]
               PROVE  pe \in RunsOn(insn'[i])
  BY DEF RunsWhereItShould
<1>3. i \in Ids
  BY DEF FlowStep, BInv, Inv, TypeOK
<1>4. CASE New(i)
  BY <1>1, <1>3, <1>4, CycleShape
<1>5. CASE ~New(i)
  <2>1. insn'[i] = insn[i] /\ i \in peRunning[pe]
    BY <1>1, <1>3, <1>5, CycleShape DEF Runs
  <2>2. QED
    BY <1>1, <2>1 DEF FlowInv, RunsWhereItShould
<1>6. QED
  BY <1>4, <1>5

LEMMA RunsUntilExecutedStep ==
  ASSUME NEW laneDone, NEW unitDone, NEW free, NEW ack, NEW arrives,
         FlowStep(laneDone, unitDone, free, ack, arrives)
  PROVE  RunsUntilExecuted'
<1>1. /\ FlowInv /\ BInv /\ BackendCycle(laneDone, unitDone, free, ack, arrives)
      /\ insn \in [Ids -> Requests] /\ insn' \in [Ids -> Requests]
  BY DEF FlowStep, FlowInv, BInv, Inv, TypeOK
<1>2. SUFFICES ASSUME NEW l \in Lanes, NEW i \in Ids, OnItsWay(l, i)',
                      NEW pe \in RunsOn(insn'[i]), pe \in Lanes => pe = l
               PROVE  i \in peRunning'[pe] /\ i \notin doneReg'[pe]
  BY DEF RunsUntilExecuted, Runs
<1>3. pe \in PEs
  BY RunsOnLemma
<1>4. i \in peRunning'[pe]
  <2>1. CASE New(i)
    BY <1>1, <1>3, <2>1, CycleShape
  <2>2. CASE ~New(i)
    <3>1. insn'[i] = insn[i] /\ OnItsWay(l, i)
      BY <1>1, <1>2, <2>2, CycleShape, WayStep
    <3>2. Runs(pe, i)
      BY <1>1, <1>2, <3>1 DEF FlowInv, RunsUntilExecuted
    <3>3. QED
      BY <1>1, <1>3, <2>2, <3>2, CycleShape
  <2>3. QED
    BY <2>1, <2>2
<1>5. ASSUME i \in doneReg'[pe] PROVE FALSE
  <2>1. CASE pe \in Lanes
    <3>1. pe = l
      BY <1>2, <2>1
    <3>2. ASSUME NEW v \in LaneVFUs, laneQueue[l][v] # <<>>, i = Head(laneQueue[l][v])
          PROVE  FALSE
      <4>1. laneQueue[l][v] \in Seq(Ids)
        BY <1>1 DEF BInv
      <4>2. i \in Elements(laneQueue[l][v])
        BY <3>2, <4>1, TailElements
      <4>3. ~New(i) /\ ~OnItsWay(l, i)
        BY <1>1, <4>2, NotNew DEF FlowInv, LaneQueues
      <4>4. QED
        BY <1>2, <4>3, WayStep
    <3>3. ASSUME Mutes(l, free[l]), Pending(l) # <<>>, i = Pending(l)[1].id
          PROVE  FALSE
      <4>1. Executed(l, i, free) /\ OnItsWay(l, i)
        BY <1>1, <3>3, PendingIs DEF Executed, Mutes, Starts
      <4>2. ~New(i)
        BY <4>1, NotNew
      <4>3. QED
        BY <1>2, <4>1, <4>2, WayStep
    <3>4. \/ \E v \in LaneVFUs : laneQueue[l][v] # <<>> /\ i = Head(laneQueue[l][v])
          \/ Mutes(l, free[l]) /\ Pending(l) # <<>> /\ i = Pending(l)[1].id
      <4>1. i \in doneReg'[l]
        BY <1>5, <3>1
      <4>2. QED
        BY <4>1, DoneInLane
    <3>5. QED
      BY <3>2, <3>3, <3>4
  <2>2. CASE pe \notin Lanes
    <3>1. PICK u \in Units : pe = PeOf(u)
      BY <1>3, <2>2, NrLanesAssumption DEF PEs, Lanes, Units, PeOf, PeLoad, PeStore, PeMask, PeSlide
    <3>2. u \in unitDone /\ i = Head(unitQueue[u]) /\ unitQueue[u] # <<>> /\ InAllLanes(i)
      BY <1>5, <3>1, DoneStep
    <3>3. unitQueue[u] \in Seq(Ids)
      BY <1>1 DEF BInv
    <3>4. i \in Elements(unitQueue[u])
      BY <3>2, <3>3, TailElements
    <3>5. ~New(i) /\ ~OnItsWay(l, i)
      BY <3>2, <3>4, NotNew, InAllLanesDef
    <3>6. QED
      BY <1>2, <3>5, WayStep
  <2>3. QED
    BY <2>1, <2>2
<1>6. QED
  BY <1>4, <1>5

\* In the last cycle of WAIT the broadcast has been executed by every lane.
LEMMA AnswerAfterAll ==
  ASSUME NEW laneDone, NEW unitDone, NEW free, NEW ack, NEW arrives,
         FlowStep(laneDone, unitDone, free, ack, arrives),
         state = "WAIT", state' = "IDLE", peReq.r.op \in {"VMVXS", "VCPOP"}
  PROVE  InAllLanes(peReq.id)
BY AnswerStep

LEMMA MovesWaitStep ==
  ASSUME NEW laneDone, NEW unitDone, NEW free, NEW ack, NEW arrives,
         FlowStep(laneDone, unitDone, free, ack, arrives)
  PROVE  MovesWait'
<1>1. /\ FlowInv /\ BInv /\ BackendCycle(laneDone, unitDone, free, ack, arrives)
      /\ araReq.r \in Requests /\ peReq.id \in Ids
  BY DEF FlowStep, FlowInv, BInv, Inv, TypeOK
<1>2. SUFFICES ASSUME NEW l \in Lanes, NEW i \in Ids, OnItsWay(l, i)', insn'[i].op = "VMVXS"
               PROVE  state' = "WAIT" /\ peReq'.id = i /\ peReq'.r = insn'[i]
  BY DEF MovesWait
<1>3. CASE New(i)
  <2>1. /\ insn'[i] = araReq.r /\ peReq'.r = araReq.r
        /\ state' = IF NeedsAnswer(araReq.r) THEN "WAIT" ELSE "IDLE"
    BY <1>1, <1>3, CycleShape
  <2>2. NeedsAnswer(araReq.r)
    BY <1>1, <1>2, <2>1, DispatcherAssumption DEF NeedsAnswer
  <2>3. QED
    BY <1>3, <2>1, <2>2 DEF New
<1>4. CASE ~New(i)
  <2>1. insn'[i] = insn[i] /\ OnItsWay(l, i)
    BY <1>1, <1>2, <1>4, CycleShape, WayStep
  <2>2. state = "WAIT" /\ peReq.id = i /\ peReq.r = insn[i]
    BY <1>1, <1>2, <2>1 DEF FlowInv, MovesWait
  <2>3. peReq'.id = i /\ peReq'.r = peReq.r /\ state' \in {"IDLE", "WAIT"}
    BY <1>1, <2>2, CycleShape
  <2>4. ~InAllLanes(peReq.id)
    BY <2>1, <2>2, InAllLanesDef
  <2>5. peReq.r.op = "VMVXS"
    BY <1>2, <2>1, <2>2
  <2>6. QED
    BY <2>1, <2>2, <2>3, <2>4, <2>5, AnswerAfterAll
<1>5. QED
  BY <1>3, <1>4

LEMMA LaneRunStep ==
  ASSUME NEW laneDone, NEW unitDone, NEW free, NEW ack, NEW arrives,
         FlowStep(laneDone, unitDone, free, ack, arrives),
         NEW l \in Lanes, NEW i \in Ids
  PROVE  i \in laneRun'[l] <=>
           \/ i \in laneRun[l] /\ i \in Running
           \/ /\ Executed(l, i, free) /\ ~Mutes(l, free[l])
              /\ vfu(Pending(l)[1].r.op) # "None"
<1>1. laneRun'[l] = LaneRunNext(l, free[l])
  BY DEF FlowStep, BackendCycle
<1>2. Starts(l, free[l]) <=> Executes(l, free[l])
  BY LaneStep
<1>3. QED
  BY <1>1, <1>2 DEF LaneRunNext, Executed

LEMMA NotTakenYetStep ==
  ASSUME NEW laneDone, NEW unitDone, NEW free, NEW ack, NEW arrives,
         FlowStep(laneDone, unitDone, free, ack, arrives)
  PROVE  NotTakenYet'
<1>1. /\ FlowInv /\ BInv /\ BackendCycle(laneDone, unitDone, free, ack, arrives)
  BY DEF FlowStep, FlowInv
<1>2. SUFFICES ASSUME NEW l \in Lanes, NEW i \in Ids, OnItsWay(l, i)'
               PROVE  i \notin laneRun'[l]
  BY DEF NotTakenYet
<1>3. CASE New(i)
  <2>1. i \notin Running
    BY <1>1, <1>3, CycleShape
  <2>2. ~Executed(l, i, free)
    <3>1. SUFFICES ASSUME Executed(l, i, free) PROVE FALSE
      OBVIOUS
    <3>2. OnItsWay(l, i)
      BY <1>1, <3>1, PendingIs DEF Executed, Executes
    <3>3. QED
      BY <1>3, <3>2, NotNew
  <2>3. QED
    BY <2>1, <2>2, LaneRunStep
<1>4. CASE ~New(i)
  <2>1. OnItsWay(l, i) /\ ~Executed(l, i, free)
    BY <1>2, <1>4, WayStep
  <2>2. i \notin laneRun[l]
    BY <1>1, <2>1 DEF FlowInv, NotTakenYet
  <2>3. QED
    BY <2>1, <2>2, LaneRunStep
<1>5. QED
  BY <1>3, <1>4

LEMMA BroadcastRunsStep ==
  ASSUME NEW laneDone, NEW unitDone, NEW free, NEW ack, NEW arrives,
         FlowStep(laneDone, unitDone, free, ack, arrives)
  PROVE  BroadcastRuns'
<1>1. /\ FlowInv /\ BInv /\ BInv' /\ BackendCycle(laneDone, unitDone, free, ack, arrives)
      /\ araReq.r \in Requests /\ peReq.id \in Ids /\ peReq'.id \in Ids /\ peReq.r \in Requests
      /\ insn \in [Ids -> Requests]
  BY DEF FlowStep, FlowInv, BInv, Inv, TypeOK
<1>2. SUFFICES ASSUME peReq'.valid
               PROVE  peReq'.id \in Running' \/ (state' = "WAIT" /\ RunsOn(peReq'.r) = {})
  BY DEF BroadcastRuns
<1>3. \A i \in Ids, pe \in PEs : i \in peRunning'[pe] => i \in Running'
  BY DEF Running
<1>4. CASE New(peReq'.id)
  <2>1. /\ peReq'.r = araReq.r /\ state' = IF NeedsAnswer(araReq.r) THEN "WAIT" ELSE "IDLE"
        /\ \A pe \in PEs : peReq'.id \in peRunning'[pe] <=> pe \in RunsOn(araReq.r)
    BY <1>1, <1>4, CycleShape
  <2>2. CASE RunsOn(araReq.r) = {}
    <3>1. araReq.r.vd = {}
      BY <1>1, <2>2, RunsOnShape, DispatcherAssumption
    <3>2. QED
      BY <2>1, <2>2, <3>1 DEF NeedsAnswer
  <2>3. CASE RunsOn(araReq.r) # {}
    <3>1. PICK pe \in RunsOn(araReq.r) : TRUE
      BY <2>3
    <3>2. pe \in PEs
      BY RunsOnLemma
    <3>3. QED
      BY <1>1, <1>3, <2>1, <3>1, <3>2
  <2>4. QED
    BY <2>2, <2>3
<1>5. CASE ~New(peReq'.id)
  <2>1. Stays /\ peReq.valid /\ ~LanesReady
    BY <1>2, <1>5 DEF New, Stays
  <2>2. peReq'.id = peReq.id /\ peReq'.r = peReq.r
    BY <1>1, <2>1, CycleShape
  <2>3. PICK l \in Lanes : OnItsWay(l, peReq.id)
    BY <1>1, <2>1, AllSampled, InAllLanesDef
  <2>4. peReq.r = insn[peReq.id] /\ ~New(peReq.id)
    BY <1>1, <1>5, <2>1, <2>2 DEF FlowInv, Known
  <2>5. CASE peReq.r.op = "VMVXS"
    <3>1. state = "WAIT"
      BY <1>1, <2>3, <2>4, <2>5 DEF FlowInv, MovesWait
    <3>2. ~InAllLanes(peReq.id)
      BY <2>3, InAllLanesDef
    <3>3. state' = "WAIT"
      BY <1>1, <2>5, <3>1, <3>2, AnswerAfterAll, CycleShape
    <3>4. CASE RunsOn(peReq.r) = {}
      BY <2>2, <3>3, <3>4
    <3>5. CASE RunsOn(peReq.r) # {}
      <4>1. PICK pe \in RunsOn(peReq.r) : TRUE
        BY <3>5
      <4>2. pe \in PEs /\ pe \notin Lanes
        <5>1. vfu(peReq.r.op) \notin LaneVFUs
          BY <2>5 DEF vfu, LaneVFUs, Loads, Stores
        <5>2. QED
          BY <1>1, <4>1, <5>1, RunsOnLemma, RunsOnShape
      <4>3. Runs(pe, peReq.id)
        BY <1>1, <2>3, <2>4, <4>1, <4>2 DEF FlowInv, RunsUntilExecuted
      <4>4. QED
        BY <1>1, <1>3, <2>2, <2>4, <4>2, <4>3, CycleShape
    <3>6. QED
      BY <3>4, <3>5
  <2>6. CASE peReq.r.op # "VMVXS"
    <3>1. PICK pe \in RunsOn(peReq.r) : pe \in PEs /\ (pe \in Lanes => pe = l)
      BY <1>1, <2>3, <2>6, OwnPe
    <3>2. Runs(pe, peReq.id)
      BY <1>1, <2>3, <2>4, <3>1 DEF FlowInv, RunsUntilExecuted
    <3>3. QED
      BY <1>1, <1>3, <2>2, <2>4, <3>1, <3>2, CycleShape
  <2>7. QED
    BY <2>5, <2>6
<1>6. QED
  BY <1>4, <1>5

\* Nothing is executed in a lane as it enters one of its queues and finishes there.
LEMMA HeadWasThere ==
  ASSUME FlowInv, NEW l \in Lanes, NEW v \in LaneVFUs, laneQueue[l][v] # <<>>
  PROVE  Head(laneQueue[l][v]) \in Elements(laneQueue[l][v])
<1>1. laneQueue[l][v] \in Seq(Ids)
  BY DEF FlowInv, BInv
<1>2. QED
  BY <1>1, TailElements

LEMMA LaneQueuesStep ==
  ASSUME NEW laneDone, NEW unitDone, NEW free, NEW ack, NEW arrives,
         FlowStep(laneDone, unitDone, free, ack, arrives)
  PROVE  LaneQueues'
<1>1. /\ FlowInv /\ BInv /\ BInv' /\ BackendCycle(laneDone, unitDone, free, ack, arrives)
      /\ insn \in [Ids -> Requests]
      /\ laneQueue \in [Lanes -> [LaneVFUs -> Seq(Ids)]]
      /\ laneQueue' \in [Lanes -> [LaneVFUs -> Seq(Ids)]]
  BY DEF FlowStep, FlowInv, BInv, Inv, TypeOK
<1>2. PeMask \in PEs /\ PeMask = PeOf("MaskUnit") /\ "MaskUnit" \in Units /\ PeMask \notin Lanes
      /\ Lanes \subseteq PEs
  BY PeOfLemma, NrLanesAssumption DEF Units, PeOf, PEs, Lanes, PeMask
<1>3. SUFFICES ASSUME NEW l \in Lanes, NEW v \in LaneVFUs, NEW i \in Elements(laneQueue'[l][v])
               PROVE  /\ v \in LaneUnit(insn'[i]) /\ i \in laneRun'[l] /\ ~OnItsWay(l, i)'
                      /\ vfu(insn'[i].op) \in LaneVFUs => i \in peRunning'[l] /\ i \notin doneReg'[l]
                      /\ Compare(insn'[i]) => i \in peRunning'[PeMask] /\ i \notin doneReg'[PeMask]
  BY LaneQueueStep DEF LaneQueues, Runs
<1>4. i \in Ids
  BY <1>1, <1>3 DEF Elements
<1>5. ASSUME ~New(i), OnItsWay(l, i) => Executed(l, i, free), v \in LaneUnit(insn[i]), i \in laneRun'[l],
             vfu(insn[i].op) \in LaneVFUs => Runs(l, i) /\ i \notin doneReg'[l],
             Compare(insn[i]) => Runs(PeMask, i) /\ i \notin doneReg'[PeMask]
      PROVE  /\ v \in LaneUnit(insn'[i]) /\ i \in laneRun'[l] /\ ~OnItsWay(l, i)'
             /\ vfu(insn'[i].op) \in LaneVFUs => i \in peRunning'[l] /\ i \notin doneReg'[l]
             /\ Compare(insn'[i]) => i \in peRunning'[PeMask] /\ i \notin doneReg'[PeMask]
  <2>1. insn'[i] = insn[i] /\ \A pe \in PEs : i \in peRunning'[pe] <=> Runs(pe, i)
    BY <1>1, <1>4, <1>5, CycleShape
  <2>2. ~OnItsWay(l, i)'
    BY <1>4, <1>5, WayStep
  <2>3. QED
    BY <1>2, <1>5, <2>1, <2>2
<1>6. CASE i \in Elements(laneQueue[l][v]) /\ ~(<<l, v>> \in laneDone /\ i = Head(laneQueue[l][v]))
  <2>1. ~New(i) /\ ~OnItsWay(l, i) /\ v \in LaneUnit(insn[i]) /\ i \in laneRun[l] /\ i \in Running
    BY <1>1, <1>6, NotNew, QueuedRuns DEF FlowInv, LaneQueues
  <2>2. i \in laneRun'[l]
    BY <1>4, <2>1, LaneRunStep
  <2>3. ASSUME vfu(insn[i].op) \in LaneVFUs, i \in doneReg'[l] PROVE FALSE
    <3>1. ASSUME NEW w \in LaneVFUs, <<l, w>> \in laneDone,
                 laneQueue[l][w] # <<>>, i = Head(laneQueue[l][w])
          PROVE  FALSE
      <4>1. w \in LaneUnit(insn[i])
        BY <1>1, <3>1, HeadWasThere DEF FlowInv, LaneQueues
      <4>2. w = v
        BY <1>1, <1>4, <2>1, <4>1, QueuesShape
      <4>3. QED
        BY <1>6, <3>1, <4>2
    <3>2. ASSUME Mutes(l, free[l]), Pending(l) # <<>>, i = Pending(l)[1].id
          PROVE  FALSE
      BY <1>1, <2>1, <3>2, PendingIs
    <3>3. QED
      BY <2>3, <3>1, <3>2, DoneInLane
  <2>4. ASSUME Compare(insn[i]), i \in doneReg'[PeMask] PROVE FALSE
    <3>1. "MaskUnit" \in unitDone /\ i = Head(unitQueue["MaskUnit"])
      BY <1>2, <1>4, <2>4, DoneStep
    <3>2. OutOfLanes(i)
      BY <1>4, <2>4, <3>1, DoneStep DEF UnitMayFinish
    <3>3. QED
      BY <1>6, <3>2 DEF OutOfLanes
  <2>5. /\ vfu(insn[i].op) \in LaneVFUs => Runs(l, i)
        /\ Compare(insn[i]) => Runs(PeMask, i)
    BY <1>1, <1>6 DEF FlowInv, LaneQueues
  <2>6. QED
    BY <1>5, <2>1, <2>2, <2>3, <2>4, <2>5
<1>7. CASE Enters(l, free[l], v) /\ i = Pending(l)[1].id
  <2>1. Executed(l, i, free) /\ Pending(l) # <<>> /\ ~Mutes(l, free[l]) /\ v \in LaneUnit(Pending(l)[1].r)
    BY <1>7, LaneQueueStep DEF Enters
  <2>2. OnItsWay(l, i) /\ ~New(i) /\ Pending(l)[1].r = insn[i] /\ v \in LaneUnit(insn[i])
    BY <1>1, <1>7, <2>1, PendingIs, NotNew
  <2>3. insn[i] \in Requests
    BY <1>1, <1>4
  <2>4. vfu(insn[i].op) \in LaneVFUs \/ Compare(insn[i])
    BY <2>2, <2>3, QueuesShape
  <2>5. vfu(insn[i].op) # "None"
    BY <2>3, <2>4, QueuesShape DEF LaneVFUs
  <2>6. i \in laneRun'[l]
    BY <1>4, <2>1, <2>2, <2>5, LaneRunStep
  <2>7. ASSUME vfu(insn[i].op) \in LaneVFUs PROVE Runs(l, i) /\ i \notin doneReg'[l]
    <3>1. Runs(l, i)
      BY <1>1, <1>4, <2>2, <2>3, <2>7, RunsOnShape DEF FlowInv, RunsUntilExecuted
    <3>2. ASSUME NEW w \in LaneVFUs, laneQueue[l][w] # <<>>, i = Head(laneQueue[l][w])
          PROVE  FALSE
      BY <1>1, <2>2, <3>2, HeadWasThere DEF FlowInv, LaneQueues
    <3>3. SUFFICES ASSUME i \in doneReg'[l] PROVE FALSE
      BY <3>1
    <3>4. \/ \E w \in LaneVFUs : /\ <<l, w>> \in laneDone /\ LaneMayFinish(l, w)
                                 /\ laneQueue[l][w] # <<>> /\ i = Head(laneQueue[l][w])
          \/ Mutes(l, free[l]) /\ Pending(l) # <<>> /\ i = Pending(l)[1].id
      BY <3>3, DoneInLane
    <3>5. QED
      BY <2>1, <3>2, <3>4
  <2>8. ASSUME Compare(insn[i]) PROVE Runs(PeMask, i) /\ i \notin doneReg'[PeMask]
    <3>1. Takes("MaskUnit", insn[i])
      BY <2>3, <2>8, QueuesShape DEF Takes
    <3>2. PeMask \in RunsOn(insn[i])
      BY <1>2, <2>3, <3>1, RunsOnShape
    <3>3. Runs(PeMask, i)
      BY <1>1, <1>2, <1>4, <2>2, <3>2 DEF FlowInv, RunsUntilExecuted
    <3>4. i \notin doneReg'[PeMask]
      BY <1>2, <1>4, <2>2, DoneStep, InAllLanesDef
    <3>5. QED
      BY <3>3, <3>4
  <2>9. QED
    BY <1>5, <2>1, <2>2, <2>6, <2>7, <2>8
<1>8. QED
  BY <1>3, <1>6, <1>7, LaneQueueStep

LEMMA UnitRunStep ==
  ASSUME NEW laneDone, NEW unitDone, NEW free, NEW ack, NEW arrives,
         FlowStep(laneDone, unitDone, free, ack, arrives),
         NEW u \in Units, NEW i \in Ids
  PROVE  i \in unitRun'[u] <=> \/ i \in unitRun[u] /\ i \in Running
                               \/ Accepts(u) /\ i = peReq.id
<1>1. unitRun'[u] = (unitRun[u] \cap Running) \cup (IF Accepts(u) THEN {peReq.id} ELSE {})
  BY DEF FlowStep, BackendCycle, UnitStep
<1>2. QED
  BY <1>1

\* The counters keep a broadcast from finding a full queue.
LEMMA WantsAccepts ==
  ASSUME FlowInv, NEW u \in Units
  PROVE  Accepts(u) <=> Wants(u)
<1>1. SUFFICES ASSUME Wants(u) PROVE Len(unitQueue[u]) < InsnQueueDepth[u]
  BY DEF Accepts
<1>2. /\ cnt[u] \in Nat /\ Len(unitQueue[u]) \in Nat /\ InsnQueueDepth[u] \in Nat
      /\ u \in VFUs \ {"None"}
  <2>1. u \in VFUs \ {"None"} /\ cnt \in [VFUs -> 0 .. CntWrap - 1] /\ unitQueue \in [Units -> Seq(Ids)]
    BY DEF Units, VFUs, FlowInv, BInv, Inv, TypeOK
  <2>2. QED
    BY <2>1, DepthAssumption
<1>3. cnt[u] = Len(unitQueue[u]) + One(Stalled(u)) + One(doneReg[PeOf(u)] # {}) + One(Wants(u))
  BY DEF FlowInv, CountersExact
<1>4. cnt[u] <= InsnQueueDepth[u] + One(Stalled(u))
  BY <1>2 DEF FlowInv, CountersBounded
<1>5. One(Stalled(u)) \in Nat /\ One(doneReg[PeOf(u)] # {}) \in Nat /\ One(Wants(u)) = 1
  BY <1>1 DEF One
<1>6. QED
  BY <1>2, <1>3, <1>4, <1>5

LEMMA UnitQueuesStep ==
  ASSUME NEW laneDone, NEW unitDone, NEW free, NEW ack, NEW arrives,
         FlowStep(laneDone, unitDone, free, ack, arrives)
  PROVE  UnitQueues'
<1>1. /\ FlowInv /\ BInv /\ BInv' /\ BackendCycle(laneDone, unitDone, free, ack, arrives)
      /\ insn \in [Ids -> Requests] /\ peReq.id \in Ids
      /\ unitQueue' \in [Units -> Seq(Ids)]
  BY DEF FlowStep, FlowInv, BInv, Inv, TypeOK
<1>2. /\ \A u \in Units : PeOf(u) \in PEs /\ PeOf(u) \notin Lanes
      /\ 0 \in PEs /\ 0 \in Lanes /\ "SlideUnit" \in Units
  BY PeOfLemma, NrLanesAssumption DEF PEs, Lanes, Units
<1> DEFINE Pe(u, i) == IF PeOf(u) \in RunsOn(insn[i]) THEN PeOf(u) ELSE 0
<1>3. SUFFICES ASSUME NEW u \in Units, NEW i \in Elements(unitQueue'[u])
               PROVE  /\ Takes(u, insn'[i]) /\ i \in unitRun'[u]
                      /\ i \in peRunning'[IF PeOf(u) \in RunsOn(insn'[i]) THEN PeOf(u) ELSE 0]
                      /\ i \notin doneReg'[IF PeOf(u) \in RunsOn(insn'[i]) THEN PeOf(u) ELSE 0]
  BY UnitQueueStep DEF UnitQueues, Runs
<1>4. i \in Ids /\ insn[i] \in Requests
  BY <1>1, <1>3 DEF Elements
<1>5. ASSUME ~New(i), Takes(u, insn[i]), i \in unitRun'[u],
             PeOf(u) \in RunsOn(insn[i]) => Runs(PeOf(u), i) /\ i \notin doneReg'[PeOf(u)],
             PeOf(u) \notin RunsOn(insn[i]) => Runs(0, i) /\ i \notin doneReg'[0]
      PROVE  /\ Takes(u, insn'[i]) /\ i \in unitRun'[u]
             /\ i \in peRunning'[IF PeOf(u) \in RunsOn(insn'[i]) THEN PeOf(u) ELSE 0]
             /\ i \notin doneReg'[IF PeOf(u) \in RunsOn(insn'[i]) THEN PeOf(u) ELSE 0]
  <2>1. insn'[i] = insn[i] /\ \A pe \in PEs : i \in peRunning'[pe] <=> Runs(pe, i)
    BY <1>1, <1>4, <1>5, CycleShape
  <2>2. QED
    BY <1>2, <1>5, <2>1
<1>6. ASSUME Takes(u, insn[i]), PeOf(u) \notin RunsOn(insn[i])
      PROVE  u = "SlideUnit" /\ Reduction(insn[i]) /\ 0 \in RunsOn(insn[i])
  BY <1>2, <1>4, <1>6, RunsOnShape
<1>7. CASE i \in Elements(unitQueue[u]) /\ ~(u \in unitDone /\ i = Head(unitQueue[u]))
  <2>1. ~New(i) /\ Takes(u, insn[i]) /\ i \in unitRun[u] /\ i \in Running
    BY <1>1, <1>7, NotNew, QueuedRuns DEF FlowInv, UnitQueues
  <2>2. i \in unitRun'[u]
    BY <1>4, <2>1, UnitRunStep
  <2>3. /\ PeOf(u) \in RunsOn(insn[i]) => Runs(PeOf(u), i)
        /\ PeOf(u) \notin RunsOn(insn[i]) => Runs(0, i)
    BY <1>1, <1>7 DEF FlowInv, UnitQueues
  <2>4. i \notin doneReg'[PeOf(u)]
    BY <1>4, <1>7, DoneStep
  <2>5. ASSUME PeOf(u) \notin RunsOn(insn[i]), i \in doneReg'[0] PROVE FALSE
    <3>1. ~(\E v \in LaneVFUs : LaneMayFinish(0, v) /\ i = Head(laneQueue[0][v]))
      BY <1>6, <1>7, <2>1, <2>5 DEF LaneMayFinish
    <3>2. ~(Mutes(0, free[0]) /\ Pending(0) # <<>> /\ i = Pending(0)[1].id)
      BY <1>1, <1>2, <1>6, <2>1, <2>5, PendingIs DEF Mutes
    <3>3. QED
      BY <1>2, <2>5, <3>1, <3>2, DoneInLane
  <2>6. QED
    BY <1>5, <2>1, <2>2, <2>3, <2>4, <2>5
<1>8. CASE Accepts(u) /\ i = peReq.id
  <2>1. peReq.valid /\ peReq.r = insn[i] /\ Takes(u, insn[i]) /\ ~New(i) /\ Wants(u)
    BY <1>1, <1>8, NotNew DEF Accepts, Wants, FlowInv, Known
  <2>2. OnItsWay(0, i)
    BY <1>1, <1>2, <1>8, <2>1 DEF FlowInv, TakenAtOnce, OnItsWay
  <2>3. i \in unitRun'[u]
    BY <1>4, <1>8, UnitRunStep
  <2>4. PeOf(u) \in RunsOn(insn[i]) => Runs(PeOf(u), i)
    BY <1>1, <1>2, <1>4, <2>2 DEF FlowInv, RunsUntilExecuted
  <2>5. PeOf(u) \notin RunsOn(insn[i]) => Runs(0, i)
    BY <1>1, <1>2, <1>4, <1>6, <2>1, <2>2 DEF FlowInv, RunsUntilExecuted
  <2>6. i \notin doneReg'[PeOf(u)]
    BY <1>2, <1>4, <2>2, DoneStep, InAllLanesDef
  <2>7. ASSUME PeOf(u) \notin RunsOn(insn[i]), i \in doneReg'[0] PROVE FALSE
    <3>1. ASSUME NEW v \in LaneVFUs, laneQueue[0][v] # <<>>, i = Head(laneQueue[0][v])
          PROVE  FALSE
      BY <1>1, <1>2, <2>2, <3>1, HeadWasThere DEF FlowInv, LaneQueues
    <3>2. ~(Mutes(0, free[0]) /\ Pending(0) # <<>> /\ i = Pending(0)[1].id)
      BY <1>1, <1>2, <1>6, <2>1, <2>7, PendingIs DEF Mutes
    <3>3. QED
      BY <1>2, <2>7, <3>1, <3>2, DoneInLane
  <2>8. QED
    BY <1>5, <2>1, <2>3, <2>4, <2>5, <2>6, <2>7
<1>9. QED
  BY <1>3, <1>7, <1>8, UnitQueueStep

\* A unit takes a broadcast in its first cycle.
LEMMA WantsNew ==
  ASSUME NEW laneDone, NEW unitDone, NEW free, NEW ack, NEW arrives,
         FlowStep(laneDone, unitDone, free, ack, arrives),
         NEW u \in Units
  PROVE  Wants(u)' <=> New(peReq'.id) /\ Takes(u, peReq'.r)
<1>1. /\ FlowInv /\ BInv /\ BInv' /\ BackendCycle(laneDone, unitDone, free, ack, arrives)
      /\ peReq.id \in Ids /\ peReq'.id \in Ids /\ peReq.r \in Requests
  BY DEF FlowStep, FlowInv, BInv, Inv, TypeOK
<1>2. Wants(u)' <=> peReq'.valid /\ Takes(u, peReq'.r) /\ peReq'.id \notin unitRun'[u]
  BY DEF Wants
<1>3. ASSUME New(peReq'.id) PROVE peReq'.valid /\ peReq'.id \notin unitRun'[u]
  <2>1. peReq'.id \notin Running
    BY <1>1, <1>3, CycleShape
  <2>2. ~(Accepts(u) /\ peReq'.id = peReq.id)
    BY <1>3, NotNew DEF Accepts, Wants
  <2>3. QED
    BY <1>1, <1>3, <2>1, <2>2, UnitRunStep DEF New
<1>4. ASSUME Wants(u)', ~New(peReq'.id) PROVE FALSE
  <2>1. Stays /\ peReq.valid
    BY <1>2, <1>4 DEF New, Stays
  <2>2. peReq'.id = peReq.id /\ peReq'.r = peReq.r
    BY <1>1, <2>1, CycleShape
  <2>3. peReq.id \in Running
    <3>1. SUFFICES ASSUME RunsOn(peReq.r) = {} PROVE FALSE
      BY <1>1, <2>1 DEF FlowInv, BroadcastRuns
    <3>2. 0 \in Lanes
      BY LaneZero
    <3>3. Takes(u, peReq.r) /\ ~Reduction(peReq.r)
      BY <1>1, <1>2, <1>4, <2>2, <3>1, <3>2, RunsOnShape
    <3>4. QED
      BY <1>1, <3>1, <3>3, RunsOnShape
  <2>4. ~Accepts(u) /\ peReq.id \notin unitRun[u]
    BY <1>1, <1>2, <1>4, <2>2, <2>3, UnitRunStep
  <2>5. Wants(u)
    BY <1>2, <1>4, <2>1, <2>2, <2>4 DEF Wants
  <2>6. QED
    BY <1>1, <2>4, <2>5, WantsAccepts
<1>5. QED
  BY <1>2, <1>3, <1>4

LEMMA TakenAtOnceStep ==
  ASSUME NEW laneDone, NEW unitDone, NEW free, NEW ack, NEW arrives,
         FlowStep(laneDone, unitDone, free, ack, arrives)
  PROVE  TakenAtOnce'
<1>1. peReq'.id \in Ids
  BY DEF FlowStep, BInv, Inv, TypeOK
<1>2. ASSUME NEW u \in Units, Wants(u)', NEW l \in Lanes
      PROVE  Offered(l)'
  BY <1>1, <1>2, WantsNew, LaneStep
<1>3. QED
  BY <1>2 DEF TakenAtOnce

-----------------------------------------------------------------------------
(***************************************************************************)
(* The sequencer's counters.                                               *)
(***************************************************************************)
CountsUp(v) == Accepted /\ v \in target_vfus(araReq.r)
SomethingNew == \E i \in Ids : New(i)

\* A request is counted once, in the cycle in which it is accepted, and stalled
\* from then on until it is issued.
LEMMA StallStep ==
  ASSUME BInv, SequencerWaits,
         NEW laneDone, NEW unitDone, NEW free, NEW ack, NEW arrives,
         BackendCycle(laneDone, unitDone, free, ack, arrives)
  PROVE  /\ SequencerWaits'
         /\ ~SomethingNew => \A v : Stalled(v)' <=> Stalled(v) \/ CountsUp(v)
         /\ SomethingNew => \A v : /\ ~Stalled(v)'
                                   /\ Stalled(v) \/ CountsUp(v) <=> v \in target_vfus(araReq.r)
                                   /\ v \in target_vfus(araReq.r) => QueueIssue(v)
<1> DEFINE fuDone == laneDoneReg \cup {u \in Units : doneReg[PeOf(u)] # {}}
           sv == ScalarValid(unitDone)
<1>1. /\ state \in {"IDLE", "WAIT"} /\ token \in BOOLEAN
      /\ araReq \in [valid : BOOLEAN, r : Requests, token : BOOLEAN]
      /\ peReq \in [valid : BOOLEAN, id : Ids, r : Requests, hz : HazardType]
  BY DEF BInv, Inv, TypeOK
<1>2. Cycle(doneReg, fuDone, LanesReady, ack, sv)
  BY DEF BackendCycle
<1> HIDE DEF fuDone, sv
<1>3. ASSUME NEW ready \in BOOLEAN, Clock(doneReg, fuDone, LanesReady, ready)
      PROVE  /\ token' = IF araReq.valid THEN araReq.token ELSE token
             /\ ~ready => araReq' = araReq
             /\ ready => araReq'.token = IF araReq.valid THEN ~araReq.token ELSE araReq.token
             /\ ready /\ araReq.valid => token' # araReq'.token
  <2>1. token' = IF araReq.valid THEN araReq.token ELSE token
    BY <1>3 DEF Clock, Count
  <2>2. ~ready => araReq' = araReq
    BY <1>3 DEF Clock, Dispatch
  <2>3. ASSUME ready
        PROVE  araReq'.token = IF araReq.valid THEN ~araReq.token ELSE araReq.token
    <3>1. PICK valid \in BOOLEAN, r \in Requests :
            araReq' = [valid |-> valid, r |-> r,
                       token |-> IF araReq.valid THEN ~araReq.token ELSE araReq.token]
      BY <1>3, <2>3 DEF Clock, Dispatch
    <3>2. QED
      BY <3>1
  <2>4. QED
    BY <1>1, <2>1, <2>2, <2>3
<1>4. CASE HoldBroadcast(doneReg, fuDone, LanesReady)
  <2>1. /\ state = "IDLE" /\ state' = state /\ Stays /\ Clock(doneReg, fuDone, LanesReady, FALSE)
    BY <1>4 DEF HoldBroadcast, BroadcastStuck, Stays
  <2>2. ~SomethingNew
    BY <2>1 DEF SomethingNew, New
  <2>3. araReq' = araReq /\ token' = IF araReq.valid THEN araReq.token ELSE token
    BY <1>3, <2>1
  <2>4. QED
    BY <2>1, <2>2, <2>3 DEF SequencerWaits, Stalled, CountsUp, Accepted
<1>5. CASE NoRequest(doneReg, fuDone, LanesReady)
  <2>1. /\ state = "IDLE" /\ state' = state /\ ~araReq.valid /\ peReq' = NoPeReq
        /\ Clock(doneReg, fuDone, LanesReady, TRUE)
    BY <1>5 DEF NoRequest
  <2>2. ~SomethingNew
    BY <2>1 DEF SomethingNew, New, NoPeReq
  <2>3. araReq'.token = araReq.token /\ token' = token
    BY <1>3, <2>1
  <2>4. token # araReq.token
    BY <2>1 DEF SequencerWaits
  <2>5. QED
    BY <2>1, <2>2, <2>3, <2>4 DEF SequencerWaits, Stalled, CountsUp, Accepted
<1>6. CASE PEsBusy(doneReg, fuDone, LanesReady) \/ HazardStall(doneReg, fuDone, LanesReady)
  <2>1. /\ state = "IDLE" /\ state' = state /\ araReq.valid /\ peReq'.valid = FALSE
        /\ Clock(doneReg, fuDone, LanesReady, FALSE)
    <3>1. CASE PEsBusy(doneReg, fuDone, LanesReady)
      BY <3>1 DEF PEsBusy, NoPeReq
    <3>2. CASE HazardStall(doneReg, fuDone, LanesReady)
      BY <3>2 DEF HazardStall
    <3>3. QED
      BY <1>6, <3>1, <3>2
  <2>2. ~SomethingNew
    BY <2>1 DEF SomethingNew, New
  <2>3. araReq' = araReq /\ token' = araReq.token
    BY <1>3, <2>1
  <2>4. QED
    BY <2>1, <2>2, <2>3 DEF SequencerWaits, Stalled, CountsUp, Accepted
<1>7. CASE Issue(doneReg, fuDone, LanesReady)
  <2>1. /\ state = "IDLE" /\ ~Stays /\ araReq.valid /\ CanIssue
        /\ peReq' = [valid |-> TRUE, id |-> NextId, r |-> araReq.r, hz |-> Hazards(araReq.r)]
        /\ state' = IF NeedsAnswer(araReq.r) THEN "WAIT" ELSE "IDLE"
        /\ Clock(doneReg, fuDone, LanesReady, ~NeedsAnswer(araReq.r))
    BY <1>7 DEF Issue, BroadcastStuck, Stays
  <2>2. peReq'.valid /\ peReq'.r = araReq.r /\ peReq'.id = NextId
    BY <2>1
  <2>3. SomethingNew
    <3>1. NextId \in Ids
      BY <2>1, NextIdLemma DEF CanIssue
    <3>2. QED
      BY <2>1, <2>2, <3>1 DEF SomethingNew, New
  <2>4. token' = araReq.token
    BY <2>1 DEF Clock, Count
  <2>5. CASE NeedsAnswer(araReq.r)
    <3>1. Clock(doneReg, fuDone, LanesReady, FALSE)
      BY <2>1, <2>5
    <3>2. araReq' = araReq
      BY <1>3, <3>1
    <3>3. SequencerWaits' /\ \A v : ~Stalled(v)'
      BY <2>1, <2>2, <2>4, <2>5, <3>2 DEF SequencerWaits, Stalled
    <3>4. QED
      BY <2>1, <2>3, <3>3 DEF Stalled, CountsUp, Accepted, CanIssue
  <2>6. CASE ~NeedsAnswer(araReq.r)
    <3>1. Clock(doneReg, fuDone, LanesReady, TRUE)
      BY <2>1, <2>6
    <3>2. token' # araReq'.token
      BY <1>3, <2>1, <3>1
    <3>3. SequencerWaits' /\ \A v : ~Stalled(v)'
      BY <2>1, <2>6, <3>2 DEF SequencerWaits, Stalled
    <3>4. QED
      BY <2>1, <2>3, <3>3 DEF Stalled, CountsUp, Accepted, CanIssue
  <2>7. QED
    BY <2>5, <2>6
<1>8. CASE StayInWait(doneReg, fuDone, LanesReady, ack, sv)
  <2>1. /\ state = "WAIT" /\ state' = state /\ Clock(doneReg, fuDone, LanesReady, FALSE)
        /\ peReq'.r = peReq.r
    BY <1>1, <1>8 DEF StayInWait, BroadcastInWait
  <2>2. ~SomethingNew
    BY <1>1, <2>1, CycleShape DEF SomethingNew
  <2>3. araReq' = araReq /\ token' = IF araReq.valid THEN araReq.token ELSE token
    BY <1>3, <2>1
  <2>4. QED
    BY <2>1, <2>2, <2>3 DEF SequencerWaits, Stalled, CountsUp, Accepted
<1>9. CASE Answer(doneReg, fuDone, LanesReady, ack, sv)
  <2>1. /\ state = "WAIT" /\ state' = "IDLE" /\ Clock(doneReg, fuDone, LanesReady, TRUE)
        /\ peReq'.r = peReq.r
    BY <1>1, <1>9 DEF Answer, BroadcastInWait
  <2>2. ~SomethingNew
    BY <1>1, <2>1, CycleShape DEF SomethingNew
  <2>3. araReq.valid /\ token = araReq.token
    BY <2>1 DEF SequencerWaits
  <2>4. token' # araReq'.token
    BY <1>3, <2>1, <2>3
  <2>5. QED
    BY <2>1, <2>2, <2>3, <2>4 DEF SequencerWaits, Stalled, CountsUp, Accepted
<1>10. QED
  BY <1>2, <1>4, <1>5, <1>6, <1>7, <1>8, <1>9 DEF Cycle

\* The units whose counter counts down.
Finished(v) == v \in laneDoneReg \cup {u \in Units : doneReg[PeOf(u)] # {}}

\* What the counters say of a state.
LEMMA CountersSay ==
  ASSUME FlowInv, NEW v \in VFUs \ {"None"}
  PROVE  /\ cnt[v] \in 0 .. CntWrap - 1 /\ InsnQueueDepth[v] \in Nat /\ InsnQueueDepth[v] + 1 < CntWrap
         /\ CntWrap \in Nat
         /\ cnt[v] <= InsnQueueDepth[v] + One(Stalled(v))
         /\ Finished(v) => cnt[v] >= 1
<1>1. /\ cnt[v] \in 0 .. CntWrap - 1 /\ InsnQueueDepth[v] \in Nat /\ InsnQueueDepth[v] + 1 < CntWrap
      /\ CntWrap \in Nat /\ v \in LaneVFUs \cup Units /\ laneDoneReg \subseteq LaneVFUs
      /\ LaneVFUs \cap Units = {} /\ 0 \in Lanes
  <2>1. cnt \in [VFUs -> 0 .. CntWrap - 1] /\ laneDoneReg \subseteq LaneVFUs
    BY DEF FlowInv, BInv, Inv, TypeOK
  <2>2. /\ InsnQueueDepth[v] \in Nat /\ InsnQueueDepth[v] + 1 < CntWrap /\ CntWrap \in Nat
    BY DepthAssumption
  <2>3. v \in LaneVFUs \cup Units /\ LaneVFUs \cap Units = {}
    BY DEF VFUs, LaneVFUs, Units
  <2>4. 0 \in Lanes
    BY LaneZero
  <2>5. QED
    BY <2>1, <2>2, <2>3, <2>4
<1>2. cnt[v] <= InsnQueueDepth[v] + One(Stalled(v))
  BY DEF FlowInv, CountersBounded
<1>3. ASSUME Finished(v) PROVE cnt[v] >= 1
  <2>1. CASE v \in LaneVFUs
    <3>1. /\ One(v \in laneDoneReg) = 1 /\ Len(laneQueue[0][v]) \in Nat /\ One(Stalled(v)) \in Nat
          /\ One(Pending(0) # <<>> /\ v \in LaneUnit(Pending(0)[1].r)) \in Nat
          /\ One(laneReg[0] # <<>> /\ Offered(0) /\ v \in LaneUnit(peReq.r)) \in Nat
      <4>1. v \in laneDoneReg
        BY <1>1, <1>3, <2>1 DEF Finished
      <4>2. laneQueue[0][v] \in Seq(Ids)
        BY <1>1, <2>1 DEF FlowInv, BInv
      <4>3. QED
        BY <4>1, <4>2 DEF One
    <3>2. cnt[v] = Len(laneQueue[0][v]) + One(Stalled(v)) + One(v \in laneDoneReg)
                   + One(Pending(0) # <<>> /\ v \in LaneUnit(Pending(0)[1].r))
                   + One(laneReg[0] # <<>> /\ Offered(0) /\ v \in LaneUnit(peReq.r))
      BY <2>1 DEF FlowInv, CountersExact
    <3>3. QED
      BY <3>1, <3>2
  <2>2. CASE v \in Units
    <3>1. /\ One(doneReg[PeOf(v)] # {}) = 1 /\ Len(unitQueue[v]) \in Nat
          /\ One(Stalled(v)) \in Nat /\ One(Wants(v)) \in Nat
      <4>1. doneReg[PeOf(v)] # {}
        BY <1>1, <1>3, <2>2 DEF Finished
      <4>2. unitQueue[v] \in Seq(Ids)
        BY <1>1, <2>2 DEF FlowInv, BInv
      <4>3. QED
        BY <4>1, <4>2 DEF One
    <3>2. cnt[v] = Len(unitQueue[v]) + One(Stalled(v)) + One(doneReg[PeOf(v)] # {}) + One(Wants(v))
      BY <2>2 DEF FlowInv, CountersExact
    <3>3. QED
      BY <3>1, <3>2
  <2>3. QED
    BY <1>1, <2>1, <2>2
<1>4. QED
  BY <1>1, <1>2, <1>3

LEMMA CounterStep ==
  ASSUME NEW laneDone, NEW unitDone, NEW free, NEW ack, NEW arrives,
         FlowStep(laneDone, unitDone, free, ack, arrives),
         NEW v \in VFUs \ {"None"}
  PROVE  cnt'[v] = cnt[v] + One(CountsUp(v)) - One(Finished(v))
<1> DEFINE fuDone == laneDoneReg \cup {u \in Units : doneReg[PeOf(u)] # {}}
           up == CountsUp(v)
           down == Finished(v)
           c == cnt[v]
           d == InsnQueueDepth[v]
<1>1. /\ c \in 0 .. CntWrap - 1 /\ d \in Nat /\ d + 1 < CntWrap /\ CntWrap \in Nat
      /\ c <= d + One(Stalled(v)) /\ (down => c >= 1)
  BY CountersSay DEF FlowStep
<1>2. Cycle(doneReg, fuDone, LanesReady, ack, ScalarValid(unitDone))
  BY DEF FlowStep, BackendCycle
<1>3. down <=> v \in fuDone
  BY DEF Finished
<1> HIDE DEF fuDone
<1>4. \E ready : Clock(doneReg, fuDone, LanesReady, ready)
  BY <1>2 DEF Cycle, HoldBroadcast, NoRequest, PEsBusy, HazardStall, Issue, StayInWait, Answer
<1>5. cnt'[v] = IF up <=> v \in fuDone THEN c
                ELSE IF up THEN (c + 1) % CntWrap
                ELSE (c + CntWrap - 1) % CntWrap
  BY <1>4 DEF Clock, Count, CountsUp
<1>6. up => One(Stalled(v)) = 0
  BY DEF CountsUp, Accepted, Stalled, One
<1>7. One(up) = IF up THEN 1 ELSE 0
  BY DEF One
<1>8. One(down) = IF down THEN 1 ELSE 0
  BY DEF One
<1>9. One(Stalled(v)) \in {0, 1}
  BY DEF One
<1> HIDE DEF up, down, c, d
<1>10. CASE up /\ ~down
  <2>1. c + 1 \in 0 .. CntWrap - 1
    BY <1>1, <1>6, <1>10
  <2>2. (c + 1) % CntWrap = c + 1
    BY <1>1, <2>1
  <2>3. cnt'[v] = c + 1
    BY <1>3, <1>5, <1>10, <2>2
  <2>4. QED
    BY <1>1, <1>7, <1>8, <1>10, <2>3 DEF up, down, c
<1>11. CASE ~up /\ down
  <2>1. c - 1 \in 0 .. CntWrap - 1 /\ c + CntWrap - 1 = (c - 1) + CntWrap
    BY <1>1, <1>11
  <2>2. (c + CntWrap - 1) % CntWrap = c - 1
    BY <1>1, <2>1
  <2>3. cnt'[v] = c - 1
    BY <1>3, <1>5, <1>11, <2>2
  <2>4. QED
    BY <1>1, <1>7, <1>8, <1>11, <2>3 DEF up, down, c
<1>12. CASE up <=> down
  <2>1. cnt'[v] = c
    BY <1>3, <1>5, <1>12
  <2>2. QED
    BY <1>1, <1>7, <1>8, <1>12, <2>1 DEF up, down, c
<1>13. QED
  BY <1>10, <1>11, <1>12

LEMMA StallCount ==
  ASSUME NEW laneDone, NEW unitDone, NEW free, NEW ack, NEW arrives,
         FlowStep(laneDone, unitDone, free, ack, arrives),
         NEW v
  PROVE  /\ One(Stalled(v)) \in {0, 1} /\ One(CountsUp(v)) \in {0, 1}
         /\ ~SomethingNew => One(Stalled(v)') = One(Stalled(v)) + One(CountsUp(v))
         /\ SomethingNew => /\ One(Stalled(v)') = 0
                            /\ One(Stalled(v)) + One(CountsUp(v)) = One(v \in target_vfus(araReq.r))
<1>1. ~(Stalled(v) /\ CountsUp(v))
  BY DEF Stalled, CountsUp, Accepted
<1>2. /\ ~SomethingNew => (Stalled(v)' <=> Stalled(v) \/ CountsUp(v))
      /\ SomethingNew => /\ ~Stalled(v)'
                         /\ Stalled(v) \/ CountsUp(v) <=> v \in target_vfus(araReq.r)
  BY StallStep DEF FlowStep, FlowInv
<1>3. QED
  BY <1>1, <1>2 DEF One

LEMMA CountersBoundedStep ==
  ASSUME NEW laneDone, NEW unitDone, NEW free, NEW ack, NEW arrives,
         FlowStep(laneDone, unitDone, free, ack, arrives)
  PROVE  CountersBounded'
<1>1. SUFFICES ASSUME NEW v \in VFUs \ {"None"}
               PROVE  cnt'[v] <= InsnQueueDepth[v] + One(Stalled(v)')
  BY DEF CountersBounded
<1> DEFINE st == One(Stalled(v))
           up == One(CountsUp(v))
           down == One(Finished(v))
<1>2. cnt'[v] = cnt[v] + up - down
  BY CounterStep
<1>3. /\ cnt[v] \in Int /\ InsnQueueDepth[v] \in Nat /\ cnt[v] <= InsnQueueDepth[v] + st
      /\ st \in {0, 1} /\ up \in {0, 1} /\ down \in {0, 1}
  BY CountersSay, StallCount DEF FlowStep, One
<1>4. CASE ~SomethingNew
  <2>1. One(Stalled(v)') = st + up
    BY <1>4, StallCount
  <2> HIDE DEF st, up, down
  <2>2. QED
    BY <1>2, <1>3, <2>1
<1>5. CASE SomethingNew
  <2>1. One(Stalled(v)') = 0 /\ st + up = One(v \in target_vfus(araReq.r))
    BY <1>5, StallCount
  <2>2. v \in target_vfus(araReq.r) => cnt[v] < InsnQueueDepth[v] \/ (cnt[v] = InsnQueueDepth[v] /\ up = 0)
    <3>1. v \in target_vfus(araReq.r) => QueueIssue(v)
      BY <1>5, StallStep DEF FlowStep, FlowInv
    <3>2. PriorityPass(v) => cnt[v] = InsnQueueDepth[v] /\ up = 0
      BY DEF PriorityPass, CountsUp, Accepted, One
    <3>3. QED
      BY <3>1, <3>2 DEF QueueIssue
  <2>3. v \notin target_vfus(araReq.r) => st + up = 0
    BY <2>1 DEF One
  <2> HIDE DEF st, up, down
  <2>4. QED
    BY <1>2, <1>3, <2>1, <2>2, <2>3
<1>6. QED
  BY <1>4, <1>5

\* The instructions a lane has not executed yet, as the counters see them.
LEMMA OnWayCount ==
  ASSUME BInv, NEW v, NEW l
  PROVE  One(Pending(l) # <<>> /\ v \in LaneUnit(Pending(l)[1].r))
           + One(laneReg[l] # <<>> /\ Offered(l) /\ v \in LaneUnit(peReq.r))
         = One(laneReg[l] # <<>> /\ v \in LaneUnit(laneReg[l][1].r))
           + One(Offered(l) /\ v \in LaneUnit(peReq.r))
<1>1. CASE laneReg[l] # <<>>
  <2>1. Pending(l) = laneReg[l]
    BY <1>1 DEF Pending
  <2>2. QED
    BY <1>1, <2>1 DEF One
<1>2. CASE laneReg[l] = <<>> /\ Offered(l)
  <2>1. Pending(l) = <<[id |-> peReq.id, r |-> peReq.r]>>
    BY <1>2 DEF Pending, Handshake
  <2>2. Pending(l) # <<>> /\ Pending(l)[1].r = peReq.r
    BY <2>1
  <2>3. QED
    BY <1>2, <2>2 DEF One
<1>3. CASE laneReg[l] = <<>> /\ ~Offered(l)
  <2>1. Pending(l) = <<>>
    BY <1>3 DEF Pending, Handshake
  <2>2. QED
    BY <1>3, <2>1 DEF One
<1>4. QED
  BY <1>1, <1>2, <1>3

LEMMA OnWayCountNext ==
  ASSUME BInv', NEW v, NEW l
  PROVE  One(Pending(l)' # <<>> /\ v \in LaneUnit(Pending(l)'[1].r))
           + One(laneReg'[l] # <<>> /\ Offered(l)' /\ v \in LaneUnit(peReq'.r))
         = One(laneReg'[l] # <<>> /\ v \in LaneUnit(laneReg'[l][1].r))
           + One(Offered(l)' /\ v \in LaneUnit(peReq'.r))
<1>1. CASE laneReg'[l] # <<>>
  <2>1. Pending(l)' = laneReg'[l]
    BY <1>1 DEF Pending
  <2>2. QED
    BY <1>1, <2>1 DEF One
<1>2. CASE laneReg'[l] = <<>> /\ Offered(l)'
  <2>1. Pending(l)' = <<[id |-> peReq'.id, r |-> peReq'.r]>>
    BY <1>2 DEF Pending, Handshake
  <2>2. Pending(l)' # <<>> /\ Pending(l)'[1].r = peReq'.r
    BY <2>1
  <2>3. QED
    BY <1>2, <2>2 DEF One
<1>3. CASE laneReg'[l] = <<>> /\ ~Offered(l)'
  <2>1. Pending(l)' = <<>>
    BY <1>3 DEF Pending, Handshake
  <2>2. QED
    BY <1>3, <2>1 DEF One
<1>4. QED
  BY <1>1, <1>2, <1>3

\* What lane 0 executes finds room in its queue.
LEMMA LanePush ==
  ASSUME NEW laneDone, NEW unitDone, NEW free, NEW ack, NEW arrives,
         FlowStep(laneDone, unitDone, free, ack, arrives),
         NEW v \in LaneVFUs
  PROVE  Enters(0, free[0], v) /\ Len(laneQueue[0][v]) < InsnQueueDepth[v]
         <=> Executes(0, free[0]) /\ v \in LaneUnit(Pending(0)[1].r)
<1>1. FlowInv /\ 0 \in Lanes /\ v \in VFUs \ {"None"} /\ insn \in [Ids -> Requests]
  <2>1. FlowInv /\ insn \in [Ids -> Requests]
    BY DEF FlowStep, FlowInv, BInv, Inv, TypeOK
  <2>2. v \in VFUs \ {"None"} /\ 0 \in Lanes
    BY NrLanesAssumption DEF LaneVFUs, VFUs, Lanes
  <2>3. QED
    BY <2>1, <2>2
<1>2. SUFFICES ASSUME Executes(0, free[0]), v \in LaneUnit(Pending(0)[1].r)
               PROVE  ~Mutes(0, free[0]) /\ Len(laneQueue[0][v]) < InsnQueueDepth[v]
  BY <1>1, LaneStep DEF Enters, Starts
<1>3. Pending(0) # <<>>
  BY <1>2 DEF Executes
<1>4. ~Mutes(0, free[0])
  <2>1. Pending(0)[1].r \in Requests
    BY <1>1, <1>3, PendingIs
  <2>2. SUFFICES ASSUME vfu(Pending(0)[1].r.op) \in LaneVFUs, 0 >= Pending(0)[1].r.vl PROVE FALSE
    BY DEF Mutes
  <2>3. Pending(0)[1].r.vl > 0 /\ Pending(0)[1].r.vl \in Nat
    BY <2>1, <2>2, DispatcherAssumption, RequestsAssumption DEF LaneVFUs, RequestType
  <2>4. QED
    BY <2>2, <2>3
<1>5. Len(laneQueue[0][v]) < InsnQueueDepth[v]
  <2> DEFINE P == One(Pending(0) # <<>> /\ v \in LaneUnit(Pending(0)[1].r))
             O == One(laneReg[0] # <<>> /\ Offered(0) /\ v \in LaneUnit(peReq.r))
             d == One(v \in laneDoneReg)
             st == One(Stalled(v))
  <2>1. cnt[v] = Len(laneQueue[0][v]) + st + d + P + O
    BY <1>1 DEF FlowInv, CountersExact
  <2>2. P = 1
    BY <1>2, <1>3 DEF One
  <2>3. O \in Nat /\ d \in Nat /\ st \in Nat
    BY DEF One
  <2>4. Len(laneQueue[0][v]) \in Nat
    <3>1. laneQueue[0][v] \in Seq(Ids)
      BY <1>1 DEF FlowInv, BInv
    <3>2. QED
      BY <3>1
  <2>5. cnt[v] <= InsnQueueDepth[v] + st /\ InsnQueueDepth[v] \in Nat
    BY <1>1, CountersSay
  <2> HIDE DEF P, O, d, st
  <2>6. QED
    BY <2>1, <2>2, <2>3, <2>4, <2>5
<1>6. QED
  BY <1>4, <1>5

\* What is offered to lane 0 next, with what stalls.
LEMMA OfferCount ==
  ASSUME NEW laneDone, NEW unitDone, NEW free, NEW ack, NEW arrives,
         FlowStep(laneDone, unitDone, free, ack, arrives),
         NEW v \in LaneVFUs
  PROVE  One(Offered(0)' /\ v \in LaneUnit(peReq'.r)) + One(Stalled(v)')
         = One(laneReg[0] # <<>> /\ Offered(0) /\ v \in LaneUnit(peReq.r))
           + One(Stalled(v)) + One(CountsUp(v))
<1>1. /\ FlowInv /\ BInv /\ BInv' /\ BackendCycle(laneDone, unitDone, free, ack, arrives)
      /\ 0 \in Lanes /\ peReq.r \in Requests /\ peReq'.id \in Ids
  BY LaneZero DEF FlowStep, FlowInv, BInv, Inv, TypeOK
<1>2. ~Stays => ~(laneReg[0] # <<>> /\ Offered(0) /\ v \in LaneUnit(peReq.r))
  <2>1. SUFFICES ASSUME ~Stays, laneReg[0] # <<>>, Offered(0), v \in LaneUnit(peReq.r) PROVE FALSE
    OBVIOUS
  <2>2. NeedsNoLane(peReq.r)
    BY <1>1, <2>1 DEF Stays, Offered, LanesReady
  <2>3. QED
    BY <1>1, <2>1, <2>2, QueuesShape
<1>3. CASE ~SomethingNew
  <2>1. One(Stalled(v)') = One(Stalled(v)) + One(CountsUp(v))
    BY <1>3, StallCount
  <2>2. Offered(0)' /\ v \in LaneUnit(peReq'.r) <=>
          laneReg[0] # <<>> /\ Offered(0) /\ v \in LaneUnit(peReq.r)
    <3>1. CASE Stays
      BY <1>1, <3>1, LaneStep, CycleShape
    <3>2. CASE ~Stays
      <4>1. ~peReq'.valid
        BY <1>1, <1>3, <3>2 DEF SomethingNew, New
      <4>2. QED
        BY <1>2, <3>2, <4>1 DEF Offered
    <3>3. QED
      BY <3>1, <3>2
  <2>3. /\ One(Offered(0)' /\ v \in LaneUnit(peReq'.r))
             = One(laneReg[0] # <<>> /\ Offered(0) /\ v \in LaneUnit(peReq.r))
        /\ One(Offered(0)' /\ v \in LaneUnit(peReq'.r)) \in {0, 1}
    BY <2>2 DEF One
  <2>4. One(Stalled(v)) \in {0, 1} /\ One(CountsUp(v)) \in {0, 1}
    BY StallCount
  <2>5. QED
    BY <2>1, <2>3, <2>4
<1>4. CASE SomethingNew
  <2>1. PICK i \in Ids : New(i)
    BY <1>4 DEF SomethingNew
  <2>2. ~Stays /\ Offered(0)' /\ peReq'.r = araReq.r
    BY <1>1, <2>1, LaneStep, CycleShape DEF New
  <2>3. One(Stalled(v)') = 0 /\ One(Stalled(v)) + One(CountsUp(v)) = One(v \in target_vfus(araReq.r))
    BY <1>4, StallCount
  <2>4. One(laneReg[0] # <<>> /\ Offered(0) /\ v \in LaneUnit(peReq.r)) = 0
    BY <1>2, <2>2 DEF One
  <2>5. /\ One(Offered(0)' /\ v \in LaneUnit(peReq'.r)) = One(v \in target_vfus(araReq.r))
        /\ One(v \in target_vfus(araReq.r)) \in {0, 1}
    BY <2>2 DEF LaneUnit, One
  <2>6. One(Stalled(v)) \in {0, 1} /\ One(CountsUp(v)) \in {0, 1}
    BY StallCount
  <2>7. QED
    BY <2>3, <2>4, <2>5, <2>6
<1>5. QED
  BY <1>3, <1>4

LEMMA LaneCountersStep ==
  ASSUME NEW laneDone, NEW unitDone, NEW free, NEW ack, NEW arrives,
         FlowStep(laneDone, unitDone, free, ack, arrives),
         NEW v \in LaneVFUs
  PROVE  cnt'[v] = Len(laneQueue'[0][v]) + One(Stalled(v)') + One(v \in laneDoneReg')
                   + One(Pending(0)' # <<>> /\ v \in LaneUnit(Pending(0)'[1].r))
                   + One(laneReg'[0] # <<>> /\ Offered(0)' /\ v \in LaneUnit(peReq'.r))
<1> DEFINE exec == Executes(0, free[0]) /\ v \in LaneUnit(Pending(0)[1].r)
           P == One(Pending(0) # <<>> /\ v \in LaneUnit(Pending(0)[1].r))
           O == One(laneReg[0] # <<>> /\ Offered(0) /\ v \in LaneUnit(peReq.r))
           A1 == One(laneReg'[0] # <<>> /\ v \in LaneUnit(laneReg'[0][1].r))
           B1 == One(Offered(0)' /\ v \in LaneUnit(peReq'.r))
           P1 == One(Pending(0)' # <<>> /\ v \in LaneUnit(Pending(0)'[1].r))
           O1 == One(laneReg'[0] # <<>> /\ Offered(0)' /\ v \in LaneUnit(peReq'.r))
           d == One(v \in laneDoneReg)
           d1 == One(v \in laneDoneReg')
           st == One(Stalled(v))
           st1 == One(Stalled(v)')
           up == One(CountsUp(v))
           n == Len(laneQueue[0][v])
           n1 == Len(laneQueue'[0][v])
           push == One(exec)
<1>1. /\ FlowInv /\ BInv /\ BInv' /\ 0 \in Lanes
      /\ laneQueue \in [Lanes -> [LaneVFUs -> Seq(Ids)]]
      /\ laneQueue' \in [Lanes -> [LaneVFUs -> Seq(Ids)]]
      /\ laneDoneReg' = FinishingIn(laneDone, 0)
  <2>1. 0 \in Lanes
    BY LaneZero
  <2>2. laneDoneReg' = FinishingIn(laneDone, 0)
    BY DEF FlowStep, BackendCycle
  <2>3. QED
    BY <2>1, <2>2 DEF FlowStep, FlowInv, BInv
<1>2. n \in Nat /\ n1 \in Nat
  BY <1>1
<1>3. n1 = n - d1 + push
  <2>1. v \in laneDoneReg' <=> <<0, v>> \in laneDone
    BY <1>1 DEF FinishingIn
  <2>2. Enters(0, free[0], v) /\ Len(laneQueue[0][v]) < InsnQueueDepth[v] <=> exec
    BY LanePush
  <2>3. n1 = n - One(<<0, v>> \in laneDone)
             + One(Enters(0, free[0], v) /\ Len(laneQueue[0][v]) < InsnQueueDepth[v])
    BY <1>1, LaneQueueStep
  <2>4. One(<<0, v>> \in laneDone) = d1
    BY <2>1 DEF One
  <2>5. One(Enters(0, free[0], v) /\ Len(laneQueue[0][v]) < InsnQueueDepth[v]) = push
    BY <2>2 DEF One
  <2>6. QED
    BY <2>3, <2>4, <2>5
<1>4. cnt'[v] = cnt[v] + up - d
  <2>1. v \in VFUs \ {"None"} /\ v \notin Units
    BY DEF LaneVFUs, VFUs, Units
  <2>2. One(Finished(v)) = d
    BY <2>1 DEF Finished, One
  <2>3. cnt'[v] = cnt[v] + One(CountsUp(v)) - One(Finished(v))
    BY <2>1, CounterStep
  <2>4. QED
    BY <2>2, <2>3
<1>5. cnt[v] = n + st + d + P + O
  BY <1>1 DEF FlowInv, CountersExact
<1>6. push + A1 = P
  <2>1. laneReg'[0] = IF Executes(0, free[0]) THEN <<>> ELSE Pending(0)
    BY <1>1, LaneStep
  <2>2. Executes(0, free[0]) => Pending(0) # <<>>
    BY DEF Executes
  <2>3. QED
    BY <2>1, <2>2 DEF One
<1>7. P1 + O1 = A1 + B1
  BY <1>1, OnWayCountNext
<1>8. B1 + st1 = O + st + up
  BY OfferCount
<1>9. /\ P \in {0, 1} /\ O \in {0, 1} /\ A1 \in {0, 1} /\ B1 \in {0, 1} /\ P1 \in {0, 1} /\ O1 \in {0, 1}
      /\ d \in {0, 1} /\ d1 \in {0, 1} /\ st \in {0, 1} /\ st1 \in {0, 1} /\ up \in {0, 1}
      /\ push \in {0, 1}
  BY DEF One
<1> HIDE DEF exec, P, O, A1, B1, P1, O1, d, d1, st, st1, up, n, n1, push
<1>10. cnt'[v] = n1 + st1 + d1 + P1 + O1
  BY <1>2, <1>3, <1>4, <1>5, <1>6, <1>7, <1>8, <1>9
<1>11. QED
  BY <1>10 DEF P1, O1, d1, st1, n1

LEMMA UnitCountersStep ==
  ASSUME NEW laneDone, NEW unitDone, NEW free, NEW ack, NEW arrives,
         FlowStep(laneDone, unitDone, free, ack, arrives),
         NEW u \in Units
  PROVE  cnt'[u] = Len(unitQueue'[u]) + One(Stalled(u)') + One(doneReg'[PeOf(u)] # {})
                   + One(Wants(u)')
<1> DEFINE w == One(Wants(u))
           w1 == One(Wants(u)')
           d == One(doneReg[PeOf(u)] # {})
           d1 == One(doneReg'[PeOf(u)] # {})
           st == One(Stalled(u))
           st1 == One(Stalled(u)')
           up == One(CountsUp(u))
           n == Len(unitQueue[u])
           n1 == Len(unitQueue'[u])
<1>1. /\ FlowInv /\ BInv /\ BInv' /\ BackendCycle(laneDone, unitDone, free, ack, arrives)
      /\ araReq.r \in Requests /\ peReq'.id \in Ids
      /\ unitQueue \in [Units -> Seq(Ids)] /\ unitQueue' \in [Units -> Seq(Ids)]
  BY DEF FlowStep, FlowInv, BInv, Inv, TypeOK
<1>2. n \in Nat /\ n1 \in Nat
  BY <1>1
<1>3. n1 = n - d1 + w
  <2>1. doneReg'[PeOf(u)] # {} <=> u \in unitDone
    <3>1. doneReg' = DoneNext(laneDone, unitDone, free) /\ unitDone \subseteq Units
      BY ChoicesLemma DEF FlowStep, BackendCycle
    <3>2. doneReg'[PeOf(u)] = {Head(unitQueue[x]) : x \in {y \in unitDone : PeOf(y) = PeOf(u)}}
      BY <3>1, PeOfLemma DEF DoneNext
    <3>3. \A x \in unitDone : PeOf(x) = PeOf(u) <=> x = u
      BY <3>1, PeOfLemma
    <3>4. QED
      BY <3>2, <3>3
  <2>2. n1 = n - One(u \in unitDone) + One(Accepts(u))
    BY UnitQueueStep
  <2>3. One(u \in unitDone) = d1
    BY <2>1 DEF One
  <2>4. One(Accepts(u)) = w
    BY <1>1, WantsAccepts DEF One
  <2>5. QED
    BY <2>2, <2>3, <2>4
<1>4. cnt'[u] = cnt[u] + up - d
  <2>1. u \in VFUs \ {"None"} /\ u \notin LaneVFUs
    BY DEF LaneVFUs, VFUs, Units
  <2>2. laneDoneReg \subseteq LaneVFUs
    BY <1>1 DEF BInv
  <2>3. One(Finished(u)) = d
    BY <2>1, <2>2 DEF Finished, One
  <2>4. cnt'[u] = cnt[u] + One(CountsUp(u)) - One(Finished(u))
    BY <2>1, CounterStep
  <2>5. QED
    BY <2>3, <2>4
<1>5. cnt[u] = n + st + d + w
  BY <1>1 DEF FlowInv, CountersExact
<1>6. w1 + st1 = st + up
  <2>1. Wants(u)' <=> New(peReq'.id) /\ Takes(u, peReq'.r)
    BY WantsNew
  <2>2. CASE SomethingNew
    <3>1. New(peReq'.id) /\ peReq'.r = araReq.r
      BY <1>1, <2>2, CycleShape DEF SomethingNew, New
    <3>2. Wants(u)' <=> u \in target_vfus(araReq.r)
      BY <1>1, <2>1, <3>1, QueuesShape
    <3>3. w1 = One(u \in target_vfus(araReq.r))
      BY <3>2 DEF One
    <3>4. st1 = 0 /\ st + up = One(u \in target_vfus(araReq.r)) /\ w1 \in {0, 1}
      BY <2>2, StallCount DEF One
    <3>5. QED
      BY <3>3, <3>4
  <2>3. CASE ~SomethingNew
    <3>1. w1 = 0
      BY <1>1, <2>1, <2>3 DEF SomethingNew, One
    <3>2. st1 = st + up /\ st \in {0, 1} /\ up \in {0, 1}
      BY <2>3, StallCount
    <3>3. QED
      BY <3>1, <3>2
  <2>4. QED
    BY <2>2, <2>3
<1>7. /\ w \in {0, 1} /\ w1 \in {0, 1} /\ d \in {0, 1} /\ d1 \in {0, 1}
      /\ st \in {0, 1} /\ st1 \in {0, 1} /\ up \in {0, 1}
  BY DEF One
<1> HIDE DEF w, w1, d, d1, st, st1, up, n, n1
<1>8. cnt'[u] = n1 + st1 + d1 + w1
  BY <1>2, <1>3, <1>4, <1>5, <1>6, <1>7
<1>9. QED
  BY <1>8 DEF w1, d1, st1, n1

LEMMA CountersExactStep ==
  ASSUME NEW laneDone, NEW unitDone, NEW free, NEW ack, NEW arrives,
         FlowStep(laneDone, unitDone, free, ack, arrives)
  PROVE  CountersExact'
BY LaneCountersStep, UnitCountersStep DEF CountersExact

-----------------------------------------------------------------------------
(***************************************************************************)
(* Who is waited for.                                                      *)
(***************************************************************************)
LEMMA AnsweredBroadcastStep ==
  ASSUME NEW laneDone, NEW unitDone, NEW free, NEW ack, NEW arrives,
         FlowStep(laneDone, unitDone, free, ack, arrives)
  PROVE  AnsweredBroadcast'
<1>1. /\ FlowInv /\ BInv /\ BackendCycle(laneDone, unitDone, free, ack, arrives)
      /\ araReq.r \in Requests /\ peReq'.id \in Ids /\ state \in {"IDLE", "WAIT"}
  BY DEF FlowStep, FlowInv, BInv, Inv, TypeOK
<1>2. SUFFICES ASSUME state' = "IDLE", peReq'.valid
               PROVE  peReq'.r.op \notin {"VCPOP", "VMVXS"}
  BY DEF AnsweredBroadcast
<1>3. CASE New(peReq'.id)
  <2>1. peReq'.r = araReq.r /\ ~NeedsAnswer(araReq.r)
    BY <1>1, <1>2, <1>3, CycleShape
  <2>2. QED
    BY <1>1, <2>1, DispatcherAssumption DEF NeedsAnswer
<1>4. CASE ~New(peReq'.id)
  <2>1. Stays /\ peReq.valid /\ ~LanesReady
    BY <1>2, <1>4 DEF New, Stays
  <2>2. peReq'.r = peReq.r
    BY <1>1, <2>1, CycleShape
  <2>3. CASE state = "IDLE"
    BY <1>1, <2>1, <2>2, <2>3 DEF FlowInv, AnsweredBroadcast
  <2>4. CASE state = "WAIT"
    <3>1. SUFFICES ASSUME peReq.r.op \in {"VMVXS", "VCPOP"} PROVE FALSE
      BY <2>2
    <3>2. InAllLanes(peReq.id)
      BY <1>2, <2>4, <3>1, AnswerAfterAll
    <3>3. QED
      BY <1>1, <2>1, <3>2, AllSampled
  <2>5. QED
    BY <1>1, <2>3, <2>4
<1>5. QED
  BY <1>3, <1>4

LEMMA CountsWaitStep ==
  ASSUME NEW laneDone, NEW unitDone, NEW free, NEW ack, NEW arrives,
         FlowStep(laneDone, unitDone, free, ack, arrives)
  PROVE  CountsWait'
<1>1. /\ FlowInv /\ BInv /\ BInv' /\ BackendCycle(laneDone, unitDone, free, ack, arrives)
      /\ peReq.id \in Ids /\ state \in {"IDLE", "WAIT"}
      /\ unitQueue \in [Units -> Seq(Ids)] /\ unitQueue' \in [Units -> Seq(Ids)]
  BY DEF FlowStep, FlowInv, BInv, Inv, TypeOK
<1>2. "MaskUnit" \in Units
  BY DEF Units
<1>3. SUFFICES ASSUME NEW i \in Elements(unitQueue'["MaskUnit"]), insn'[i].op = "VCPOP"
               PROVE  state' = "WAIT" /\ i = peReq'.id /\ peReq'.r.op = "VCPOP"
  BY DEF CountsWait
<1>4. i \in Ids
  BY <1>1, <1>2 DEF Elements
<1>5. CASE /\ i \in Elements(unitQueue["MaskUnit"])
           /\ ~("MaskUnit" \in unitDone /\ i = Head(unitQueue["MaskUnit"]))
  <2>1. insn'[i] = insn[i]
    BY <1>1, <1>2, <1>4, <1>5, NotNew, CycleShape
  <2>2. state = "WAIT" /\ i = peReq.id /\ peReq.r.op = "VCPOP"
    BY <1>1, <1>3, <1>5, <2>1 DEF FlowInv, CountsWait
  <2>3. state' # "IDLE"
    BY <1>5, <2>2, AnswerStep
  <2>4. QED
    BY <1>1, <2>2, <2>3, CycleShape
<1>6. CASE Accepts("MaskUnit") /\ i = peReq.id
  <2>1. /\ peReq.valid /\ peReq.r = insn[i] /\ insn'[i] = insn[i] /\ i \notin unitRun["MaskUnit"]
    BY <1>1, <1>4, <1>6, NotNew, CycleShape DEF Accepts, Wants, FlowInv, Known
  <2>2. state = "WAIT"
    BY <1>1, <1>3, <2>1 DEF FlowInv, AnsweredBroadcast
  <2>3. state' # "IDLE"
    <3>1. SUFFICES ASSUME state' = "IDLE" PROVE FALSE
      OBVIOUS
    <3>2. unitQueue["MaskUnit"] # <<>> /\ Head(unitQueue["MaskUnit"]) = i
      BY <1>3, <1>6, <2>1, <2>2, <3>1, AnswerStep
    <3>3. i \in Elements(unitQueue["MaskUnit"])
      BY <1>1, <1>2, <3>2, TailElements
    <3>4. QED
      BY <1>1, <1>2, <2>1, <3>3 DEF FlowInv, UnitQueues
  <2>4. QED
    BY <1>1, <1>3, <1>6, <2>1, <2>2, <2>3, CycleShape
<1>7. QED
  BY <1>2, <1>3, <1>5, <1>6, UnitQueueStep

\* Under MovesApart only a scalar move leaves an operand in the MaskB queue.
LEMMA OnlyMovesRequest ==
  ASSUME MovesApart, NEW r \in Requests
  PROVE  ~ReadsMaskB(r) /\ (RequestsMaskB(r) <=> r.op = "VMVXS")
BY DispatcherAssumption DEF MovesApart, ReadsMaskB, RequestsMaskB

LEMMA MaskUnitRunsStep ==
  ASSUME NEW laneDone, NEW unitDone, NEW free, NEW ack, NEW arrives,
         FlowStep(laneDone, unitDone, free, ack, arrives)
  PROVE  MaskUnitRuns'
<1>1. /\ FlowInv /\ BInv /\ BInv' /\ BackendCycle(laneDone, unitDone, free, ack, arrives)
      /\ peReq.id \in Ids /\ peReq.r \in Requests /\ state \in {"IDLE", "WAIT"}
  BY DEF FlowStep, FlowInv, BInv, Inv, TypeOK
<1>2. "MaskUnit" \in Units /\ PeOf("MaskUnit") = PeMask
  BY DEF Units, PeOf
<1>3. SUFFICES ASSUME runningMask', NEW r \in Requests, r.op = "VMVXS"
               PROVE  \/ state' = "WAIT" /\ peReq'.r.op = "VCPOP"
                      \/ state' = "IDLE" /\ doneReg'[PeMask] # {}
  BY DEF MaskUnitRuns
<1>4. \A q \in Requests : vfu(q.op) = "MaskUnit" => q.op = "VCPOP"
  BY <1>3 DEF FlowStep, MovesApart
<1>5. \E ready : Clock(doneReg, laneDoneReg \cup {u \in Units : doneReg[PeOf(u)] # {}},
                       LanesReady, ready)
  BY <1>1 DEF BackendCycle, Cycle, HoldBroadcast, NoRequest, PEsBusy, HazardStall, Issue,
              StayInWait, Answer
<1>6. \/ peReq.valid /\ LanesReady /\ vfu(peReq.r.op) = "MaskUnit"
      \/ runningMask /\ doneReg[PeMask] = {}
  BY <1>3, <1>5 DEF Clock, TrackMask
<1>7. state = "WAIT" /\ peReq.r.op = "VCPOP"
  <2>1. CASE peReq.valid /\ LanesReady /\ vfu(peReq.r.op) = "MaskUnit"
    BY <1>1, <1>4, <2>1 DEF FlowInv, AnsweredBroadcast
  <2>2. CASE runningMask /\ doneReg[PeMask] = {}
    BY <1>1, <1>3, <2>2 DEF FlowInv, MaskUnitRuns
  <2>3. QED
    BY <1>6, <2>1, <2>2
<1>8. peReq'.r = peReq.r /\ state' \in {"IDLE", "WAIT"}
  BY <1>1, <1>7, CycleShape
<1>9. state' = "IDLE" => doneReg'[PeMask] # {}
  <2>1. SUFFICES ASSUME state' = "IDLE" PROVE doneReg'[PeMask] # {}
    OBVIOUS
  <2>2. "MaskUnit" \in unitDone /\ Head(unitQueue["MaskUnit"]) = peReq.id
    BY <1>7, <2>1, AnswerStep
  <2>3. QED
    BY <1>1, <1>2, <2>2, DoneStep
<1>10. QED
  BY <1>7, <1>8, <1>9

\* The MaskB queue after a cycle.
LEMMA MaskBShape ==
  ASSUME NEW laneDone, NEW unitDone, NEW free, NEW ack, NEW arrives,
         FlowStep(laneDone, unitDone, free, ack, arrives)
  PROVE  LET pops == ScalarReady(unitDone) /\ maskBValid
             kept == IF pops THEN Tail(maskB) ELSE maskB
             pushes == Starts(0, free[0]) /\ Pending(0)[1].r.op = "VMVXS"
         IN /\ maskB' = IF pushes THEN Append(kept, [id |-> Pending(0)[1].id, scalar |-> TRUE]) ELSE kept
            /\ maskBValid' <=> kept # <<>> /\ ((maskBValid /\ ~pops) \/ arrives)
<1> DEFINE i == Head(unitQueue["MaskUnit"])
<1>1. FlowInv /\ MovesApart /\ 0 \in Lanes
  BY LaneZero DEF FlowStep
<1>2. ~("MaskUnit" \in unitDone /\ ReadsMaskB(insn[i]))
  <2>1. SUFFICES ASSUME "MaskUnit" \in unitDone PROVE ~ReadsMaskB(insn[i])
    OBVIOUS
  <2>2. unitQueue["MaskUnit"] # <<>>
    BY <2>1, ChoicesLemma DEF FlowStep, UnitMayFinish
  <2>3. unitQueue["MaskUnit"] \in Seq(Ids) /\ insn \in [Ids -> Requests]
    BY <1>1 DEF FlowInv, BInv, Units, Inv, TypeOK
  <2>4. i \in Ids
    BY <2>2, <2>3, HeadTail
  <2>5. QED
    BY <1>1, <2>3, <2>4, OnlyMovesRequest
<1>3. Starts(0, free[0]) => (RequestsMaskB(Pending(0)[1].r) <=> Pending(0)[1].r.op = "VMVXS")
  <2>1. SUFFICES ASSUME Pending(0) # <<>>
                 PROVE  RequestsMaskB(Pending(0)[1].r) <=> Pending(0)[1].r.op = "VMVXS"
    BY DEF Starts, Executes
  <2>2. Pending(0)[1].r \in Requests
    <3>1. Pending(0)[1].id \in Ids /\ Pending(0)[1].r = insn[Pending(0)[1].id]
      BY <1>1, <2>1, PendingIs
    <3>2. insn \in [Ids -> Requests]
      BY <1>1 DEF FlowInv, BInv, Inv, TypeOK
    <3>3. QED
      BY <3>1, <3>2
  <2>3. QED
    BY <1>1, <2>2, OnlyMovesRequest
<1>4. MaskBStep(unitDone, free[0], arrives)
  BY DEF FlowStep, BackendCycle
<1> HIDE DEF i
<1>5. QED
  BY <1>2, <1>3, <1>4 DEF MaskBStep, i

LEMMA OperandIsMovesStep ==
  ASSUME NEW laneDone, NEW unitDone, NEW free, NEW ack, NEW arrives,
         FlowStep(laneDone, unitDone, free, ack, arrives)
  PROVE  OperandIsMoves'
<1> DEFINE pops == ScalarReady(unitDone) /\ maskBValid
           kept == IF pops THEN Tail(maskB) ELSE maskB
           pushes == Starts(0, free[0]) /\ Pending(0)[1].r.op = "VMVXS"
           own(i) == <<[id |-> i, scalar |-> TRUE]>>
<1>1. /\ FlowInv /\ BInv /\ BInv' /\ BackendCycle(laneDone, unitDone, free, ack, arrives)
      /\ peReq.id \in Ids /\ peReq.r \in Requests /\ state \in {"IDLE", "WAIT"}
      /\ (maskBValid => maskB # <<>>)
  BY DEF FlowStep, FlowInv, BInv, Inv, TypeOK
<1>2. maskB' = IF pushes THEN Append(kept, [id |-> Pending(0)[1].id, scalar |-> TRUE]) ELSE kept
  BY MaskBShape
<1>3. 0 \in Lanes
  BY LaneZero
<1>4. ASSUME state = "WAIT", ~OnItsWay(0, peReq.id) \/ Executed(0, peReq.id, free)
      PROVE  /\ ~OnItsWay(0, peReq.id)' /\ peReq'.id = peReq.id /\ peReq'.r = peReq.r
             /\ state' \in {"IDLE", "WAIT"}
  <2>1. PICK i \in Ids : i = peReq.id
    BY <1>1
  <2>2. /\ ~New(i) /\ peReq'.id = peReq.id /\ peReq'.r = peReq.r
        /\ state' \in {"IDLE", "WAIT"}
    BY <1>1, <1>4, CycleShape
  <2>3. ~OnItsWay(0, i) \/ Executed(0, i, free)
    BY <1>4, <2>1
  <2>4. ~OnItsWay(0, i)'
    BY <1>3, <2>2, <2>3, WayStep
  <2>5. peReq'.id = i
    BY <2>1, <2>2
  <2>6. ~OnItsWay(0, peReq.id)'
    BY <2>4, <2>5 DEF OnItsWay
  <2>7. QED
    BY <2>2, <2>6
<1>5. CASE pushes
  <2>1. Pending(0) # <<>> /\ Executed(0, Pending(0)[1].id, free) /\ Pending(0)[1].r.op = "VMVXS"
    BY <1>5 DEF Starts, Executes, Executed
  <2>2. /\ Pending(0)[1].id \in Ids /\ OnItsWay(0, Pending(0)[1].id)
        /\ insn[Pending(0)[1].id].op = "VMVXS"
    BY <1>1, <1>3, <2>1, PendingIs
  <2>3. state = "WAIT" /\ peReq.id = Pending(0)[1].id /\ peReq.r.op = "VMVXS"
    BY <1>1, <1>3, <2>2 DEF FlowInv, MovesWait
  <2>4. maskB = <<>>
    BY <1>1, <2>2, <2>3 DEF FlowInv, OperandIsMoves
  <2>5. kept = <<>>
    BY <1>1, <2>4
  <2>6. maskB' = own(peReq.id)
    <3> DEFINE x == [id |-> peReq.id, scalar |-> TRUE]
    <3>1. maskB' = Append(kept, x)
      BY <1>2, <1>5, <2>3
    <3> HIDE DEF x, kept
    <3>2. maskB' = Append(<<>>, x)
      BY <2>5, <3>1
    <3>3. maskB' = <<x>>
      BY <3>2
    <3>4. QED
      BY <3>3 DEF x
  <2>7. ~InAllLanes(peReq.id)
    BY <1>3, <2>2, <2>3, InAllLanesDef
  <2>8. state' # "IDLE"
    BY <2>3, <2>7, AnswerAfterAll
  <2>9. /\ ~OnItsWay(0, peReq.id)' /\ peReq'.id = peReq.id /\ peReq'.r = peReq.r
        /\ state' \in {"IDLE", "WAIT"}
    BY <1>4, <2>1, <2>3
  <2>10. QED
    BY <2>3, <2>6, <2>8, <2>9 DEF OperandIsMoves
<1>6. CASE ~pushes /\ maskB = <<>>
  <2>1. maskB' = <<>>
    BY <1>1, <1>2, <1>6
  <2>2. QED
    BY <2>1 DEF OperandIsMoves
<1>7. CASE ~pushes /\ maskB # <<>>
  <2>1. /\ state = "WAIT" /\ peReq.r.op = "VMVXS" /\ ~OnItsWay(0, peReq.id)
        /\ maskB = own(peReq.id)
    BY <1>1, <1>7 DEF FlowInv, OperandIsMoves
  <2>2. /\ ~OnItsWay(0, peReq.id)' /\ peReq'.id = peReq.id /\ peReq'.r = peReq.r
        /\ state' \in {"IDLE", "WAIT"}
    BY <1>4, <2>1
  <2>3. maskB' = kept
    BY <1>2, <1>7
  <2>4. CASE pops
    <3>1. maskB' = <<>>
      BY <2>1, <2>3, <2>4
    <3>2. QED
      BY <3>1 DEF OperandIsMoves
  <2>5. CASE ~pops
    <3>1. state' # "IDLE"
      <4>1. SUFFICES ASSUME state' = "IDLE" PROVE pops
        BY <2>5
      <4>2. maskBValid
        BY <2>1, <4>1, AnswerStep
      <4>3. ~runningMask
        BY <1>1, <2>1 DEF FlowInv, MaskUnitRuns
      <4>4. ScalarValid(unitDone)
        BY <2>1, <4>2 DEF ScalarValid
      <4>5. araReq.r = peReq.r /\ peReq.r.vd = {}
        BY <1>1, <2>1, DispatcherAssumption DEF FlowInv, SequencerWaits
      <4>6. QED
        BY <2>1, <4>2, <4>3, <4>4, <4>5 DEF ScalarReady, ScalarAnswer
    <3>2. maskB' = own(peReq'.id)
      BY <2>1, <2>2, <2>3, <2>5
    <3>3. QED
      BY <2>1, <2>2, <3>1, <3>2 DEF OperandIsMoves
  <2>6. QED
    BY <2>4, <2>5
<1>8. QED
  BY <1>5, <1>6, <1>7

LEMMA OperandComesLastStep ==
  ASSUME NEW laneDone, NEW unitDone, NEW free, NEW ack, NEW arrives,
         FlowStep(laneDone, unitDone, free, ack, arrives)
  PROVE  OperandComesLast'
<1>1. /\ FlowInv /\ BInv /\ BInv' /\ BackendCycle(laneDone, unitDone, free, ack, arrives)
      /\ peReq.id \in Ids /\ ~OutrunLanes /\ (maskBValid => maskB # <<>>)
      /\ arrives \in ArrivalChoices
  BY DEF FlowStep, FlowInv, BInv, Inv, TypeOK
<1>2. SUFFICES ASSUME maskBValid' PROVE \A l \in Lanes : ~OnItsWay(l, peReq.id)'
  BY DEF OperandComesLast, InAllLanes, OnItsWay
<1>3. maskBValid \/ arrives
  BY <1>2, MaskBShape
<1>4. arrives \in BOOLEAN /\ (arrives => maskB # <<>> /\ InAllLanes(maskB[1].id))
  BY <1>1 DEF ArrivalChoices
<1>5. state = "WAIT" /\ maskB = <<[id |-> peReq.id, scalar |-> TRUE]>>
  BY <1>1, <1>3, <1>4 DEF FlowInv, OperandIsMoves
<1>6. InAllLanes(peReq.id)
  <2>1. CASE maskBValid
    BY <1>1, <2>1 DEF FlowInv, OperandComesLast
  <2>2. CASE arrives
    BY <1>4, <1>5, <2>2
  <2>3. QED
    BY <1>3, <2>1, <2>2
<1>7. PICK i \in Ids : i = peReq.id
  BY <1>1
<1>8. peReq'.id = i /\ ~New(i)
  BY <1>1, <1>5, <1>7, CycleShape
<1>9. \A l \in Lanes : ~OnItsWay(l, i)
  BY <1>6, <1>7, InAllLanesDef
<1>10. ASSUME NEW l \in Lanes PROVE ~OnItsWay(l, peReq.id)'
  <2>1. ~OnItsWay(l, i)'
    BY <1>8, <1>9, WayStep
  <2>2. QED
    BY <1>8, <2>1 DEF OnItsWay
<1>11. QED
  BY <1>10

LEMMA AddrgenStepLemma ==
  ASSUME NEW laneDone, NEW unitDone, NEW free, NEW ack, NEW arrives,
         FlowStep(laneDone, unitDone, free, ack, arrives)
  PROVE  AddrgenWaits' /\ AddrgenHasIt'
<1>1. /\ FlowInv /\ BInv /\ BInv' /\ BackendCycle(laneDone, unitDone, free, ack, arrives)
      /\ peReq.id \in Ids /\ peReq'.id \in Ids /\ state \in {"IDLE", "WAIT"}
      /\ peReq.r \in Requests
  BY DEF FlowStep, FlowInv, BInv, Inv, TypeOK
<1>2. /\ addrgen' = IF AddrgenTakes THEN {peReq.id} ELSE IF ack THEN {} ELSE addrgen
      /\ addrgenRun' = (addrgenRun \cap Running) \cup (IF AddrgenTakes THEN {peReq.id} ELSE {})
      /\ ack \in BOOLEAN /\ (ack => addrgen # {})
  BY DEF FlowStep, BackendCycle, AddrgenStep, AckChoices
<1>3. AddrgenTakes => state = "WAIT" /\ peReq.r.op \in Loads \cup Stores /\ ~ack
  BY <1>1, <1>2 DEF AddrgenTakes, FlowInv, AddrgenHasIt
<1>4. AddrgenWaits'
  <2>1. SUFFICES ASSUME addrgen' # {}
                 PROVE  state' = "WAIT" /\ addrgen' = {peReq'.id} /\ peReq'.r.op \in Loads \cup Stores
    BY DEF AddrgenWaits
  <2>2. state = "WAIT" /\ addrgen' = {peReq.id} /\ peReq.r.op \in Loads \cup Stores /\ ~ack
    BY <1>1, <1>2, <1>3, <2>1 DEF FlowInv, AddrgenWaits
  <2>3. state' # "IDLE"
    BY <2>2, AnswerStep
  <2>4. QED
    BY <1>1, <2>2, <2>3, CycleShape
<1>5. AddrgenHasIt'
  <2>1. SUFFICES ASSUME peReq'.valid, peReq'.r.op \in Loads \cup Stores
                 PROVE  peReq'.id \in addrgenRun' \/ (state' = "WAIT" /\ addrgen' = {})
    BY DEF AddrgenHasIt
  <2>2. CASE New(peReq'.id)
    <3>1. /\ state = "IDLE" /\ peReq'.r = araReq.r
          /\ state' = IF NeedsAnswer(araReq.r) THEN "WAIT" ELSE "IDLE"
      BY <1>1, <2>2, CycleShape
    <3>2. state' = "WAIT"
      BY <2>1, <3>1 DEF NeedsAnswer
    <3>3. addrgen' = {}
      BY <1>1, <1>2, <1>3, <3>1 DEF FlowInv, AddrgenWaits
    <3>4. QED
      BY <3>2, <3>3
  <2>3. CASE ~New(peReq'.id)
    <3>1. Stays /\ peReq.valid
      BY <2>1, <2>3 DEF New, Stays
    <3>2. peReq'.id = peReq.id /\ peReq'.r = peReq.r
      BY <1>1, <3>1, CycleShape
    <3>3. peReq.id \in Running
      <4>1. SUFFICES ASSUME RunsOn(peReq.r) = {} PROVE FALSE
        BY <1>1, <3>1 DEF FlowInv, BroadcastRuns
      <4>2. peReq.r.op = "VMVXS"
        BY <1>1, <4>1, RunsOnShape
      <4>3. QED
        BY <2>1, <3>2, <4>2 DEF Loads, Stores
    <3>4. CASE peReq.id \in addrgenRun
      BY <1>2, <3>2, <3>3, <3>4
    <3>5. CASE peReq.id \notin addrgenRun
      <4>1. AddrgenTakes
        BY <1>1, <2>1, <3>1, <3>2, <3>5 DEF FlowInv, AddrgenHasIt, AddrgenTakes
      <4>2. QED
        BY <1>2, <3>2, <4>1
    <3>6. QED
      BY <3>4, <3>5
  <2>4. QED
    BY <2>2, <2>3
<1>6. QED
  BY <1>4, <1>5

-----------------------------------------------------------------------------
(***************************************************************************)
(* The invariant holds.                                                    *)
(***************************************************************************)
LEMMA FlowStepInv ==
  ASSUME NEW laneDone, NEW unitDone, NEW free, NEW ack, NEW arrives,
         FlowStep(laneDone, unitDone, free, ack, arrives)
  PROVE  FlowInv'
<1>1. SequencerWaits' /\ CountersBounded' /\ CountersExact'
  BY StallStep, CountersBoundedStep, CountersExactStep DEF FlowStep, FlowInv
<1>2. SampledOnce' /\ Known' /\ BroadcastRuns' /\ RunsWhereItShould'
  BY SampledOnceStep, KnownStep, BroadcastRunsStep, RunsWhereStep
<1>3. RunsUntilExecuted' /\ MovesWait' /\ NotTakenYet'
  BY RunsUntilExecutedStep, MovesWaitStep, NotTakenYetStep
<1>4. LaneQueues' /\ UnitQueues' /\ TakenAtOnce'
  BY LaneQueuesStep, UnitQueuesStep, TakenAtOnceStep
<1>5. OperandIsMoves' /\ OperandComesLast' /\ MaskUnitRuns' /\ CountsWait' /\ AnsweredBroadcast'
  BY OperandIsMovesStep, OperandComesLastStep, MaskUnitRunsStep, CountsWaitStep, AnsweredBroadcastStep
<1>6. AddrgenWaits' /\ AddrgenHasIt'
  BY AddrgenStepLemma
<1>7. BInv'
  BY DEF FlowStep
<1>8. QED
  BY <1>1, <1>2, <1>3, <1>4, <1>5, <1>6, <1>7 DEF FlowInv

LEMMA FlowInitially == BInit => FlowInv
<1> SUFFICES ASSUME BInit PROVE FlowInv
  OBVIOUS
<1>1. BInv
  BY BInit_BInv
<1>2. /\ state = "IDLE" /\ araReq.valid = FALSE /\ araReq.token = FALSE /\ token = TRUE
      /\ peReq.valid = FALSE /\ runningMask = FALSE
      /\ \A v \in VFUs : cnt[v] = 0
      /\ \A pe \in PEs : peRunning[pe] = {}
  BY DEF BInit, Init, NoPeReq
<1>3. /\ \A l \in Lanes : laneReg[l] = <<>> /\ ~Offered(l)
      /\ \A l \in Lanes, v \in LaneVFUs : laneQueue[l][v] = <<>>
      /\ \A u \in Units : unitQueue[u] = <<>>
      /\ \A pe \in PEs : doneReg[pe] = {}
      /\ laneDoneReg = {} /\ addrgen = {} /\ maskB = <<>> /\ maskBValid = FALSE
  BY <1>2 DEF BInit, Offered
<1>4. Elements(<<>>) = {}
  BY DEF Elements
<1>5. \A v : ~Stalled(v)
  BY <1>2 DEF Stalled
<1>6. CountersExact
  <2>1. 0 \in Lanes /\ \A u \in Units : PeOf(u) \in PEs /\ u \in VFUs
    BY PeOfLemma, NrLanesAssumption DEF Lanes, Units, VFUs
  <2>2. Pending(0) = <<>> /\ LaneVFUs \subseteq VFUs
    BY <1>3, <2>1 DEF Pending, Handshake, LaneVFUs, VFUs
  <2>3. \A u \in Units : ~Wants(u)
    BY <1>2 DEF Wants
  <2>4. Len(<<>>) = 0
    OBVIOUS
  <2>5. ASSUME NEW v \in LaneVFUs
        PROVE  cnt[v] = Len(laneQueue[0][v]) + One(Stalled(v)) + One(v \in laneDoneReg)
                        + One(Pending(0) # <<>> /\ v \in LaneUnit(Pending(0)[1].r))
                        + One(laneReg[0] # <<>> /\ Offered(0) /\ v \in LaneUnit(peReq.r))
    <3>1. One(Stalled(v)) = 0
      BY <1>5 DEF One
    <3>2. One(v \in laneDoneReg) = 0
      BY <1>3 DEF One
    <3>3. One(Pending(0) # <<>> /\ v \in LaneUnit(Pending(0)[1].r)) = 0
      BY <2>2 DEF One
    <3>4. One(laneReg[0] # <<>> /\ Offered(0) /\ v \in LaneUnit(peReq.r)) = 0
      BY <1>3, <2>1 DEF One
    <3>5. cnt[v] = 0 /\ Len(laneQueue[0][v]) = 0
      BY <1>2, <1>3, <2>1, <2>2, <2>4
    <3>6. QED
      BY <3>1, <3>2, <3>3, <3>4, <3>5
  <2>6. ASSUME NEW u \in Units
        PROVE  cnt[u] = Len(unitQueue[u]) + One(Stalled(u)) + One(doneReg[PeOf(u)] # {})
                        + One(Wants(u))
    <3>1. One(Stalled(u)) = 0 /\ One(Wants(u)) = 0
      BY <1>5, <2>3 DEF One
    <3>2. One(doneReg[PeOf(u)] # {}) = 0
      BY <1>3, <2>1 DEF One
    <3>3. cnt[u] = 0 /\ Len(unitQueue[u]) = 0
      BY <1>2, <1>3, <2>1, <2>4
    <3>4. QED
      BY <3>1, <3>2, <3>3
  <2>7. QED
    BY <2>5, <2>6 DEF CountersExact
<1>7. SequencerWaits /\ CountersBounded
  <2>1. \A v \in VFUs : InsnQueueDepth[v] \in Nat
    BY DepthAssumption
  <2>2. QED
    <3>1. SequencerWaits
      BY <1>2 DEF SequencerWaits
    <3>2. \A v : One(Stalled(v)) = 0
      BY <1>5 DEF One
    <3>3. \A v \in VFUs : 0 <= InsnQueueDepth[v] + 0
      BY <2>1
    <3>4. CountersBounded
      BY <1>2, <3>2, <3>3 DEF CountersBounded
    <3>5. QED
      BY <3>1, <3>4
<1>8. SampledOnce /\ Known /\ BroadcastRuns /\ RunsWhereItShould
  BY <1>2, <1>3 DEF SampledOnce, Known, BroadcastRuns, RunsWhereItShould
<1>9. \A l \in Lanes, i \in Ids : ~OnItsWay(l, i)
  BY <1>1, <1>3, OnItsWayShape
<1>10. RunsUntilExecuted /\ MovesWait /\ NotTakenYet
  BY <1>9 DEF RunsUntilExecuted, MovesWait, NotTakenYet
<1>11. LaneQueues /\ UnitQueues /\ TakenAtOnce
  <2>1. NoTwice(<<>>)
    BY DEF NoTwice
  <2>2. QED
    BY <1>2, <1>3, <1>4, <2>1 DEF LaneQueues, UnitQueues, TakenAtOnce, Wants
<1>12. OperandIsMoves /\ OperandComesLast /\ MaskUnitRuns /\ CountsWait /\ AnsweredBroadcast
  <2>1. "MaskUnit" \in Units
    BY DEF Units
  <2>2. QED
    BY <1>2, <1>3, <1>4, <2>1
       DEF OperandIsMoves, OperandComesLast, MaskUnitRuns, CountsWait, AnsweredBroadcast
<1>13. AddrgenWaits /\ AddrgenHasIt
  BY <1>2, <1>3 DEF AddrgenWaits, AddrgenHasIt
<1>14. QED
  BY <1>1, <1>6, <1>7, <1>8, <1>10, <1>11, <1>12, <1>13 DEF FlowInv

LEMMA FlowStutters == FlowInv /\ UNCHANGED bvars => FlowInv'
<1> SUFFICES ASSUME FlowInv, UNCHANGED bvars PROVE FlowInv'
  OBVIOUS
<1>1. UNCHANGED vars /\ UNCHANGED backendVars
  BY DEF bvars
<1> USE <1>1 DEF vars, backendVars
<1>2. BInv'
  BY BackendNext DEF FlowInv
<1>3. /\ \A v : Stalled(v)' <=> Stalled(v)
      /\ \A l : Offered(l)' <=> Offered(l)
      /\ \A l : Pending(l)' = Pending(l)
      /\ \A u : Wants(u)' <=> Wants(u)
      /\ \A l, i : OnItsWay(l, i)' <=> OnItsWay(l, i)
      /\ \A pe, i : Runs(pe, i)' <=> Runs(pe, i)
      /\ Running' = Running
  BY DEF Stalled, Offered, Pending, Handshake, Wants, OnItsWay, Runs, Running
<1>4. SequencerWaits' /\ CountersBounded'
  BY <1>3 DEF FlowInv, SequencerWaits, CountersBounded, One
<1>5. CountersExact'
  BY <1>3 DEF FlowInv, CountersExact, One
<1>6. SampledOnce' /\ Known' /\ BroadcastRuns' /\ RunsWhereItShould'
  BY <1>3 DEF FlowInv, SampledOnce, Known, BroadcastRuns, RunsWhereItShould
<1>7. RunsUntilExecuted' /\ MovesWait' /\ NotTakenYet'
  BY <1>3 DEF FlowInv, RunsUntilExecuted, MovesWait, NotTakenYet
<1>8. LaneQueues' /\ UnitQueues' /\ TakenAtOnce'
  BY <1>3 DEF FlowInv, LaneQueues, UnitQueues, TakenAtOnce
<1>9. OperandIsMoves' /\ OperandComesLast' /\ MaskUnitRuns' /\ CountsWait' /\ AnsweredBroadcast'
  BY <1>3 DEF FlowInv, OperandIsMoves, OperandComesLast, InAllLanes, OnItsWay, Offered,
              MaskUnitRuns, CountsWait, AnsweredBroadcast
<1>10. AddrgenWaits' /\ AddrgenHasIt'
  BY DEF FlowInv, AddrgenWaits, AddrgenHasIt
<1>11. QED
  BY <1>2, <1>4, <1>5, <1>6, <1>7, <1>8, <1>9, <1>10 DEF FlowInv

LEMMA BackendFlow ==
  ASSUME ~OutrunLanes, MovesApart, FlowInv, BNext
  PROVE  \E laneDone, unitDone, free, ack, arrives : FlowStep(laneDone, unitDone, free, ack, arrives)
<1>1. BInv'
  BY BackendNext DEF FlowInv
<1>2. QED
  BY <1>1 DEF BNext, FlowStep

LEMMA FlowNext == ~OutrunLanes /\ MovesApart /\ FlowInv /\ [BNext]_bvars => FlowInv'
<1> SUFFICES ASSUME ~OutrunLanes, MovesApart, FlowInv, [BNext]_bvars PROVE FlowInv'
  OBVIOUS
<1>1. CASE BNext
  BY <1>1, BackendFlow, FlowStepInv
<1>2. CASE UNCHANGED bvars
  BY <1>2, FlowStutters
<1>3. QED
  BY <1>1, <1>2

LEMMA FlowAlways ==
  ASSUME ~OutrunLanes, MovesApart
  PROVE  BSpec => []FlowInv
<1>1. FlowInv /\ [BNext]_bvars => FlowInv'
  BY FlowNext
<1>2. QED
  BY <1>1, FlowInitially, PTL DEF BSpec

\* The queue counters of the main sequencer, which it only counts up and down as
\* it accepts requests and hears of finished instructions, are the lengths of
\* the queues they stand for, in every reachable state.
THEOREM CountersAlwaysExact ==
  ASSUME ~OutrunLanes, MovesApart
  PROVE  BSpec => []CountersExact
<1>1. FlowInv => CountersExact
  BY DEF FlowInv
<1>2. QED
  BY <1>1, FlowAlways, PTL

\* A scalar move leaves WAIT with its own operand, never with another one's.
THEOREM ScalarAnswerAlwaysOwn ==
  ASSUME ~OutrunLanes, MovesApart
  PROVE  BSpec => ScalarAnswerIsOwn
<1>1. FlowInv /\ [BNext]_bvars =>
        [state = "WAIT" /\ state' = "IDLE" /\ peReq.r.op = "VMVXS" =>
           maskB = <<[id |-> peReq.id, scalar |-> TRUE]>>]_bvars
  <2>1. SUFFICES ASSUME FlowInv, BNext, state = "WAIT", state' = "IDLE", peReq.r.op = "VMVXS"
                 PROVE  maskB = <<[id |-> peReq.id, scalar |-> TRUE]>>
    OBVIOUS
  <2>2. PICK laneDone, unitDone, free, ack, arrives : FlowStep(laneDone, unitDone, free, ack, arrives)
    BY <2>1, BackendFlow
  <2>3. maskBValid
    BY <2>1, <2>2, AnswerStep
  <2>4. maskB # <<>>
    BY <2>1, <2>3 DEF FlowInv, BInv
  <2>5. QED
    BY <2>1, <2>4 DEF FlowInv, OperandIsMoves
<1>2. QED
  BY <1>1, FlowAlways, PTL DEF BSpec, ScalarAnswerIsOwn

\* A load or a store leaves WAIT exactly when the address generator gives up the
\* instruction it works on, and that instruction is the one that waits.
THEOREM MemoryAnswerAlwaysOwn ==
  ASSUME ~OutrunLanes, MovesApart
  PROVE  BSpec => MemoryAnswerIsOwn
<1>1. FlowInv /\ [BNext]_bvars =>
        [(state = "WAIT" /\ state' = "IDLE" /\ peReq.r.op \in Loads \cup Stores)
         <=> (addrgen # {} /\ addrgen' = {} /\ addrgen = {peReq.id})]_bvars
  <2>1. SUFFICES ASSUME FlowInv, BNext
                 PROVE  (state = "WAIT" /\ state' = "IDLE" /\ peReq.r.op \in Loads \cup Stores)
                        <=> (addrgen # {} /\ addrgen' = {} /\ addrgen = {peReq.id})
    OBVIOUS
  <2>2. PICK laneDone, unitDone, free, ack, arrives : FlowStep(laneDone, unitDone, free, ack, arrives)
    BY <2>1, BackendFlow
  <2>3. /\ addrgen' = IF AddrgenTakes THEN {peReq.id} ELSE IF ack THEN {} ELSE addrgen
        /\ ack \in BOOLEAN /\ (ack => addrgen # {})
    BY <2>2 DEF FlowStep, BackendCycle, AddrgenStep, AckChoices
  <2>4. addrgen # {} => state = "WAIT" /\ addrgen = {peReq.id} /\ peReq.r.op \in Loads \cup Stores
    BY <2>1 DEF FlowInv, AddrgenWaits
  <2>5. state = "WAIT" /\ peReq.r.op \in Loads \cup Stores => (state' = "IDLE" <=> ack)
    BY <2>2, AnswerStep
  <2>6. addrgen # {} => ~AddrgenTakes
    BY DEF AddrgenTakes
  <2>7. QED
    BY <2>3, <2>4, <2>5, <2>6
<1>2. QED
  BY <1>1, FlowAlways, PTL DEF BSpec, MemoryAnswerIsOwn
-----------------------------------------------------------------------------
(***************************************************************************)
(* The queues of the backend, for every number of ids and lanes, every     *)
(* queue depth and every program: none overflows, in lane 0, which the     *)
(* sequencer counts, or in another lane, which it does not, and no         *)
(* instruction that is marked as running is forgotten.  And the order in   *)
(* which instructions leave them: nobody stops waiting for the writer of a *)
(* register it names because a younger writer hides that one.  All under   *)
(* ~OutrunLanes and MovesApart, as the answers above.                      *)
(***************************************************************************)

\* What a lane's unit still has to finish: on its way to the lane or queued there.
Held(l, v) ==
  {i \in Ids : v \in LaneUnit(insn[i]) /\ (OnItsWay(l, i) \/ i \in Elements(laneQueue[l][v]))}

-----------------------------------------------------------------------------
(***************************************************************************)
(* The invariant, by its parts.                                            *)
(***************************************************************************)
LanesForgetNothing ==
  \A l \in Lanes, i \in Ids : Runs(l, i) => \E v \in LaneVFUs : i \in Held(l, v)
UnitsForgetNothing ==
  \A u \in Units, i \in Ids :
    Runs(PeOf(u), i) => (Wants(u) /\ peReq.id = i) \/ i \in Elements(unitQueue[u])

\* There is room for everything that is on its way.
LanesHaveRoom == \A l \in Lanes, v \in LaneVFUs : Cardinality(Held(l, v)) <= InsnQueueDepth[v]

\* What lane 0 reports as done has left one of its queues, a queue at a time.
DoneOnce ==
  \A v \in LaneVFUs, i, j \in doneReg[0] :
    v \in LaneUnit(insn[i]) => v \in laneDoneReg /\ (v \in LaneUnit(insn[j]) => i = j)

\* All the lanes finish a comparison together.
ComparedTogether ==
  \A l, k \in Lanes, v \in LaneVFUs, i \in Ids :
    Compare(insn[i]) /\ i \in Held(l, v) => i \in Held(k, v)

QueueInv ==
  /\ FlowInv
  /\ LanesForgetNothing /\ UnitsForgetNothing /\ LanesHaveRoom
  /\ DoneOnce /\ ComparedTogether
  /\ lost = {}

QueueStep(laneDone, unitDone, free, ack, arrives) ==
  FlowStep(laneDone, unitDone, free, ack, arrives) /\ QueueInv

-----------------------------------------------------------------------------
(***************************************************************************)
(* Counting.                                                               *)
(***************************************************************************)
LEMMA IdsFinite == IsFiniteSet(Ids) /\ \A S \in SUBSET Ids : IsFiniteSet(S) /\ Cardinality(S) \in Nat
<1>1. 0 \in Int /\ NrVInsn - 1 \in Int
  BY NrVInsnAssumption
<1>2. IsFiniteSet(0 .. NrVInsn - 1)
  BY <1>1, FS_Interval
<1>3. QED
  BY <1>2, FS_Subset, FS_CardinalityType DEF Ids

\* A queue without repetitions has as many elements as places.
LEMMA QueueCount ==
  ASSUME NEW q \in Seq(Ids), NoTwice(q)
  PROVE  Elements(q) \subseteq Ids /\ Cardinality(Elements(q)) = Len(q)
<1>1. Elements(q) \subseteq Ids
  BY DEF Elements
<1>2. Len(q) \in Nat /\ DOMAIN q = 1 .. Len(q) /\ q \in [1 .. Len(q) -> Elements(q)]
  <2>1. Len(q) \in Nat /\ DOMAIN q = 1 .. Len(q) /\ q \in [1 .. Len(q) -> Ids]
    OBVIOUS
  <2>2. QED
    BY <2>1 DEF Elements
<1>3. q \in Bijection(1 .. Len(q), Elements(q))
  BY <1>2 DEF Bijection, Injection, Surjection, IsInjective, NoTwice, Elements
<1>4. ExistsBijection(1 .. Len(q), Elements(q))
  BY <1>3 DEF ExistsBijection
<1>5. IsFiniteSet(1 .. Len(q)) /\ Cardinality(1 .. Len(q)) = Len(q)
  <2>1. /\ IsFiniteSet(1 .. Len(q))
        /\ Cardinality(1 .. Len(q)) = IF 1 > Len(q) THEN 0 ELSE Len(q) - 1 + 1
    BY <1>2, FS_Interval
  <2>2. QED
    BY <1>2, <2>1
<1>6. QED
  BY <1>1, <1>4, <1>5, FS_Bijection

OneMore(b, x) == IF b THEN {x} ELSE {}

LEMMA CountOneMore ==
  ASSUME NEW S, IsFiniteSet(S), NEW b, NEW x
  PROVE  IsFiniteSet(S \cup OneMore(b, x)) /\ Cardinality(S \cup OneMore(b, x)) <= Cardinality(S) + One(b)
<1>1. Cardinality(S) \in Nat
  BY FS_CardinalityType
<1>2. CASE b
  <2>1. S \cup OneMore(b, x) = S \cup {x} /\ One(b) = 1
    BY <1>2 DEF OneMore, One
  <2>2. /\ IsFiniteSet(S \cup {x})
        /\ Cardinality(S \cup {x}) = IF x \in S THEN Cardinality(S) ELSE Cardinality(S) + 1
    BY FS_AddElement
  <2>3. QED
    BY <1>1, <2>1, <2>2
<1>3. CASE ~b
  BY <1>1, <1>3 DEF OneMore, One
<1>4. QED
  BY <1>2, <1>3

-----------------------------------------------------------------------------
(***************************************************************************)
(* What the invariant says of a state.                                     *)
(***************************************************************************)
\* An instruction that has not entered a queue finds room in it.
LEMMA Room ==
  ASSUME QueueInv, NEW l \in Lanes, NEW v \in LaneVFUs,
         Pending(l) # <<>>, v \in LaneUnit(Pending(l)[1].r)
  PROVE  Len(laneQueue[l][v]) < InsnQueueDepth[v]
<1> DEFINE q == laneQueue[l][v]
           i == Pending(l)[1].id
<1>1. /\ FlowInv /\ q \in Seq(Ids) /\ NoTwice(q)
      /\ Cardinality(Held(l, v)) <= InsnQueueDepth[v]
      /\ Held(l, v) \subseteq Ids
  BY DEF QueueInv, FlowInv, BInv, LaneQueues, LanesHaveRoom, Held
<1>2. i \in Ids /\ OnItsWay(l, i) /\ v \in LaneUnit(insn[i])
  BY <1>1, PendingIs
<1>3. i \in Held(l, v) /\ i \notin Elements(q) /\ Elements(q) \subseteq Held(l, v)
  <2>1. Elements(q) \subseteq Ids
    BY <1>1, QueueCount
  <2>2. QED
    BY <1>1, <1>2, <2>1 DEF FlowInv, LaneQueues, Held
<1> HIDE DEF q, i
<1>4. Elements(q) \subseteq Held(l, v) \ {i} /\ IsFiniteSet(Held(l, v))
  BY <1>1, <1>3, IdsFinite
<1>5. /\ IsFiniteSet(Held(l, v) \ {i})
      /\ Cardinality(Held(l, v) \ {i}) = Cardinality(Held(l, v)) - 1
  BY <1>3, <1>4, FS_RemoveElement
<1>6. Cardinality(Elements(q)) <= Cardinality(Held(l, v) \ {i})
  BY <1>4, <1>5, FS_Subset
<1>7. Cardinality(Elements(q)) = Len(q)
  BY <1>1, QueueCount
<1>8. Cardinality(Held(l, v)) \in Nat /\ Len(q) \in Nat /\ InsnQueueDepth[v] \in Nat
  <2>1. InsnQueueDepth[v] \in Nat
    BY DepthAssumption DEF VFUs, LaneVFUs
  <2>2. QED
    BY <1>1, <2>1, IdsFinite
<1>9. Len(q) < InsnQueueDepth[v]
  BY <1>1, <1>5, <1>6, <1>7, <1>8
<1>10. QED
  BY <1>9 DEF q

\* Lane 0 has an element of every instruction.
LEMMA LaneZeroTakesPart ==
  ASSUME FlowInv, NEW b
  PROVE  ~Mutes(0, b)
<1>1. SUFFICES ASSUME Mutes(0, b) PROVE FALSE
  OBVIOUS
<1>2. Pending(0) # <<>> /\ vfu(Pending(0)[1].r.op) \in LaneVFUs /\ 0 >= Pending(0)[1].r.vl
  BY <1>1 DEF Mutes, Starts, Executes
<1>3. insn \in [Ids -> Requests]
  BY DEF FlowInv, BInv, Inv, TypeOK
<1>4. Pending(0)[1].r \in Requests
  BY <1>2, <1>3, LaneZero, PendingIs
<1>5. Pending(0)[1].r.vl > 0 /\ Pending(0)[1].r.vl \in Nat
  BY <1>2, <1>4, DispatcherAssumption, RequestsAssumption DEF LaneVFUs, RequestType
<1>6. QED
  BY <1>2, <1>5

\* When no lane is ahead of another one, a lane holds what lane 0 holds or has
\* just finished.
LEMMA LaneZeroLeads ==
  ASSUME QueueInv, ~DesynchedLanes, NEW l \in Lanes, NEW v \in LaneVFUs, NEW i \in Held(l, v)
  PROVE  i \in Held(0, v) \/ (i \in doneReg[0] /\ v \in LaneUnit(insn[i]))
<1>1. FlowInv /\ BInv /\ insn[i] \in Requests /\ i \in Ids /\ v \in LaneUnit(insn[i])
  BY DEF QueueInv, FlowInv, BInv, Inv, TypeOK, Held
<1>2. CASE Compare(insn[i])
  BY <1>2, LaneZero DEF QueueInv, ComparedTogether, Held
<1>3. CASE ~Compare(insn[i])
  <2>1. vfu(insn[i].op) = v
    BY <1>1, <1>3, QueuesShape
  <2>2. l \in RunsOn(insn[i])
    BY <1>1, <2>1, RunsOnShape
  <2>3. Runs(l, i)
    <3>1. CASE OnItsWay(l, i)
      BY <1>1, <2>2, <3>1 DEF FlowInv, RunsUntilExecuted
    <3>2. CASE i \in Elements(laneQueue[l][v])
      BY <1>1, <2>1, <3>2 DEF FlowInv, LaneQueues
    <3>3. QED
      BY <3>1, <3>2 DEF Held
  <2>4. i \in peRunning[0]
    BY <1>1, <2>3 DEF Runs, DesynchedLanes
  <2>5. CASE i \in doneReg[0]
    BY <1>1, <2>5
  <2>6. CASE i \notin doneReg[0]
    <3>1. Runs(0, i) /\ 0 \in Lanes
      BY <2>4, <2>6, LaneZero DEF Runs
    <3>2. PICK w \in LaneVFUs : i \in Held(0, w)
      BY <1>1, <3>1 DEF QueueInv, LanesForgetNothing
    <3>3. w = v
      BY <1>1, <3>2, QueuesShape DEF Held
    <3>4. QED
      BY <3>2, <3>3
  <2>7. QED
    BY <2>5, <2>6
<1>4. QED
  BY <1>2, <1>3

-----------------------------------------------------------------------------
(***************************************************************************)
(* What a step does to what a lane holds.                                  *)
(***************************************************************************)
LEMMA HeldNext ==
  ASSUME NEW l \in Lanes, NEW v \in LaneVFUs, NEW i
  PROVE  i \in Held(l, v)' <=>
           /\ i \in Ids /\ v \in LaneUnit(insn'[i])
           /\ OnItsWay(l, i)' \/ i \in Elements(laneQueue'[l][v])
  BY DEF Held

\* Nothing old is added, and something goes only when its lane reports it as done.
LEMMA HeldStep ==
  ASSUME NEW laneDone, NEW unitDone, NEW free, NEW ack, NEW arrives,
         QueueStep(laneDone, unitDone, free, ack, arrives),
         NEW l \in Lanes, NEW v \in LaneVFUs, NEW i \in Ids
  PROVE  /\ i \in Held(l, v)' => \/ New(i) /\ v \in LaneUnit(araReq.r)
                                 \/ ~New(i) /\ i \in Held(l, v)
         /\ New(i) /\ v \in LaneUnit(araReq.r) => i \in Held(l, v)'
         /\ i \in Held(l, v) =>
              \/ i \in Held(l, v)'
              \/ /\ <<l, v>> \in laneDone /\ LaneMayFinish(l, v)
                 /\ laneQueue[l][v] # <<>> /\ i = Head(laneQueue[l][v])
              \/ Mutes(l, free[l]) /\ Pending(l) # <<>> /\ i = Pending(l)[1].id
<1>1. /\ FlowStep(laneDone, unitDone, free, ack, arrives) /\ QueueInv /\ FlowInv /\ BInv
      /\ BackendCycle(laneDone, unitDone, free, ack, arrives)
      /\ insn \in [Ids -> Requests]
  BY DEF QueueStep, FlowStep, FlowInv, BInv, Inv, TypeOK
<1>2. ASSUME ~New(i) PROVE insn'[i] = insn[i]
  BY <1>1, <1>2, CycleShape
<1>3. ASSUME New(i) PROVE insn'[i] = araReq.r
  BY <1>1, <1>3, CycleShape
<1>4. ASSUME i \in Held(l, v)'
      PROVE  \/ New(i) /\ v \in LaneUnit(araReq.r)
             \/ ~New(i) /\ i \in Held(l, v)
  <2>1. v \in LaneUnit(insn'[i]) /\ (OnItsWay(l, i)' \/ i \in Elements(laneQueue'[l][v]))
    BY <1>4, HeldNext
  <2>2. CASE New(i)
    BY <1>3, <2>1, <2>2
  <2>3. CASE ~New(i)
    <3>1. v \in LaneUnit(insn[i])
      BY <1>2, <2>1, <2>3
    <3>2. ASSUME OnItsWay(l, i)' PROVE OnItsWay(l, i)
      BY <1>1, <2>3, <3>2, WayStep
    <3>3. ASSUME i \in Elements(laneQueue'[l][v])
          PROVE  i \in Elements(laneQueue[l][v]) \/ OnItsWay(l, i)
      <4>1. \/ i \in Elements(laneQueue[l][v])
            \/ Enters(l, free[l], v) /\ i = Pending(l)[1].id
        BY <1>1, <3>3, LaneQueueStep
      <4>2. ASSUME Enters(l, free[l], v), i = Pending(l)[1].id PROVE OnItsWay(l, i)
        <5>1. Pending(l) # <<>>
          BY <1>1, <4>2, LaneQueueStep
        <5>2. QED
          BY <1>1, <4>2, <5>1, PendingIs
      <4>3. QED
        BY <4>1, <4>2
    <3>4. QED
      BY <2>1, <2>3, <3>1, <3>2, <3>3 DEF Held
  <2>4. QED
    BY <2>2, <2>3
<1>5. ASSUME New(i), v \in LaneUnit(araReq.r) PROVE i \in Held(l, v)'
  BY <1>1, <1>3, <1>5, WayStep, HeldNext
<1>6. ASSUME i \in Held(l, v), i \notin Held(l, v)'
      PROVE  \/ /\ <<l, v>> \in laneDone /\ LaneMayFinish(l, v)
                /\ laneQueue[l][v] # <<>> /\ i = Head(laneQueue[l][v])
             \/ Mutes(l, free[l]) /\ Pending(l) # <<>> /\ i = Pending(l)[1].id
  <2>1. v \in LaneUnit(insn[i]) /\ (OnItsWay(l, i) \/ i \in Elements(laneQueue[l][v]))
    BY <1>6 DEF Held
  <2>2. ~New(i)
    BY <1>1, <2>1, NotNew
  <2>3. ~OnItsWay(l, i)' /\ i \notin Elements(laneQueue'[l][v])
    BY <1>2, <1>6, <2>1, <2>2, HeldNext
  <2>4. CASE i \in Elements(laneQueue[l][v])
    <3>1. <<l, v>> \in laneDone /\ i = Head(laneQueue[l][v])
      BY <1>1, <2>3, <2>4, LaneQueueStep
    <3>2. LaneMayFinish(l, v)
      BY <1>1, <3>1, ChoicesLemma DEF FlowStep
    <3>3. QED
      BY <3>1, <3>2 DEF LaneMayFinish
  <2>5. CASE OnItsWay(l, i)
    <3>1. ~NeedsNoLane(insn[i])
      BY <1>1, <2>1, QueuesShape
    <3>2. Executed(l, i, free)
      BY <1>1, <2>3, <2>5, <3>1, WayStep
    <3>3. Pending(l) # <<>> /\ i = Pending(l)[1].id /\ Starts(l, free[l])
      BY <1>1, <3>2, LaneStep DEF Executed, Executes
    <3>4. v \in LaneUnit(Pending(l)[1].r)
      BY <1>1, <2>1, <3>3, PendingIs
    <3>5. CASE ~Mutes(l, free[l])
      <4>1. Enters(l, free[l], v)
        BY <3>3, <3>4, <3>5 DEF Enters
      <4>2. Len(laneQueue[l][v]) < InsnQueueDepth[v]
        BY <1>1, <3>3, <3>4, Room
      <4>3. \A j : Enters(l, free[l], v) /\ Len(laneQueue[l][v]) < InsnQueueDepth[v]
                    /\ j = Pending(l)[1].id => j \in Elements(laneQueue'[l][v])
        BY <1>1, LaneQueueStep
      <4>4. QED
        BY <2>3, <3>3, <4>1, <4>2, <4>3
    <3>6. QED
      BY <3>3, <3>5
  <2>6. QED
    BY <2>1, <2>4, <2>5
<1>7. QED
  BY <1>4, <1>5, <1>6

LEMMA LanesForgetNothingStep ==
  ASSUME NEW laneDone, NEW unitDone, NEW free, NEW ack, NEW arrives,
         QueueStep(laneDone, unitDone, free, ack, arrives)
  PROVE  LanesForgetNothing'
<1>1. /\ FlowStep(laneDone, unitDone, free, ack, arrives) /\ QueueInv /\ FlowInv /\ BInv
      /\ BackendCycle(laneDone, unitDone, free, ack, arrives)
      /\ insn \in [Ids -> Requests] /\ araReq.r \in Requests
  BY DEF QueueStep, FlowStep, FlowInv, BInv, Inv, TypeOK
<1>2. SUFFICES ASSUME NEW l \in Lanes, NEW i \in Ids, i \in peRunning'[l], i \notin doneReg'[l]
               PROVE  \E v \in LaneVFUs : i \in Held(l, v)'
  BY DEF LanesForgetNothing, Runs
<1>3. l \in PEs
  BY LaneZero
<1>4. CASE New(i)
  <2>1. l \in RunsOn(araReq.r)
    BY <1>1, <1>2, <1>3, <1>4, CycleShape
  <2>2. vfu(araReq.r.op) \in LaneVFUs
    BY <1>1, <2>1, RunsOnShape
  <2>3. PICK v \in LaneVFUs : v \in LaneUnit(araReq.r)
    BY <1>1, <2>2, QueuesShape
  <2>4. i \in Held(l, v)'
    BY <1>1, <1>4, <2>3, HeldStep
  <2>5. QED
    BY <2>4
<1>5. CASE ~New(i)
  <2>1. Runs(l, i)
    BY <1>1, <1>2, <1>3, <1>5, CycleShape
  <2>2. PICK v \in LaneVFUs : i \in Held(l, v)
    BY <1>1, <2>1 DEF QueueInv, LanesForgetNothing
  <2>3. \/ i \in Held(l, v)'
        \/ /\ <<l, v>> \in laneDone /\ LaneMayFinish(l, v)
           /\ laneQueue[l][v] # <<>> /\ i = Head(laneQueue[l][v])
        \/ Mutes(l, free[l]) /\ Pending(l) # <<>> /\ i = Pending(l)[1].id
    BY <1>2, <2>2, HeldStep
  <2>4. ~(<<l, v>> \in laneDone /\ i = Head(laneQueue[l][v]))
    BY <1>1, <1>2, DoneStep
  <2>5. ~(Mutes(l, free[l]) /\ i = Pending(l)[1].id)
    BY <1>1, <1>2, DoneStep
  <2>6. i \in Held(l, v)'
    BY <2>3, <2>4, <2>5
  <2>7. QED
    BY <2>6
<1>6. QED
  BY <1>4, <1>5

LEMMA UnitsForgetNothingStep ==
  ASSUME NEW laneDone, NEW unitDone, NEW free, NEW ack, NEW arrives,
         QueueStep(laneDone, unitDone, free, ack, arrives)
  PROVE  UnitsForgetNothing'
<1>1. /\ FlowStep(laneDone, unitDone, free, ack, arrives) /\ QueueInv /\ FlowInv /\ BInv
      /\ BackendCycle(laneDone, unitDone, free, ack, arrives)
      /\ araReq.r \in Requests
  BY DEF QueueStep, FlowStep, FlowInv, BInv, Inv, TypeOK
<1>2. SUFFICES ASSUME NEW u \in Units, NEW i \in Ids,
                      i \in peRunning'[PeOf(u)], i \notin doneReg'[PeOf(u)]
               PROVE  (Wants(u)' /\ peReq'.id = i) \/ i \in Elements(unitQueue'[u])
  BY DEF UnitsForgetNothing, Runs
<1>3. PeOf(u) \in PEs
  BY PeOfLemma
<1>4. CASE New(i)
  <2>1. PeOf(u) \in RunsOn(araReq.r) /\ peReq'.r = araReq.r
    BY <1>1, <1>2, <1>3, <1>4, CycleShape
  <2>2. Takes(u, araReq.r)
    BY <1>1, <2>1, RunsOnShape
  <2>3. peReq'.id = i
    BY <1>4 DEF New
  <2>4. New(peReq'.id)
    BY <1>4, <2>3
  <2>5. Wants(u)'
    BY <1>1, <2>1, <2>2, <2>4, WantsNew
  <2>6. QED
    BY <2>3, <2>5
<1>5. CASE ~New(i)
  <2>1. Runs(PeOf(u), i)
    BY <1>1, <1>2, <1>3, <1>5, CycleShape
  <2>2. (Wants(u) /\ peReq.id = i) \/ i \in Elements(unitQueue[u])
    BY <1>1, <2>1 DEF QueueInv, UnitsForgetNothing
  <2>3. Wants(u) => Accepts(u)
    BY <1>1, WantsAccepts
  <2>4. ~(u \in unitDone /\ i = Head(unitQueue[u]))
    BY <1>1, <1>2, DoneStep
  <2>5. i \in Elements(unitQueue'[u])
    BY <1>1, <2>2, <2>3, <2>4, UnitQueueStep
  <2>6. QED
    BY <2>5
<1>6. QED
  BY <1>4, <1>5

LEMMA DoneOnceStep ==
  ASSUME NEW laneDone, NEW unitDone, NEW free, NEW ack, NEW arrives,
         QueueStep(laneDone, unitDone, free, ack, arrives)
  PROVE  DoneOnce'
<1>1. /\ FlowStep(laneDone, unitDone, free, ack, arrives) /\ QueueInv /\ FlowInv /\ BInv
      /\ BackendCycle(laneDone, unitDone, free, ack, arrives)
      /\ insn \in [Ids -> Requests]
  BY DEF QueueStep, FlowStep, FlowInv, BInv, Inv, TypeOK
<1>2. laneDoneReg' = FinishingIn(laneDone, 0) /\ 0 \in Lanes
  <2>1. laneDoneReg' = FinishingIn(laneDone, 0)
    BY <1>1 DEF BackendCycle
  <2>2. QED
    BY <2>1, LaneZero
<1>3. ASSUME NEW i \in doneReg'[0], NEW v \in LaneVFUs, v \in LaneUnit(insn'[i])
      PROVE  <<0, v>> \in laneDone /\ i = Head(laneQueue[0][v])
  <2>1. \/ \E w \in LaneVFUs : /\ <<0, w>> \in laneDone /\ LaneMayFinish(0, w)
                               /\ laneQueue[0][w] # <<>> /\ i = Head(laneQueue[0][w])
        \/ Mutes(0, free[0]) /\ Pending(0) # <<>> /\ i = Pending(0)[1].id
    BY <1>1, <1>2, DoneInLane
  <2>2. PICK w \in LaneVFUs : <<0, w>> \in laneDone /\ laneQueue[0][w] # <<>> /\ i = Head(laneQueue[0][w])
    BY <1>1, <2>1, LaneZeroTakesPart
  <2>3. i \in Elements(laneQueue[0][w])
    BY <1>1, <1>2, <2>2, HeadWasThere
  <2>4. i \in Ids /\ ~New(i) /\ w \in LaneUnit(insn[i])
    BY <1>1, <1>2, <2>3, QueuedRuns, NotNew DEF FlowInv, LaneQueues
  <2>5. insn'[i] = insn[i]
    BY <1>1, <2>4, CycleShape
  <2>6. v = w
    BY <1>1, <1>3, <2>4, <2>5, QueuesShape
  <2>7. QED
    BY <2>2, <2>6
<1>4. SUFFICES ASSUME NEW v \in LaneVFUs, NEW i \in doneReg'[0], NEW j \in doneReg'[0],
                      v \in LaneUnit(insn'[i])
               PROVE  v \in laneDoneReg' /\ (v \in LaneUnit(insn'[j]) => i = j)
  BY DEF DoneOnce
<1>5. v \in laneDoneReg'
  BY <1>2, <1>3, <1>4 DEF FinishingIn
<1>6. ASSUME v \in LaneUnit(insn'[j]) PROVE i = j
  BY <1>3, <1>4, <1>6
<1>7. QED
  BY <1>5, <1>6

LEMMA ComparedTogetherStep ==
  ASSUME NEW laneDone, NEW unitDone, NEW free, NEW ack, NEW arrives,
         QueueStep(laneDone, unitDone, free, ack, arrives)
  PROVE  ComparedTogether'
<1>1. /\ FlowStep(laneDone, unitDone, free, ack, arrives) /\ QueueInv /\ FlowInv /\ BInv
      /\ BackendCycle(laneDone, unitDone, free, ack, arrives)
      /\ insn \in [Ids -> Requests] /\ laneDone \in LaneDoneChoices
  BY DEF QueueStep, FlowStep, FlowInv, BInv, Inv, TypeOK
<1>2. SUFFICES ASSUME NEW l \in Lanes, NEW k \in Lanes, NEW v \in LaneVFUs, NEW i \in Ids,
                      Compare(insn'[i]), i \in Held(l, v)'
               PROVE  i \in Held(k, v)'
  BY DEF ComparedTogether
<1>3. CASE New(i)
  <2>1. v \in LaneUnit(araReq.r)
    BY <1>1, <1>2, <1>3, HeldStep
  <2>2. QED
    BY <1>1, <1>3, <2>1, HeldStep
<1>4. CASE ~New(i)
  <2>1. insn'[i] = insn[i] /\ Compare(insn[i])
    BY <1>1, <1>2, <1>4, CycleShape
  <2>2. i \in Held(l, v)
    BY <1>1, <1>2, <1>4, HeldStep
  <2>3. i \in Held(k, v)
    BY <1>1, <2>1, <2>2 DEF QueueInv, ComparedTogether
  <2>4. \/ i \in Held(k, v)'
        \/ /\ <<k, v>> \in laneDone /\ LaneMayFinish(k, v)
           /\ laneQueue[k][v] # <<>> /\ i = Head(laneQueue[k][v])
        \/ Mutes(k, free[k]) /\ Pending(k) # <<>> /\ i = Pending(k)[1].id
    BY <1>1, <2>3, HeldStep
  <2>5. ASSUME <<k, v>> \in laneDone, LaneMayFinish(k, v), i = Head(laneQueue[k][v])
        PROVE  FALSE
    <3>1. <<l, v>> \in laneDone
      BY <1>1, <2>1, <2>5 DEF LaneDoneChoices
    <3>2. laneQueue[l][v] # <<>> /\ Head(laneQueue[l][v]) = i
      BY <2>1, <2>5 DEF LaneMayFinish
    <3>3. i \in Elements(laneQueue[l][v])
      BY <1>1, <3>2, HeadWasThere
    <3>4. ~OnItsWay(l, i)
      BY <1>1, <3>3 DEF FlowInv, LaneQueues
    <3>5. ~OnItsWay(l, i)'
      BY <1>1, <1>4, <3>4, WayStep
    <3>6. ASSUME Enters(l, free[l], v), i = Pending(l)[1].id PROVE FALSE
      <4>1. Pending(l) # <<>>
        BY <1>1, <3>6, LaneQueueStep
      <4>2. QED
        BY <1>1, <3>4, <3>6, <4>1, PendingIs
    <3>7. i \notin Elements(laneQueue'[l][v])
      <4>1. i \in Elements(laneQueue'[l][v]) =>
              \/ i \in Elements(laneQueue[l][v])
                 /\ ~(<<l, v>> \in laneDone /\ i = Head(laneQueue[l][v]))
              \/ Enters(l, free[l], v) /\ i = Pending(l)[1].id
        BY <1>1, LaneQueueStep
      <4>2. QED
        BY <3>1, <3>2, <3>6, <4>1
    <3>8. QED
      BY <1>2, <3>5, <3>7, HeldNext
  <2>6. ASSUME Mutes(k, free[k]), Pending(k) # <<>>, i = Pending(k)[1].id PROVE FALSE
    <3>1. Pending(k)[1].r = insn[i]
      BY <1>1, <2>6, PendingIs
    <3>2. vfu(insn[i].op) \in LaneVFUs
      BY <2>6, <3>1 DEF Mutes
    <3>3. vfu(insn[i].op) = "MaskUnit"
      BY <1>1, <2>1, QueuesShape
    <3>4. QED
      BY <3>2, <3>3 DEF LaneVFUs
  <2>7. QED
    BY <2>4, <2>5, <2>6
<1>5. QED
  BY <1>3, <1>4

\* What a lane holds for a request that is issued, by the counter of lane 0.
LEMMA HeldIsCounted ==
  ASSUME QueueInv, ~DesynchedLanes, NEW l \in Lanes, NEW v \in LaneVFUs
  PROVE  Cardinality(Held(l, v)) + One(Stalled(v)) <= cnt[v]
<1> DEFINE q == laneQueue[0][v]
           pending == Pending(0) # <<>> /\ v \in LaneUnit(Pending(0)[1].r)
           waiting == laneReg[0] # <<>> /\ Offered(0) /\ v \in LaneUnit(peReq.r)
           done == v \in laneDoneReg
<1>1. FlowInv /\ BInv /\ q \in Seq(Ids) /\ NoTwice(q) /\ 0 \in Lanes
  BY LaneZero DEF QueueInv, FlowInv, BInv, LaneQueues
<1>2. PICK x : \A i \in doneReg[0] : v \in LaneUnit(insn[i]) => done /\ i = x
  BY <1>1 DEF QueueInv, DoneOnce
<1>3. Held(0, v) \subseteq Elements(q) \cup OneMore(pending, Pending(0)[1].id)
                           \cup OneMore(waiting, peReq.id)
  <2>1. SUFFICES ASSUME NEW i \in Held(0, v), i \notin Elements(q)
                 PROVE  (pending /\ i = Pending(0)[1].id) \/ (waiting /\ i = peReq.id)
    BY DEF OneMore
  <2>2. i \in Ids /\ v \in LaneUnit(insn[i]) /\ OnItsWay(0, i)
    BY <2>1 DEF Held
  <2>3. (Offered(0) /\ peReq.id = i) \/ (laneReg[0] # <<>> /\ laneReg[0][1].id = i)
    BY <1>1, <2>2, OnItsWayShape
  <2>4. CASE laneReg[0] # <<>> /\ laneReg[0][1].id = i
    <3>1. Pending(0) = laneReg[0] /\ laneReg[0][1].r = insn[i]
      BY <1>1, <2>4 DEF Pending, FlowInv, Known
    <3>2. QED
      BY <2>2, <2>4, <3>1
  <2>5. CASE Offered(0) /\ peReq.id = i
    <3>1. peReq.r = insn[i]
      BY <1>1, <2>5 DEF FlowInv, Known, Offered
    <3>2. CASE laneReg[0] = <<>>
      <4>1. Pending(0) = <<[id |-> peReq.id, r |-> peReq.r]>>
        BY <2>5, <3>2 DEF Pending, Handshake
      <4>2. QED
        BY <2>2, <2>5, <3>1, <4>1
    <3>3. QED
      BY <2>2, <2>5, <3>1, <3>2
  <2>6. QED
    BY <2>3, <2>4, <2>5
<1>4. Held(l, v) \subseteq Elements(q) \cup OneMore(pending, Pending(0)[1].id)
                           \cup OneMore(waiting, peReq.id) \cup OneMore(done, x)
  <2>1. SUFFICES ASSUME NEW i \in Held(l, v), i \notin Held(0, v) PROVE i \in OneMore(done, x)
    BY <1>3
  <2>2. i \in doneReg[0] /\ v \in LaneUnit(insn[i])
    BY <2>1, LaneZeroLeads
  <2>3. QED
    BY <1>2, <2>2 DEF OneMore
<1>5. cnt[v] = Len(q) + One(Stalled(v)) + One(done) + One(pending) + One(waiting)
  BY <1>1 DEF FlowInv, CountersExact
<1>6. IsFiniteSet(Elements(q)) /\ Cardinality(Elements(q)) = Len(q) /\ Len(q) \in Nat
  BY <1>1, QueueCount, IdsFinite
<1> HIDE DEF q, pending, waiting, done
<1> DEFINE E1 == Elements(q) \cup OneMore(pending, Pending(0)[1].id)
           E2 == E1 \cup OneMore(waiting, peReq.id)
           E3 == E2 \cup OneMore(done, x)
<1>7. IsFiniteSet(E1) /\ Cardinality(E1) <= Len(q) + One(pending)
  BY <1>6, CountOneMore
<1>8. IsFiniteSet(E2) /\ Cardinality(E2) <= Cardinality(E1) + One(waiting)
  <2> HIDE DEF E1
  <2> QED  BY <1>7, CountOneMore
<1>9. IsFiniteSet(E3) /\ Cardinality(E3) <= Cardinality(E2) + One(done)
  <2> HIDE DEF E2
  <2> QED  BY <1>8, CountOneMore
<1>10. Held(l, v) \subseteq E3
  BY <1>4
<1> HIDE DEF E1, E2, E3
<1>11. IsFiniteSet(Held(l, v)) /\ Cardinality(Held(l, v)) <= Cardinality(E3)
  BY <1>9, <1>10, FS_Subset
<1>12. /\ Cardinality(E1) \in Nat /\ Cardinality(E2) \in Nat /\ Cardinality(E3) \in Nat
       /\ Cardinality(Held(l, v)) \in Nat
  BY <1>7, <1>8, <1>9, <1>11, FS_CardinalityType
<1>13. One(Stalled(v)) \in Nat /\ One(done) \in Nat /\ One(pending) \in Nat /\ One(waiting) \in Nat
  BY DEF One
<1> DEFINE h == Cardinality(Held(l, v))
           st == One(Stalled(v))
           n == Len(q)
           c1 == Cardinality(E1)
           c2 == Cardinality(E2)
           c3 == Cardinality(E3)
           d == One(done)
           p == One(pending)
           w == One(waiting)
<1>14. /\ h \in Nat /\ st \in Nat /\ n \in Nat /\ c1 \in Nat /\ c2 \in Nat /\ c3 \in Nat
       /\ d \in Nat /\ p \in Nat /\ w \in Nat
       /\ cnt[v] = n + st + d + p + w
       /\ c1 <= n + p /\ c2 <= c1 + w /\ c3 <= c2 + d /\ h <= c3
  BY <1>5, <1>6, <1>7, <1>8, <1>9, <1>11, <1>12, <1>13
<1> HIDE DEF h, st, n, c1, c2, c3, d, p, w
<1>15. h + st <= cnt[v]
  BY <1>14
<1>16. QED
  BY <1>15 DEF h, st

LEMMA LanesHaveRoomStep ==
  ASSUME NEW laneDone, NEW unitDone, NEW free, NEW ack, NEW arrives,
         QueueStep(laneDone, unitDone, free, ack, arrives)
  PROVE  LanesHaveRoom'
<1>1. /\ FlowStep(laneDone, unitDone, free, ack, arrives) /\ QueueInv /\ FlowInv /\ BInv
      /\ BackendCycle(laneDone, unitDone, free, ack, arrives)
  BY DEF QueueStep, FlowStep, FlowInv
<1>2. SUFFICES ASSUME NEW l \in Lanes, NEW v \in LaneVFUs
               PROVE  Cardinality(Held(l, v)') <= InsnQueueDepth[v]
  BY DEF LanesHaveRoom
<1> DEFINE H == Held(l, v)
           H1 == Held(l, v)'
<1>3. /\ \A i \in H1 : i \in Ids
      /\ \A i \in Ids : i \in H1 => (New(i) /\ v \in LaneUnit(araReq.r)) \/ i \in H
  BY <1>1, HeldStep DEF Held
<1>4. /\ H \subseteq Ids /\ IsFiniteSet(H) /\ Cardinality(H) \in Nat
      /\ Cardinality(H) <= InsnQueueDepth[v] /\ InsnQueueDepth[v] \in Nat
  <2>1. H \subseteq Ids
    BY DEF Held
  <2>2. Cardinality(H) <= InsnQueueDepth[v]
    BY <1>1 DEF QueueInv, LanesHaveRoom
  <2>3. InsnQueueDepth[v] \in Nat
    BY DepthAssumption DEF VFUs, LaneVFUs
  <2>4. QED
    BY <2>1, <2>2, <2>3, IdsFinite
<1>5. IsFiniteSet(H1) /\ Cardinality(H1) \in Nat
  BY <1>3, IdsFinite
<1> HIDE DEF H, H1
<1>6. CASE \E n \in Ids : New(n) /\ v \in LaneUnit(araReq.r)
  <2>1. PICK n \in Ids : New(n) /\ v \in LaneUnit(araReq.r)
    BY <1>6
  <2>2. state = "IDLE" /\ araReq.valid /\ CanIssue
    BY <1>1, <2>1, CycleShape
  <2>3. ~DesynchedLanes /\ QueueIssue(v)
    BY <2>1, <2>2 DEF CanIssue, LaneUnit
  <2>4. Cardinality(H) + One(Stalled(v)) <= cnt[v]
    BY <1>1, <2>3, HeldIsCounted DEF H
  <2>5. cnt[v] < InsnQueueDepth[v] \/ (cnt[v] = InsnQueueDepth[v] /\ Stalled(v))
    BY <2>1, <2>2, <2>3 DEF QueueIssue, PriorityPass, Stalled, LaneUnit
  <2>6. One(Stalled(v)) \in Nat /\ (Stalled(v) => One(Stalled(v)) = 1)
    BY DEF One
  <2>7. cnt[v] \in Nat
    <3>1. v \in VFUs \ {"None"}
      BY DEF LaneVFUs, VFUs
    <3>2. QED
      BY <1>1, <3>1, CountersSay
  <2>8. Cardinality(H) < InsnQueueDepth[v]
    BY <1>4, <2>4, <2>5, <2>6, <2>7
  <2>9. \A i \in Ids : New(i) => i = n
    BY <2>1 DEF New
  <2>10. H1 \subseteq H \cup {n}
    BY <1>3, <2>9
  <2>11. IsFiniteSet(H \cup {n}) /\ Cardinality(H \cup {n}) <= Cardinality(H) + 1
    <3>1. /\ IsFiniteSet(H \cup {n})
          /\ Cardinality(H \cup {n}) = IF n \in H THEN Cardinality(H) ELSE Cardinality(H) + 1
      BY <1>4, FS_AddElement
    <3>2. QED
      BY <1>4, <3>1
  <2>12. Cardinality(H1) <= Cardinality(H \cup {n})
    BY <2>10, <2>11, FS_Subset
  <2>13. Cardinality(H \cup {n}) \in Nat
    BY <2>11, FS_CardinalityType
  <2>14. QED
    BY <1>4, <1>5, <2>8, <2>11, <2>12, <2>13 DEF H1
<1>7. CASE ~\E n \in Ids : New(n) /\ v \in LaneUnit(araReq.r)
  <2>1. H1 \subseteq H
    BY <1>3, <1>7
  <2>2. Cardinality(H1) <= Cardinality(H)
    BY <1>4, <2>1, FS_Subset
  <2>3. QED
    BY <1>4, <1>5, <2>2 DEF H1
<1>8. QED
  BY <1>6, <1>7

LEMMA NothingLostStep ==
  ASSUME NEW laneDone, NEW unitDone, NEW free, NEW ack, NEW arrives,
         QueueStep(laneDone, unitDone, free, ack, arrives)
  PROVE  lost' = {}
<1>1. /\ FlowStep(laneDone, unitDone, free, ack, arrives) /\ QueueInv /\ FlowInv /\ BInv
      /\ lost' = lost \cup Losses(free) /\ lost = {}
  BY DEF QueueStep, FlowStep, QueueInv, FlowInv, BackendCycle
<1>2. \A u \in Units : ~(Wants(u) /\ ~Accepts(u))
  BY <1>1, WantsAccepts
<1>3. ASSUME NEW l \in Lanes, NEW v \in LaneVFUs, Enters(l, free[l], v)
      PROVE  ~(Len(laneQueue[l][v]) >= InsnQueueDepth[v])
  <2>1. Pending(l) # <<>> /\ v \in LaneUnit(Pending(l)[1].r)
    BY <1>3 DEF Enters, Starts, Executes
  <2>2. Len(laneQueue[l][v]) < InsnQueueDepth[v]
    BY <1>1, <2>1, Room
  <2>3. Len(laneQueue[l][v]) \in Nat /\ InsnQueueDepth[v] \in Nat
    <3>1. laneQueue[l][v] \in Seq(Ids)
      BY <1>1 DEF BInv
    <3>2. InsnQueueDepth[v] \in Nat
      BY DepthAssumption DEF VFUs, LaneVFUs
    <3>3. QED
      BY <3>1, <3>2
  <2>4. QED
    BY <2>2, <2>3
<1>4. Losses(free) = {}
  BY <1>2, <1>3 DEF Losses
<1>5. QED
  BY <1>1, <1>4

-----------------------------------------------------------------------------
(***************************************************************************)
(* The invariant holds.                                                    *)
(***************************************************************************)
LEMMA QueueInitially == BInit => QueueInv
<1> SUFFICES ASSUME BInit PROVE QueueInv
  OBVIOUS
<1>1. FlowInv /\ lost = {}
  BY FlowInitially DEF BInit
<1>2. \A pe \in PEs : peRunning[pe] = {} /\ doneReg[pe] = {}
  BY DEF BInit, Init
<1>3. \A l \in Lanes, v \in LaneVFUs : Held(l, v) = {}
  <2>1. ~peReq.valid
    BY DEF BInit, Init, NoPeReq
  <2>2. \A l \in Lanes : \A i : ~OnItsWay(l, i)
    BY <2>1 DEF BInit, OnItsWay, Offered
  <2>3. \A l \in Lanes, v \in LaneVFUs : Elements(laneQueue[l][v]) = {}
    BY DEF BInit, Elements
  <2>4. QED
    BY <2>2, <2>3 DEF Held
<1>4. LanesForgetNothing /\ UnitsForgetNothing /\ DoneOnce
  <2>1. Lanes \subseteq PEs /\ 0 \in Lanes /\ \A u \in Units : PeOf(u) \in PEs
    BY LaneZero, PeOfLemma
  <2>2. QED
    BY <1>2, <2>1 DEF LanesForgetNothing, UnitsForgetNothing, DoneOnce, Runs
<1>5. LanesHaveRoom
  <2>1. Cardinality({}) = 0
    BY FS_EmptySet
  <2>2. \A v \in LaneVFUs : InsnQueueDepth[v] \in Nat
    BY DepthAssumption DEF VFUs, LaneVFUs
  <2>3. QED
    BY <1>3, <2>1, <2>2 DEF LanesHaveRoom
<1>6. ComparedTogether
  BY <1>3 DEF ComparedTogether
<1>7. QED
  BY <1>1, <1>4, <1>5, <1>6 DEF QueueInv

LEMMA QueueStutters == QueueInv /\ UNCHANGED bvars => QueueInv'
<1> SUFFICES ASSUME QueueInv, UNCHANGED bvars PROVE QueueInv'
  OBVIOUS
<1>1. FlowInv'
  BY FlowStutters DEF QueueInv
<1>2. UNCHANGED vars /\ UNCHANGED backendVars
  BY DEF bvars
<1>3. /\ \A l, i : OnItsWay(l, i)' <=> OnItsWay(l, i)
      /\ \A pe, i : Runs(pe, i)' <=> Runs(pe, i)
      /\ \A u : Wants(u)' <=> Wants(u)
      /\ insn' = insn /\ laneQueue' = laneQueue /\ unitQueue' = unitQueue /\ peReq' = peReq
      /\ doneReg' = doneReg /\ laneDoneReg' = laneDoneReg /\ lost' = lost
  BY <1>2 DEF vars, backendVars, OnItsWay, Offered, Runs, Wants
<1>4. \A l, v : Held(l, v)' = Held(l, v)
  BY <1>3 DEF Held
<1>5. LanesForgetNothing' /\ UnitsForgetNothing' /\ LanesHaveRoom'
  BY <1>3, <1>4 DEF QueueInv, LanesForgetNothing, UnitsForgetNothing, LanesHaveRoom
<1>6. DoneOnce' /\ ComparedTogether' /\ lost' = {}
  BY <1>3, <1>4 DEF QueueInv, DoneOnce, ComparedTogether
<1>7. QED
  BY <1>1, <1>5, <1>6 DEF QueueInv

LEMMA QueueNext == ~OutrunLanes /\ MovesApart /\ QueueInv /\ [BNext]_bvars => QueueInv'
<1> SUFFICES ASSUME ~OutrunLanes, MovesApart, QueueInv, [BNext]_bvars PROVE QueueInv'
  OBVIOUS
<1>1. CASE BNext
  <2>1. PICK laneDone, unitDone, free, ack, arrives :
          FlowStep(laneDone, unitDone, free, ack, arrives)
    BY <1>1, BackendFlow DEF QueueInv
  <2>2. QueueStep(laneDone, unitDone, free, ack, arrives)
    BY <2>1 DEF QueueStep
  <2>3. FlowInv'
    BY <2>1, FlowStepInv
  <2>4. LanesForgetNothing' /\ UnitsForgetNothing' /\ LanesHaveRoom'
    BY <2>2, LanesForgetNothingStep, UnitsForgetNothingStep, LanesHaveRoomStep
  <2>5. DoneOnce' /\ ComparedTogether' /\ lost' = {}
    BY <2>2, DoneOnceStep, ComparedTogetherStep, NothingLostStep
  <2>6. QED
    BY <2>3, <2>4, <2>5 DEF QueueInv
<1>2. CASE UNCHANGED bvars
  BY <1>2, QueueStutters
<1>3. QED
  BY <1>1, <1>2

LEMMA QueueAlways ==
  ASSUME ~OutrunLanes, MovesApart
  PROVE  BSpec => []QueueInv
<1>1. QueueInv /\ [BNext]_bvars => QueueInv'
  BY QueueNext
<1>2. QED
  BY <1>1, QueueInitially, PTL DEF BSpec

\* No instruction reaches a full queue, though the sequencer counts those of lane
\* 0 only: what another lane holds is held, or has just been finished, by lane 0
\* whenever a request is issued.
THEOREM QueuesNeverOverflowAlways ==
  ASSUME ~OutrunLanes, MovesApart
  PROVE  BSpec => []QueuesNeverOverflow
<1>1. QueueInv => QueuesNeverOverflow
  BY DEF QueueInv, QueuesNeverOverflow
<1>2. QED
  BY <1>1, QueueAlways, PTL

\* What is marked as running on a lane or a unit is in one of its queues or on
\* its way there.
THEOREM NothingForgottenAlways ==
  ASSUME ~OutrunLanes, MovesApart
  PROVE  BSpec => []NothingForgotten
<1>1. QueueInv => NothingForgotten
  <2>1. SUFFICES ASSUME QueueInv PROVE NothingForgotten
    OBVIOUS
  <2>2. /\ \A l \in Lanes : peRunning[l] \subseteq Ids
        /\ \A u \in Units : peRunning[PeOf(u)] \subseteq Ids
    <3>1. peRunning \in [PEs -> SUBSET Ids]
      BY <2>1 DEF QueueInv, FlowInv, BInv, Inv, TypeOK
    <3>2. QED
      BY <3>1, LaneZero, PeOfLemma
  <2>3. ASSUME NEW l \in Lanes, NEW i \in peRunning[l] \ doneReg[l]
        PROVE  OnItsWay(l, i) \/ \E v \in LaneVFUs : i \in Elements(laneQueue[l][v])
    <3>1. Runs(l, i) /\ i \in Ids
      BY <2>2, <2>3 DEF Runs
    <3>2. PICK v \in LaneVFUs : i \in Held(l, v)
      BY <2>1, <3>1 DEF QueueInv, LanesForgetNothing
    <3>3. QED
      BY <3>2 DEF Held
  <2>4. ASSUME NEW u \in Units, NEW i \in peRunning[PeOf(u)] \ doneReg[PeOf(u)]
        PROVE  (peReq.valid /\ peReq.id = i) \/ i \in Elements(unitQueue[u])
    <3>1. Runs(PeOf(u), i) /\ i \in Ids
      BY <2>2, <2>4 DEF Runs
    <3>2. QED
      BY <2>1, <3>1 DEF QueueInv, UnitsForgetNothing, Wants
  <2>5. QED
    BY <2>3, <2>4 DEF NothingForgotten
<1>2. QED
  BY <1>1, QueueAlways, PTL

-----------------------------------------------------------------------------
(***************************************************************************)
(* The order of the writers of a register.  A shorter instruction may end  *)
(* before the one whose register it overwrites; the write list then names  *)
(* neither, and who comes next waits for nobody (see the README).  That no *)
(* such instruction is requested is the third assumption.                  *)
(***************************************************************************)
\* All that write a register are of the same length, and a reduction, which no
\* lane mutes, has an element in every lane.
NoneShorter ==
  /\ \A r, s \in Requests : r.vd = s.vd /\ r.vd # {} => r.vl = s.vl
  /\ \A r \in Requests : Reduction(r) => NrLanes <= r.vl

SameDest(i, h) == insn[i].vd = insn[h].vd /\ insn[i].vd # {}

\* An instruction that waits for a writer of its own destination ends in no lane
\* before that one has, and in lane 0 not before the other units have.
WritersEndInOrder ==
  \A i \in Running : \A h \in hazardTable[i] : SameDest(i, h) =>
    /\ vfu(insn[i].op) \in LaneVFUs =>
         /\ \A l \in Lanes : ~Runs(l, i) => h \notin peRunning[l]
         /\ ~Runs(0, i) => \A u \in Units : h \notin peRunning[PeOf(u)]
    /\ vfu(insn[i].op) \notin LaneVFUs => Runs(PeOf(vfu(insn[i].op)), i)

\* What is shown to the lanes was issued last.
YoungestShown == peReq.valid => \A i \in Running : peReq.id \notin older[i]

\* An instruction without an element in a lane is not queued there.
QueuedHere ==
  \A l \in Lanes, v \in LaneVFUs : \A i \in Elements(laneQueue[l][v]) :
    vfu(insn[i].op) \in LaneVFUs => Reduction(insn[i]) \/ l < insn[i].vl

\* The write list names the youngest running writer of a register, if any.
WritersListed ==
  \A v \in VRegs :
    /\ \A y \in Writer(v) : v \in insn[y].vd
    /\ \A i \in Running : v \in insn[i].vd => \E y \in Writer(v) : y = i \/ i \in older[y]

\* An instruction waits directly for a writer that waits for the older ones.
ChainStarts ==
  \A i \in Running : \A w \in older[i] :
    \A v \in insn[w].vd \cap (Reads(insn[i]) \cup insn[i].vd) :
      \E h \in hazardTable[i] : v \in insn[h].vd /\ (h = w \/ w \in older[h])

ChainInv ==
  /\ QueueInv
  /\ WritersEndInOrder /\ YoungestShown /\ QueuedHere /\ WritersListed /\ ChainStarts

ChainStep(laneDone, unitDone, free, ack, arrives) ==
  QueueStep(laneDone, unitDone, free, ack, arrives) /\ ChainInv /\ NoneShorter

LEMMA PesAre == \A pe \in PEs : pe \in Lanes \/ \E u \in Units : pe = PeOf(u)
<1>1. /\ PeOf("LoadUnit") = NrLanes /\ PeOf("StoreUnit") = NrLanes + 1
      /\ PeOf("MaskUnit") = NrLanes + 2 /\ PeOf("SlideUnit") = NrLanes + 3
      /\ Units = {"LoadUnit", "StoreUnit", "MaskUnit", "SlideUnit"}
  BY DEF PeOf, PeLoad, PeStore, PeMask, PeSlide, Units
<1>2. ASSUME NEW pe \in PEs
      PROVE  pe \in Lanes \/ pe \in {NrLanes, NrLanes + 1, NrLanes + 2, NrLanes + 3}
  BY NrLanesAssumption DEF PEs, Lanes
<1>3. QED
  BY <1>1, <1>2

\* An instruction that waits for a writer of its own destination does not end.
LEMMA StaysRunning ==
  ASSUME ChainInv, NEW i \in Running, NEW h \in hazardTable[i], SameDest(i, h)
  PROVE  \E pe \in PEs : Runs(pe, i)
<1>1. /\ FlowInv /\ BInv /\ Inv /\ TypeOK /\ WritersEndInOrder
  BY DEF ChainInv, QueueInv, FlowInv, BInv, Inv
<1>2. i \in Ids /\ insn[i] \in Requests /\ h \in Running
  BY <1>1 DEF Inv, TypeOK, Running, HazardsPointBack, AgeIsOrder
<1>3. CASE vfu(insn[i].op) \in LaneVFUs
  <2>1. SUFFICES ASSUME \A pe \in PEs : ~Runs(pe, i) PROVE FALSE
    OBVIOUS
  <2>2. \A l \in Lanes : h \notin peRunning[l]
    BY <1>1, <1>3, <2>1, LaneZero DEF WritersEndInOrder
  <2>3. \A u \in Units : h \notin peRunning[PeOf(u)]
    BY <1>1, <1>3, <2>1, LaneZero DEF WritersEndInOrder
  <2>4. \A pe \in PEs : h \notin peRunning[pe]
    BY <2>2, <2>3, PesAre
  <2>5. QED
    BY <1>2, <2>4, RunningDef
<1>4. CASE vfu(insn[i].op) \notin LaneVFUs
  <2>1. insn[i].op \notin {"VMVXS"}
    BY <1>2, DispatcherAssumption DEF SameDest
  <2>2. vfu(insn[i].op) \in Units
    BY <1>2, <1>4, <2>1, OpsLemma DEF vfu, Units, LaneVFUs, Loads, Stores
  <2>3. Runs(PeOf(vfu(insn[i].op)), i)
    BY <1>1, <1>4 DEF WritersEndInOrder
  <2>4. QED
    BY <2>2, <2>3, PeOfLemma
<1>5. QED
  BY <1>3, <1>4

\* How the rows, the ages and the write list follow from a cycle.
LEMMA QuietRows ==
  ASSUME BInv, TrackOnly(doneReg), RefreshLists
  PROVE  /\ \A i \in Ids : /\ hazardTable'[i] = hazardTable[i] \cap Running'
                           /\ older'[i] = older[i] \cap Running'
         /\ \A v \in VRegs : writeList'[v] = Writer(v)
<1>1. UNION {[p \in PEs |-> peRunning[p] \ doneReg[p]][pe] : pe \in PEs} = Running'
  BY DEF TrackOnly, Running
<1>2. QED
  BY <1>1 DEF TrackOnly, RefreshLists

LEMMA RowsShape ==
  ASSUME BInv,
         NEW laneDone, NEW unitDone, NEW free, NEW ack, NEW arrives,
         BackendCycle(laneDone, unitDone, free, ack, arrives)
  PROVE  /\ \A i \in Ids : ~New(i) /\ i \in Running' =>
              /\ hazardTable'[i] = hazardTable[i] \cap Running'
              /\ older'[i] = older[i] \cap Running'
         /\ \A i \in Ids : New(i) /\ i \in Running' =>
              /\ hazardTable'[i] = AllHazards(Hazards(araReq.r)) \cap Running'
              /\ older'[i] = Running \cap Running'
         /\ \A v \in VRegs : \/ writeList'[v] = Writer(v) /\ \A i \in Ids : New(i) => v \notin araReq.r.vd
                             \/ \E i \in Ids : New(i) /\ v \in araReq.r.vd /\ writeList'[v] = {i}
<1> DEFINE fuDone == laneDoneReg \cup {u \in Units : doneReg[PeOf(u)] # {}}
           sv == ScalarValid(unitDone)
           Goal == /\ \A i \in Ids : ~New(i) /\ i \in Running' =>
                        /\ hazardTable'[i] = hazardTable[i] \cap Running'
                        /\ older'[i] = older[i] \cap Running'
                   /\ \A i \in Ids : New(i) /\ i \in Running' =>
                        /\ hazardTable'[i] = AllHazards(Hazards(araReq.r)) \cap Running'
                        /\ older'[i] = Running \cap Running'
                   /\ \A v \in VRegs : \/ writeList'[v] = Writer(v) /\ \A i \in Ids : New(i) => v \notin araReq.r.vd
                                       \/ \E i \in Ids : New(i) /\ v \in araReq.r.vd /\ writeList'[v] = {i}
<1> SUFFICES Goal
  OBVIOUS
<1>1. peRunning \in [PEs -> SUBSET Ids] /\ peReq \in [valid : BOOLEAN, id : Ids, r : Requests, hz : HazardType]
  BY DEF BInv, Inv, TypeOK
<1>2. Cycle(doneReg, fuDone, LanesReady, ack, sv)
  BY DEF BackendCycle
<1>3. ASSUME TrackOnly(doneReg), RefreshLists, \A i \in Ids : ~New(i)
      PROVE  Goal
  BY <1>3, QuietRows
<1> HIDE DEF fuDone, Goal
<1>4. CASE HoldBroadcast(doneReg, fuDone, LanesReady)
  <2>1. Stays /\ TrackOnly(doneReg) /\ RefreshLists
    BY <1>4 DEF HoldBroadcast, BroadcastStuck, Stays
  <2>2. \A i \in Ids : ~New(i)
    BY <2>1 DEF New
  <2>3. QED
    BY <1>3, <2>1, <2>2
<1>5. CASE NoRequest(doneReg, fuDone, LanesReady) \/ PEsBusy(doneReg, fuDone, LanesReady)
  <2>1. peReq' = NoPeReq /\ TrackOnly(doneReg) /\ RefreshLists
    BY <1>5 DEF NoRequest, PEsBusy
  <2>2. \A i \in Ids : ~New(i)
    BY <2>1 DEF New, NoPeReq
  <2>3. QED
    BY <1>3, <2>1, <2>2
<1>6. CASE HazardStall(doneReg, fuDone, LanesReady)
  <2> DEFINE row == AllHazards(Hazards(araReq.r))
  <2>1. /\ peReq'.valid = FALSE /\ CanIssue /\ RefreshLists
        /\ Track(doneReg, {}, NextId, row)
    BY <1>6 DEF HazardStall
  <2>2. \A i \in Ids : ~New(i)
    BY <2>1 DEF New
  <2>3. NextId \notin Running
    BY <2>1, NextIdLemma DEF CanIssue
  <2>4. peRunning' = RunningNext(doneReg, {}, NextId)
    BY <2>1 DEF Track
  <2>5. UNION {RunningNext(doneReg, {}, NextId)[pe] : pe \in PEs} = Running'
    BY <2>4 DEF Running
  <2>6. Running' \subseteq Running
    <3>1. \A pe \in PEs : peRunning'[pe] \subseteq peRunning[pe]
      BY <2>4 DEF RunningNext
    <3>2. QED
      BY <3>1 DEF Running
  <2> HIDE DEF row
  <2>7. \A i \in Ids : /\ i # NextId => hazardTable'[i] = hazardTable[i] \cap Running'
                       /\ older'[i] = older[i] \cap Running'
    BY <2>1, <2>5 DEF Track
  <2>8. \A v \in VRegs : writeList'[v] = Writer(v)
    BY <2>1 DEF RefreshLists
  <2>9. QED
    BY <2>2, <2>3, <2>6, <2>7, <2>8 DEF Goal
<1>7. CASE Issue(doneReg, fuDone, LanesReady)
  <2> DEFINE f == NextId
             r == araReq.r
             row == AllHazards(Hazards(r))
  <2>1. /\ ~Stays /\ CanIssue /\ peReq'.valid = TRUE /\ peReq'.id = f
        /\ Track(doneReg, RunsOn(r), f, row)
        /\ writeList' = [v \in VRegs |-> IF v \in r.vd THEN {f} ELSE Writer(v)]
    BY <1>7 DEF Issue, BroadcastStuck, Stays
  <2>2. f \in Ids /\ f \notin Running
    BY <2>1, NextIdLemma DEF CanIssue
  <2>3. \A i \in Ids : New(i) <=> i = f
    BY <2>1 DEF New
  <2>4. peRunning' = RunningNext(doneReg, RunsOn(r), f)
    BY <2>1 DEF Track
  <2>5. UNION {RunningNext(doneReg, RunsOn(r), f)[pe] : pe \in PEs} = Running'
    BY <2>4 DEF Running
  <2>6. f \in Running' => RunsOn(r) # {}
    <3>1. ASSUME RunsOn(r) = {} PROVE \A pe \in PEs : peRunning'[pe] \subseteq peRunning[pe]
      BY <2>4, <3>1 DEF RunningNext
    <3>2. ASSUME RunsOn(r) = {} PROVE Running' \subseteq Running
      BY <3>1, <3>2 DEF Running
    <3>3. QED
      BY <2>2, <3>2
  <2> HIDE DEF f, r, row
  <2>7. \A i \in Ids :
          /\ hazardTable'[i] = (IF i = f THEN row ELSE hazardTable[i]) \cap Running'
          /\ older'[i] = (IF i = f /\ RunsOn(r) # {} THEN Running ELSE older[i]) \cap Running'
    BY <2>1, <2>5 DEF Track
  <2>8. \A v \in VRegs : writeList'[v] = IF v \in r.vd THEN {f} ELSE Writer(v)
    BY <2>1
  <2>9. QED
    BY <2>2, <2>3, <2>6, <2>7, <2>8 DEF Goal, r, row
<1>8. CASE StayInWait(doneReg, fuDone, LanesReady, ack, sv) \/ Answer(doneReg, fuDone, LanesReady, ack, sv)
  <2>1. state = "WAIT" /\ TrackOnly(doneReg) /\ RefreshLists
    BY <1>8 DEF StayInWait, Answer
  <2>2. \A i \in Ids : ~New(i)
    BY <2>1, CycleShape
  <2>3. QED
    BY <1>3, <2>1, <2>2
<1>9. QED
  BY <1>2, <1>4, <1>5, <1>6, <1>7, <1>8 DEF Cycle

-----------------------------------------------------------------------------
(***************************************************************************)
(* What a step does.                                                       *)
(***************************************************************************)
LEMMA SameLength ==
  ASSUME BInv, NoneShorter, NEW i \in Ids, NEW h \in Ids, SameDest(i, h)
  PROVE  insn[i].vl = insn[h].vl /\ ~Overtakes(i, h)
<1>1. insn[i] \in Requests /\ insn[h] \in Requests
  BY DEF BInv, Inv, TypeOK
<1>2. insn[i].vl \in Nat /\ insn[h].vl \in Nat
  BY <1>1, RequestsAssumption DEF RequestType
<1>3. insn[i].vl = insn[h].vl
  BY <1>1 DEF NoneShorter, SameDest
<1>4. QED
  BY <1>2, <1>3 DEF Overtakes

\* A destination is one register.
LEMMA OneDest ==
  ASSUME BInv, NEW i \in Ids, NEW h \in Ids, NEW v, v \in insn[i].vd, v \in insn[h].vd
  PROVE  SameDest(i, h)
<1>1. insn[i] \in Requests /\ insn[h] \in Requests
  BY DEF BInv, Inv, TypeOK
<1>2. insn[i].vd \in Operand /\ insn[h].vd \in Operand
  BY <1>1, RequestsAssumption DEF RequestType
<1>3. QED
  BY <1>2 DEF Operand, SameDest

LEMMA NewNotDone ==
  ASSUME NEW laneDone, NEW unitDone, NEW free, NEW ack, NEW arrives,
         FlowStep(laneDone, unitDone, free, ack, arrives),
         NEW i \in Ids, New(i)
  PROVE  \A pe \in PEs : i \notin doneReg'[pe]
<1>1. FlowInv
  BY DEF FlowStep
<1>2. ASSUME NEW l \in Lanes, i \in doneReg'[l] PROVE FALSE
  <2>1. CASE \E v \in LaneVFUs : laneQueue[l][v] # <<>> /\ i = Head(laneQueue[l][v])
    BY <1>1, <2>1, NotNew, HeadWasThere
  <2>2. CASE Pending(l) # <<>> /\ i = Pending(l)[1].id
    BY <1>1, <2>2, NotNew, PendingIs
  <2>3. QED
    BY <1>2, <2>1, <2>2, DoneInLane
<1>3. ASSUME NEW u \in Units, i \in doneReg'[PeOf(u)] PROVE FALSE
  <2>1. u \in unitDone /\ i = Head(unitQueue[u])
    BY <1>3, DoneStep
  <2>2. unitQueue[u] # <<>> /\ unitQueue[u] \in Seq(Ids)
    BY <1>1, <2>1, DoneStep DEF FlowInv, BInv
  <2>3. i \in Elements(unitQueue[u])
    BY <2>1, <2>2, TailElements
  <2>4. QED
    BY <2>3, NotNew
<1>4. QED
  BY <1>2, <1>3, PesAre

\* What an id that is not new keeps.
LEMMA OldKeeps ==
  ASSUME NEW laneDone, NEW unitDone, NEW free, NEW ack, NEW arrives,
         FlowStep(laneDone, unitDone, free, ack, arrives),
         NEW i \in Running', ~New(i)
  PROVE  /\ i \in Ids /\ i \in Running /\ insn'[i] = insn[i]
         /\ \A pe \in PEs : i \in peRunning'[pe] <=> Runs(pe, i)
         /\ hazardTable'[i] = hazardTable[i] \cap Running'
         /\ older'[i] = older[i] \cap Running'
<1>1. BInv /\ BackendCycle(laneDone, unitDone, free, ack, arrives) /\ Running' \subseteq Ids
  BY DEF FlowStep, FlowInv, BInv, Inv, TypeOK, Running
<1>2. \A pe \in PEs : i \in peRunning'[pe] <=> Runs(pe, i)
  BY <1>1, CycleShape
<1>3. i \in Running
  BY <1>2 DEF Running, Runs
<1>4. insn'[i] = insn[i]
  BY <1>1, CycleShape
<1>5. \A j \in Ids : ~New(j) /\ j \in Running' =>
        /\ hazardTable'[j] = hazardTable[j] \cap Running'
        /\ older'[j] = older[j] \cap Running'
  BY <1>1, RowsShape
<1>6. QED
  BY <1>1, <1>2, <1>3, <1>4, <1>5

\* A new one runs where it should and waits for what its hazards name.
LEMMA NewGets ==
  ASSUME NEW laneDone, NEW unitDone, NEW free, NEW ack, NEW arrives,
         FlowStep(laneDone, unitDone, free, ack, arrives),
         NEW i \in Ids, New(i)
  PROVE  /\ i \notin Running /\ insn'[i] = araReq.r /\ araReq.r \in Requests
         /\ \A j \in Ids : New(j) => j = i
         /\ \A pe \in RunsOn(araReq.r) : Runs(pe, i)'
         /\ i \in Running' => /\ hazardTable'[i] = AllHazards(Hazards(araReq.r)) \cap Running'
                              /\ older'[i] = Running \cap Running'
<1>1. BInv /\ BackendCycle(laneDone, unitDone, free, ack, arrives) /\ araReq.r \in Requests
  BY DEF FlowStep, FlowInv, BInv, Inv, TypeOK
<1>2. /\ i \notin Running /\ insn'[i] = araReq.r
      /\ \A pe \in PEs : i \in peRunning'[pe] <=> pe \in RunsOn(araReq.r)
  BY <1>1, CycleShape
<1>3. RunsOn(araReq.r) \subseteq PEs
  BY <1>1, RunsOnLemma
<1>4. \A pe \in RunsOn(araReq.r) : Runs(pe, i)'
  BY <1>2, <1>3, NewNotDone DEF Runs
<1>5. i \in Running' => /\ hazardTable'[i] = AllHazards(Hazards(araReq.r)) \cap Running'
                        /\ older'[i] = Running \cap Running'
  BY <1>1, RowsShape
<1>6. \A j \in Ids : New(j) => j = i
  BY DEF New
<1>7. QED
  BY <1>1, <1>2, <1>4, <1>5, <1>6

\* In a lane that ends the younger one, the older one is not waiting any more.
LEMMA NotMutedBefore ==
  ASSUME QueueInv, YoungestShown, QueuedHere, NoneShorter,
         NEW l \in Lanes, NEW b, Mutes(l, b),
         NEW i \in Running, i = Pending(l)[1].id,
         NEW h \in older[i], SameDest(i, h)
  PROVE  ~Runs(l, h)
<1>1. FlowInv /\ BInv /\ TypeOK /\ AgeIsOrder
  BY DEF QueueInv, FlowInv, BInv, Inv
<1>2. /\ i \in Ids /\ h \in Ids /\ h \in Running /\ i # h
      /\ insn[i] \in Requests /\ insn[h] \in Requests /\ peReq.id \in Ids
  BY <1>1 DEF TypeOK, Running, AgeIsOrder
<1>3. SUFFICES ASSUME Runs(l, h) PROVE FALSE
  OBVIOUS
<1>4. PICK v \in LaneVFUs : h \in Held(l, v)
  BY <1>2, <1>3 DEF QueueInv, LanesForgetNothing
<1>5. Pending(l) # <<>> /\ OnItsWay(l, i) /\ Pending(l)[1].r = insn[i]
  BY <1>1, PendingIs DEF Mutes, Starts, Executes
<1>6. l >= insn[i].vl /\ insn[i].vl = insn[h].vl /\ insn[h].vl \in Nat /\ l \in Nat /\ l < NrLanes
      /\ NrLanes \in Nat
  <2>1. l >= insn[i].vl
    BY <1>5 DEF Mutes
  <2>2. insn[i].vl = insn[h].vl
    BY <1>1, <1>2, SameLength
  <2>3. insn[h].vl \in Nat
    BY <1>2, RequestsAssumption DEF RequestType
  <2>4. l \in Nat /\ l < NrLanes /\ NrLanes \in Nat
    BY NrLanesAssumption DEF Lanes
  <2>5. QED
    BY <2>1, <2>2, <2>3, <2>4
<1>7. CASE h \in Elements(laneQueue[l][v])
  <2>1. vfu(insn[h].op) \in LaneVFUs
    <3>1. l \in RunsOn(insn[h])
      BY <1>1, <1>3, LaneZero DEF FlowInv, RunsWhereItShould, Runs
    <3>2. QED
      BY <1>2, <3>1, RunsOnShape
  <2>2. Reduction(insn[h]) \/ l < insn[h].vl
    BY <1>7, <2>1 DEF QueuedHere
  <2>3. Reduction(insn[h]) => NrLanes <= insn[h].vl
    BY <1>2 DEF NoneShorter
  <2>4. QED
    BY <1>6, <2>2, <2>3
<1>8. CASE OnItsWay(l, h)
  <2>1. \/ Offered(l) /\ peReq.id = h
        \/ laneReg[l] # <<>> /\ laneReg[l][1].id = h
    BY <1>1, <1>2, <1>8, OnItsWayShape
  <2>2. CASE laneReg[l] # <<>>
    <3>1. laneReg[l][1].id = i
      BY <2>2 DEF Pending
    <3>2. peReq.valid /\ peReq.id = h
      BY <1>2, <2>1, <3>1 DEF Offered
    <3>3. QED
      BY <1>1, <1>2, <3>2 DEF YoungestShown
  <2>3. CASE laneReg[l] = <<>>
    <3>1. Pending(l)[1].id = peReq.id
      BY <1>5, <2>3 DEF Pending
    <3>2. QED
      BY <1>2, <2>1, <2>3, <3>1
  <2>4. QED
    BY <2>2, <2>3
<1>9. QED
  BY <1>4, <1>7, <1>8 DEF Held

LEMMA WritersEndInOrderStep ==
  ASSUME NEW laneDone, NEW unitDone, NEW free, NEW ack, NEW arrives,
         ChainStep(laneDone, unitDone, free, ack, arrives)
  PROVE  WritersEndInOrder'
<1>1. /\ FlowStep(laneDone, unitDone, free, ack, arrives) /\ QueueInv /\ FlowInv /\ BInv /\ BInv'
      /\ NoneShorter /\ YoungestShown /\ QueuedHere /\ WritersEndInOrder
  BY DEF ChainStep, QueueStep, FlowStep, FlowInv, ChainInv
<1>2. /\ insn \in [Ids -> Requests] /\ HazardsPointBack /\ HazardsPointBack' /\ AgeIsOrder /\ AgeIsOrder'
  BY <1>1 DEF BInv, Inv, TypeOK
<1>3. Running' \subseteq Ids
  BY <1>1 DEF BInv, Inv, TypeOK, Running
<1>4. SUFFICES ASSUME NEW i \in Running', NEW h \in hazardTable'[i],
                      insn'[i].vd = insn'[h].vd, insn'[i].vd # {}
               PROVE  /\ vfu(insn'[i].op) \in LaneVFUs =>
                           /\ \A l \in Lanes : ~Runs(l, i)' => h \notin peRunning'[l]
                           /\ ~Runs(0, i)' => \A x \in Units : h \notin peRunning'[PeOf(x)]
                      /\ \A u : u = vfu(insn'[i].op) /\ u \notin LaneVFUs =>
                           i \in peRunning'[PeOf(u)] \ doneReg'[PeOf(u)]
  BY DEF WritersEndInOrder, SameDest, Runs
<1>5. i \in Ids /\ h \in Ids /\ h \in Running' /\ h \in older'[i] /\ i # h
  BY <1>2, <1>3, <1>4 DEF HazardsPointBack, AgeIsOrder
<1>6. CASE New(i)
  <2>1. /\ insn'[i] = araReq.r /\ araReq.r \in Requests
        /\ \A pe \in RunsOn(araReq.r) : Runs(pe, i)'
    BY <1>1, <1>5, <1>6, NewGets
  <2>2. CASE vfu(araReq.r.op) \in LaneVFUs
    <3>1. \A l \in Lanes : Runs(l, i)'
      BY <2>1, <2>2, RunsOnShape
    <3>2. QED
      BY <2>1, <2>2, <3>1, LaneZero
  <2>3. CASE vfu(araReq.r.op) \notin LaneVFUs
    <3>1. araReq.r.op # "VMVXS"
      BY <1>4, <2>1, DispatcherAssumption
    <3>2. PICK u \in Units : u = vfu(araReq.r.op)
      BY <2>1, <2>3, <3>1, OpsLemma DEF vfu, Units, LaneVFUs, Loads, Stores
    <3>3. Takes(u, araReq.r) /\ ~Reduction(araReq.r)
      BY <2>1, <2>3, <3>2, RunsOnShape DEF Takes, Units
    <3>4. PeOf(u) \in RunsOn(araReq.r)
      BY <2>1, <3>3, RunsOnShape
    <3>5. Runs(PeOf(u), i)'
      BY <2>1, <3>4
    <3>6. QED
      BY <2>1, <2>3, <3>2, <3>5 DEF Runs
  <2>4. QED
    BY <2>2, <2>3
<1>7. CASE ~New(i)
  <2>1. /\ i \in Running /\ insn'[i] = insn[i]
        /\ \A pe \in PEs : i \in peRunning'[pe] <=> Runs(pe, i)
        /\ h \in hazardTable[i]
    BY <1>1, <1>4, <1>7, OldKeeps
  <2>2. h \in older[i] /\ h \in Running
    BY <1>2, <1>5, <2>1 DEF HazardsPointBack, AgeIsOrder
  <2>3. ~New(h)
    BY <1>1, <1>5, <2>2, NewGets
  <2>4. /\ insn'[h] = insn[h]
        /\ \A pe \in PEs : h \in peRunning'[pe] <=> Runs(pe, h)
    BY <1>1, <1>5, <2>3, OldKeeps
  <2>5. SameDest(i, h) /\ ~Overtakes(i, h)
    <3>1. SameDest(i, h)
      BY <1>4, <2>1, <2>4 DEF SameDest
    <3>2. QED
      BY <1>1, <1>5, <3>1, SameLength
  <2>6. /\ vfu(insn[i].op) \in LaneVFUs =>
             /\ \A l \in Lanes : ~Runs(l, i) => h \notin peRunning[l]
             /\ ~Runs(0, i) => \A u \in Units : h \notin peRunning[PeOf(u)]
        /\ vfu(insn[i].op) \notin LaneVFUs => Runs(PeOf(vfu(insn[i].op)), i)
    BY <1>1, <2>1, <2>5 DEF WritersEndInOrder
  <2>7. ASSUME NEW l \in Lanes, ~Runs(l, i)', Runs(l, i)
        PROVE  \/ h \notin peRunning[l] /\ \A pe \in PEs \ Lanes : h \notin peRunning[pe]
               \/ Mutes(l, free[l]) /\ i = Pending(l)[1].id
    <3>1. i \in doneReg'[l]
      BY <2>1, <2>7, LaneZero DEF Runs
    <3>2. CASE Mutes(l, free[l]) /\ Pending(l) # <<>> /\ i = Pending(l)[1].id
      BY <3>2
    <3>3. ASSUME NEW v \in LaneVFUs, LaneMayFinish(l, v), i = Head(laneQueue[l][v])
          PROVE  h \notin peRunning[l] /\ \A pe \in PEs \ Lanes : h \notin peRunning[pe]
      BY <2>1, <2>5, <3>3 DEF LaneMayFinish
    <3>4. QED
      BY <1>1, <3>1, <3>2, <3>3, DoneInLane
  <2>8. CASE vfu(insn[i].op) \in LaneVFUs
    <3>1. ASSUME NEW l \in Lanes, ~Runs(l, i)' PROVE h \notin peRunning'[l]
      <4>1. CASE ~Runs(l, i)
        BY <2>4, <2>6, <2>8, <4>1, LaneZero DEF Runs
      <4>2. CASE Runs(l, i) /\ Mutes(l, free[l]) /\ i = Pending(l)[1].id
        BY <1>1, <2>1, <2>2, <2>4, <2>5, <4>2, NotMutedBefore, LaneZero
      <4>3. QED
        BY <2>4, <2>7, <3>1, <4>1, <4>2, LaneZero DEF Runs
    <3>2. ASSUME ~Runs(0, i)', NEW u \in Units PROVE h \notin peRunning'[PeOf(u)]
      <4>1. CASE ~Runs(0, i)
        BY <2>4, <2>6, <2>8, <4>1, PeOfLemma DEF Runs
      <4>2. CASE Runs(0, i)
        <5>1. ~Mutes(0, free[0])
          BY <1>1, LaneZeroTakesPart
        <5>2. \A pe \in PEs \ Lanes : h \notin peRunning[pe]
          BY <2>7, <3>2, <4>2, <5>1, LaneZero
        <5>3. QED
          BY <2>4, <5>2, PeOfLemma DEF Runs
      <4>3. QED
        BY <4>1, <4>2
    <3>3. QED
      BY <2>1, <2>8, <3>1, <3>2
  <2>9. CASE vfu(insn[i].op) \notin LaneVFUs
    <3>1. insn[i] \in Requests /\ insn[i].vd # {}
      BY <1>2, <1>5, <2>5 DEF SameDest
    <3>2. insn[i].op # "VMVXS"
      BY <3>1, DispatcherAssumption
    <3>3. PICK u \in Units : u = vfu(insn[i].op)
      BY <2>9, <3>1, <3>2, OpsLemma DEF vfu, Units, LaneVFUs, Loads, Stores
    <3>4. Runs(PeOf(u), i) /\ PeOf(u) \in PEs
      BY <2>6, <2>9, <3>3, PeOfLemma
    <3>5. ASSUME i \in doneReg'[PeOf(u)] PROVE FALSE
      <4>1. u \in unitDone /\ i = Head(unitQueue[u]) /\ UnitMayFinish(u)
        BY <1>1, <1>5, <3>5, DoneStep
      <4>2. \A w \in hazardTable[i] : Overtakes(i, w) \/ w \notin Running
        BY <3>3, <4>1 DEF UnitMayFinish
      <4>3. QED
        BY <2>1, <2>2, <2>5, <4>2
    <3>6. QED
      BY <2>1, <2>9, <3>3, <3>4, <3>5
  <2>10. QED
    BY <2>8, <2>9
<1>8. QED
  BY <1>6, <1>7

LEMMA YoungestShownStep ==
  ASSUME NEW laneDone, NEW unitDone, NEW free, NEW ack, NEW arrives,
         ChainStep(laneDone, unitDone, free, ack, arrives)
  PROVE  YoungestShown'
<1>1. /\ FlowStep(laneDone, unitDone, free, ack, arrives) /\ BInv /\ BInv' /\ YoungestShown
      /\ BackendCycle(laneDone, unitDone, free, ack, arrives)
  BY DEF ChainStep, QueueStep, FlowStep, FlowInv, ChainInv
<1>2. AgeIsOrder /\ Running' \subseteq Ids /\ peReq'.id \in Ids
  BY <1>1 DEF BInv, Inv, TypeOK, Running
<1>3. SUFFICES ASSUME peReq'.valid, NEW i \in Running' PROVE peReq'.id \notin older'[i]
  BY DEF YoungestShown
<1>4. CASE New(peReq'.id)
  <2>1. peReq'.id \notin Running
    BY <1>1, <1>2, <1>4, NewGets
  <2>2. older'[i] \subseteq Running
    <3>1. CASE New(i)
      BY <1>1, <1>2, <3>1, NewGets
    <3>2. CASE ~New(i)
      BY <1>1, <1>2, <3>2, OldKeeps DEF AgeIsOrder
    <3>3. QED
      BY <3>1, <3>2
  <2>3. QED
    BY <2>1, <2>2
<1>5. CASE ~New(peReq'.id)
  <2>1. Stays
    BY <1>3, <1>5 DEF New
  <2>2. peReq.valid /\ peReq'.id = peReq.id /\ ~New(i)
    <3>1. peReq.valid /\ ~New(i)
      BY <2>1 DEF Stays, New
    <3>2. peReq'.id = peReq.id
      BY <1>1, <2>1, CycleShape
    <3>3. QED
      BY <3>1, <3>2
  <2>3. i \in Running /\ older'[i] \subseteq older[i]
    BY <1>1, <2>2, OldKeeps
  <2>4. QED
    BY <1>1, <2>2, <2>3 DEF YoungestShown
<1>6. QED
  BY <1>4, <1>5

LEMMA QueuedHereStep ==
  ASSUME NEW laneDone, NEW unitDone, NEW free, NEW ack, NEW arrives,
         ChainStep(laneDone, unitDone, free, ack, arrives)
  PROVE  QueuedHere'
<1>1. /\ FlowStep(laneDone, unitDone, free, ack, arrives) /\ FlowInv /\ BInv /\ QueuedHere
      /\ BackendCycle(laneDone, unitDone, free, ack, arrives)
      /\ insn \in [Ids -> Requests]
  BY DEF ChainStep, QueueStep, FlowStep, FlowInv, ChainInv, BInv, Inv, TypeOK
<1>2. SUFFICES ASSUME NEW l \in Lanes, NEW v \in LaneVFUs, NEW i \in Elements(laneQueue'[l][v]),
                      vfu(insn'[i].op) \in LaneVFUs
               PROVE  Reduction(insn'[i]) \/ l < insn'[i].vl
  BY DEF QueuedHere
<1>3. i \in Elements(laneQueue[l][v]) \/ (Enters(l, free[l], v) /\ i = Pending(l)[1].id)
  BY <1>1, <1>2, LaneQueueStep
<1>4. CASE i \in Elements(laneQueue[l][v])
  <2>1. i \in Ids /\ ~New(i)
    BY <1>1, <1>4, QueuedRuns, NotNew
  <2>2. insn'[i] = insn[i]
    BY <1>1, <2>1, CycleShape
  <2>3. QED
    BY <1>1, <1>2, <1>4, <2>2 DEF QueuedHere
<1>5. CASE Enters(l, free[l], v) /\ i = Pending(l)[1].id
  <2>1. Starts(l, free[l]) /\ ~Mutes(l, free[l]) /\ Pending(l) # <<>>
    BY <1>5 DEF Enters, Starts, Executes
  <2>2. i \in Ids /\ OnItsWay(l, i) /\ Pending(l)[1].r = insn[i]
    BY <1>1, <1>5, <2>1, PendingIs
  <2>3. insn'[i] = insn[i]
    BY <1>1, <2>2, NotNew, CycleShape
  <2>4. Reduction(insn[i]) \/ ~(l >= insn[i].vl)
    BY <1>2, <2>1, <2>2, <2>3 DEF Mutes
  <2>5. insn[i].vl \in Nat /\ l \in Nat
    <3>1. insn[i] \in Requests
      BY <1>1, <2>2
    <3>2. QED
      BY <3>1, RequestsAssumption, NrLanesAssumption DEF RequestType, Lanes
  <2>6. QED
    BY <2>3, <2>4, <2>5
<1>6. QED
  BY <1>3, <1>4, <1>5

\* A writer that has an older running writer of its register stays.
LEMMA WriterStays ==
  ASSUME NEW laneDone, NEW unitDone, NEW free, NEW ack, NEW arrives,
         ChainStep(laneDone, unitDone, free, ack, arrives),
         NEW y \in Running, NEW w \in Running', NEW v,
         w = y \/ (w \in older[y] /\ v \in insn[w].vd), v \in insn[y].vd
  PROVE  /\ y \in Running' /\ ~New(y) /\ insn'[y] = insn[y]
         /\ hazardTable'[y] = hazardTable[y] \cap Running'
         /\ older'[y] = older[y] \cap Running'
<1>1. /\ FlowStep(laneDone, unitDone, free, ack, arrives) /\ FlowInv /\ BInv /\ ChainInv
      /\ BackendCycle(laneDone, unitDone, free, ack, arrives)
  BY DEF ChainStep, QueueStep, FlowStep, FlowInv
<1>2. Running \subseteq Ids /\ HazardsPointBack /\ AgeIsOrder
  BY <1>1 DEF BInv, Inv, TypeOK, Running
<1>3. ~New(y)
  BY <1>1, <1>2, NewGets
<1>4. y \in Running'
  <2>1. CASE w = y
    BY <2>1
  <2>2. CASE w \in older[y] /\ v \in insn[w].vd
    <3>1. PICK h \in hazardTable[y] : v \in insn[h].vd
      BY <1>1, <2>2 DEF ChainInv, ChainStarts
    <3>2. h \in Ids
      BY <1>2, <3>1 DEF HazardsPointBack, AgeIsOrder
    <3>3. SameDest(y, h)
      BY <1>1, <1>2, <3>1, <3>2, OneDest
    <3>4. PICK pe \in PEs : Runs(pe, y)
      BY <1>1, <3>1, <3>3, StaysRunning
    <3>5. y \in peRunning'[pe]
      BY <1>1, <1>2, <1>3, <3>4, CycleShape
    <3>6. QED
      BY <3>5 DEF Running
  <2>3. QED
    BY <2>1, <2>2
<1>5. QED
  BY <1>1, <1>3, <1>4, OldKeeps

LEMMA WritersListedStep ==
  ASSUME NEW laneDone, NEW unitDone, NEW free, NEW ack, NEW arrives,
         ChainStep(laneDone, unitDone, free, ack, arrives)
  PROVE  WritersListed'
<1>1. /\ FlowStep(laneDone, unitDone, free, ack, arrives) /\ BInv /\ BInv'
      /\ BackendCycle(laneDone, unitDone, free, ack, arrives) /\ WritersListed
  BY DEF ChainStep, QueueStep, FlowStep, FlowInv, ChainInv
<1>2. Running' \subseteq Ids
  BY <1>1 DEF BInv, Inv, TypeOK, Running
<1>3. SUFFICES ASSUME NEW v \in VRegs
               PROVE  /\ \A y \in writeList'[v] \cap Running' : v \in insn'[y].vd
                      /\ \A i \in Running' : v \in insn'[i].vd =>
                           \E y \in writeList'[v] \cap Running' : y = i \/ i \in older'[y]
  BY DEF WritersListed, Writer
<1>4. /\ \A y \in Writer(v) : v \in insn[y].vd
      /\ \A i \in Running : v \in insn[i].vd => \E y \in Writer(v) : y = i \/ i \in older[y]
      /\ Writer(v) \subseteq Running
  BY <1>1 DEF WritersListed, Writer
<1>5. \/ writeList'[v] = Writer(v) /\ \A i \in Ids : New(i) => v \notin araReq.r.vd
      \/ \E i \in Ids : New(i) /\ v \in araReq.r.vd /\ writeList'[v] = {i}
  BY <1>1, RowsShape
<1>6. CASE writeList'[v] = Writer(v) /\ \A i \in Ids : New(i) => v \notin araReq.r.vd
  <2>1. ASSUME NEW y \in writeList'[v] \cap Running' PROVE v \in insn'[y].vd
    <3>1. y \in Ids /\ y \in Running /\ v \in insn[y].vd
      BY <1>2, <1>4, <1>6, <2>1
    <3>2. insn'[y] = insn[y]
      BY <1>1, <2>1, <3>1, NewGets, OldKeeps
    <3>3. QED
      BY <3>1, <3>2
  <2>2. ASSUME NEW i \in Running', v \in insn'[i].vd
        PROVE  \E y \in writeList'[v] \cap Running' : y = i \/ i \in older'[y]
    <3>1. ~New(i)
      BY <1>1, <1>2, <1>6, <2>2, NewGets
    <3>2. i \in Running /\ v \in insn[i].vd
      BY <1>1, <2>2, <3>1, OldKeeps
    <3>3. PICK y \in Writer(v) : y = i \/ i \in older[y]
      BY <1>4, <3>2
    <3>4. y \in Running /\ v \in insn[y].vd
      BY <1>4, <3>3
    <3>5. y \in Running' /\ older'[y] = older[y] \cap Running'
      BY <2>2, <3>2, <3>3, <3>4, WriterStays
    <3>6. QED
      BY <1>6, <2>2, <3>3, <3>5
  <2>3. QED
    BY <2>1, <2>2
<1>7. CASE \E i \in Ids : New(i) /\ v \in araReq.r.vd /\ writeList'[v] = {i}
  <2>1. PICK n \in Ids : New(n) /\ v \in araReq.r.vd /\ writeList'[v] = {n}
    BY <1>7
  <2>2. /\ insn'[n] = araReq.r /\ araReq.r \in Requests /\ \A j \in Ids : New(j) => j = n
        /\ \A pe \in RunsOn(araReq.r) : Runs(pe, n)'
    BY <1>1, <2>1, NewGets
  <2>3. araReq.r.op # "VMVXS"
    BY <2>1, <2>2, DispatcherAssumption
  <2>4. PICK pe \in RunsOn(araReq.r) : pe \in PEs
    BY <2>2, <2>3, LaneZero, OwnPe
  <2>5. n \in Running'
    BY <2>2, <2>4 DEF Runs, Running
  <2>6. older'[n] = Running \cap Running'
    BY <1>1, <2>1, <2>5, NewGets
  <2>7. ASSUME NEW i \in Running', i # n PROVE i \in older'[n]
    <3>1. ~New(i)
      BY <1>2, <2>2, <2>7
    <3>2. i \in Running
      BY <1>1, <3>1, OldKeeps
    <3>3. QED
      BY <2>6, <3>2
  <2>8. QED
    BY <2>1, <2>2, <2>5, <2>7
<1>8. QED
  BY <1>5, <1>6, <1>7

\* A request waits for the writer that is listed for a register it names.
LEMMA HazardsName ==
  ASSUME NEW r \in Requests, NEW v \in Reads(r) \cup r.vd
  PROVE  v \in VRegs /\ Writer(v) \subseteq AllHazards(Hazards(r))
<1>1. r.vs1 \subseteq VRegs /\ r.vs2 \subseteq VRegs /\ r.vd \subseteq VRegs
  BY RequestsAssumption DEF RequestType, Operand
<1>2. v \in VRegs
  BY <1>1, VRegsAssumption DEF Reads
<1>3. CASE v \in r.vs1
  <2>1. UNION {Writer(x) : x \in r.vs1} \subseteq Hazards(r).vs1
    <3> DEFINE U == UNION {Writer(x) : x \in r.vs1}
               war == WarHazard(r)
    <3>1. Hazards(r).vs1 = U \cup war
      BY DEF Hazards
    <3> HIDE DEF U, war
    <3>2. U \subseteq Hazards(r).vs1
      BY <3>1
    <3>3. QED
      BY <3>2 DEF U
  <2>2. Writer(v) \subseteq UNION {Writer(x) : x \in r.vs1}
    BY <1>3
  <2>3. QED
    BY <1>2, <2>1, <2>2 DEF AllHazards
<1>4. CASE v \in r.vs2
  <2>1. UNION {Writer(x) : x \in r.vs2} \subseteq Hazards(r).vs2
    <3> DEFINE U == UNION {Writer(x) : x \in r.vs2}
               war == WarHazard(r)
    <3>1. Hazards(r).vs2 = U \cup war
      BY DEF Hazards
    <3> HIDE DEF U, war
    <3>2. U \subseteq Hazards(r).vs2
      BY <3>1
    <3>3. QED
      BY <3>2 DEF U
  <2>2. Writer(v) \subseteq UNION {Writer(x) : x \in r.vs2}
    BY <1>4
  <2>3. QED
    BY <1>2, <2>1, <2>2 DEF AllHazards
<1>5. CASE v \in r.vd
  <2>1. Hazards(r).vd = UNION {Writer(x) : x \in r.vd}
    BY DEF Hazards
  <2>2. Writer(v) \subseteq Hazards(r).vd
    BY <1>5, <2>1
  <2>3. QED
    BY <1>2, <2>2 DEF AllHazards
<1>6. CASE ~r.vm /\ v = VMASK
  <2>1. Hazards(r).vm = Writer(VMASK) \cup WarHazard(r)
    BY <1>6 DEF Hazards
  <2>2. QED
    BY <1>2, <1>6, <2>1 DEF AllHazards
<1>7. QED
  BY <1>3, <1>4, <1>5, <1>6 DEF Reads

LEMMA ChainStartsStep ==
  ASSUME NEW laneDone, NEW unitDone, NEW free, NEW ack, NEW arrives,
         ChainStep(laneDone, unitDone, free, ack, arrives)
  PROVE  ChainStarts'
<1>1. /\ FlowStep(laneDone, unitDone, free, ack, arrives) /\ BInv /\ BInv'
      /\ BackendCycle(laneDone, unitDone, free, ack, arrives) /\ WritersListed /\ ChainStarts
  BY DEF ChainStep, QueueStep, FlowStep, FlowInv, ChainInv
<1>2. /\ Running \subseteq Ids /\ Running' \subseteq Ids /\ insn \in [Ids -> Requests]
      /\ HazardsPointBack /\ AgeIsOrder /\ AgeIsOrder'
  BY <1>1 DEF BInv, Inv, TypeOK, Running
<1>3. SUFFICES ASSUME NEW i \in Running', NEW w \in older'[i],
                      NEW v \in insn'[w].vd \cap (Reads(insn'[i]) \cup insn'[i].vd)
               PROVE  \E h \in hazardTable'[i] : v \in insn'[h].vd /\ (h = w \/ w \in older'[h])
  BY DEF ChainStarts
<1>4. w \in Running' /\ w \in Ids /\ i \in Ids /\ i # w
  BY <1>2, <1>3 DEF AgeIsOrder
<1>5. CASE New(i)
  <2>1. /\ insn'[i] = araReq.r /\ araReq.r \in Requests
        /\ hazardTable'[i] = AllHazards(Hazards(araReq.r)) \cap Running'
    BY <1>1, <1>4, <1>5, NewGets
  <2>2. w \in Running /\ insn'[w] = insn[w]
    <3>1. ~New(w)
      BY <1>1, <1>4, <1>5, NewGets
    <3>2. QED
      BY <1>1, <1>4, <3>1, OldKeeps
  <2>3. v \in insn[w].vd /\ v \in Reads(araReq.r) \cup araReq.r.vd
    BY <1>3, <2>1, <2>2
  <2>4. v \in VRegs /\ Writer(v) \subseteq AllHazards(Hazards(araReq.r))
    BY <2>1, <2>3, HazardsName
  <2>5. PICK y \in Writer(v) : y = w \/ w \in older[y]
    BY <1>1, <2>2, <2>3, <2>4 DEF WritersListed
  <2>6. y \in Running /\ v \in insn[y].vd
    BY <1>1, <2>4, <2>5 DEF WritersListed, Writer
  <2>7. y \in Running' /\ insn'[y] = insn[y] /\ older'[y] = older[y] \cap Running'
    BY <1>4, <2>3, <2>5, <2>6, WriterStays
  <2>8. QED
    BY <1>4, <2>1, <2>4, <2>5, <2>6, <2>7
<1>6. CASE ~New(i)
  <2>1. /\ i \in Running /\ insn'[i] = insn[i]
        /\ hazardTable'[i] = hazardTable[i] \cap Running'
        /\ older'[i] = older[i] \cap Running'
    BY <1>1, <1>6, OldKeeps
  <2>2. w \in older[i] /\ w \in Running
    BY <1>2, <2>1 DEF AgeIsOrder
  <2>3. ~New(w)
    BY <1>1, <1>4, <2>2, NewGets
  <2>4. insn'[w] = insn[w]
    BY <1>1, <1>4, <2>3, OldKeeps
  <2>5. v \in insn[w].vd \cap (Reads(insn[i]) \cup insn[i].vd)
    BY <1>3, <2>1, <2>4
  <2>6. PICK h \in hazardTable[i] : v \in insn[h].vd /\ (h = w \/ w \in older[h])
    BY <1>1, <2>1, <2>2, <2>5 DEF ChainStarts
  <2>7. h \in Running
    BY <1>2, <2>1, <2>6 DEF HazardsPointBack, AgeIsOrder
  <2>8. h \in Running' /\ insn'[h] = insn[h] /\ older'[h] = older[h] \cap Running'
    BY <1>4, <2>5, <2>6, <2>7, WriterStays
  <2>9. QED
    BY <1>4, <2>1, <2>6, <2>8
<1>7. QED
  BY <1>5, <1>6

-----------------------------------------------------------------------------
(***************************************************************************)
(* The invariant holds, and its chains lead to every older writer.         *)
(***************************************************************************)
LEMMA ChainInitially == BInit => ChainInv
<1> SUFFICES ASSUME BInit PROVE ChainInv
  OBVIOUS
<1>1. QueueInv
  BY QueueInitially
<1>2. Running = {} /\ ~peReq.valid
  BY DEF BInit, Init, Running, NoPeReq
<1>3. WritersEndInOrder /\ YoungestShown /\ ChainStarts
  BY <1>2 DEF WritersEndInOrder, YoungestShown, ChainStarts
<1>4. WritersListed
  BY <1>2 DEF WritersListed, Writer
<1>5. QueuedHere
  <2>1. \A l \in Lanes, v \in LaneVFUs : Elements(laneQueue[l][v]) = {}
    BY DEF BInit, Elements
  <2>2. QED
    BY <2>1 DEF QueuedHere
<1>6. QED
  BY <1>1, <1>3, <1>4, <1>5 DEF ChainInv

LEMMA ChainStutters == ChainInv /\ UNCHANGED bvars => ChainInv'
<1> SUFFICES ASSUME ChainInv, UNCHANGED bvars PROVE ChainInv'
  OBVIOUS
<1>1. QueueInv'
  BY QueueStutters DEF ChainInv
<1>2. UNCHANGED vars /\ UNCHANGED backendVars
  BY DEF bvars
<1>3. /\ Running' = Running /\ insn' = insn /\ peReq' = peReq /\ peRunning' = peRunning
      /\ hazardTable' = hazardTable /\ older' = older /\ laneQueue' = laneQueue
      /\ writeList' = writeList /\ doneReg' = doneReg
  BY <1>2 DEF vars, backendVars, Running
<1>4. WritersEndInOrder' /\ YoungestShown' /\ QueuedHere'
  BY <1>3 DEF ChainInv, WritersEndInOrder, YoungestShown, QueuedHere, SameDest, Runs
<1>5. WritersListed' /\ ChainStarts'
  BY <1>3 DEF ChainInv, WritersListed, ChainStarts, Writer
<1>6. QED
  BY <1>1, <1>4, <1>5 DEF ChainInv

LEMMA ChainAlways ==
  ASSUME ~OutrunLanes, MovesApart, NoneShorter
  PROVE  BSpec => []ChainInv
<1>1. ASSUME ChainInv, [BNext]_bvars PROVE ChainInv'
  <2>1. CASE BNext
    <3>1. QueueInv /\ FlowInv
      BY <1>1 DEF ChainInv, QueueInv
    <3>2. PICK laneDone, unitDone, free, ack, arrives :
            FlowStep(laneDone, unitDone, free, ack, arrives)
      BY <2>1, <3>1, BackendFlow
    <3>3. ChainStep(laneDone, unitDone, free, ack, arrives)
      BY <1>1, <3>1, <3>2 DEF ChainStep, QueueStep
    <3>4. QueueInv'
      BY <2>1, <3>1, QueueNext
    <3>5. WritersEndInOrder' /\ YoungestShown' /\ QueuedHere'
      BY <3>3, WritersEndInOrderStep, YoungestShownStep, QueuedHereStep
    <3>6. WritersListed' /\ ChainStarts'
      BY <3>3, WritersListedStep, ChainStartsStep
    <3>7. QED
      BY <3>4, <3>5, <3>6 DEF ChainInv
  <2>2. CASE UNCHANGED bvars
    BY <1>1, <2>2, ChainStutters
  <2>3. QED
    BY <1>1, <2>1, <2>2
<1>2. QED
  BY <1>1, ChainInitially, PTL DEF BSpec

LEMMA LeastNat ==
  ASSUME NEW T, T \subseteq Nat, T # {}
  PROVE  \E x \in T : \A y \in T : ~(y < x)
<1> DEFINE R == OpToRel(<, Nat)
<1>1. \E x \in T : \A y \in T : ~(<<y, x>> \in R)
  <2>1. IsWellFoundedOn(R, Nat)
    BY NatLessThanWellFounded
  <2> HIDE DEF R
  <2>2. QED
    BY <2>1, WFMin
<1>2. \A x, y \in Nat : y < x => <<y, x>> \in R
  BY DEF OpToRel
<1> HIDE DEF R
<1>3. QED
  BY <1>1, <1>2

\* From any instruction of a chain one comes to the writer the chain leads to.
LEMMA ChainsLead ==
  ASSUME ChainInv, NEW w \in Running, NEW v, v \in insn[w].vd,
         NEW S \in SUBSET Ids, \A j \in S : hazardTable[j] \subseteq S,
         NEW first \in S \cap Running, v \in insn[first].vd, first = w \/ w \in older[first]
  PROVE  w \in S
<1> DEFINE C == {h \in S \cap Running : v \in insn[h].vd /\ (h = w \/ w \in older[h])}
           age(h) == Cardinality(older[h])
<1>1. HazardsPointBack /\ AgeIsOrder /\ ChainStarts /\ older \in [Ids -> SUBSET Ids]
  BY DEF ChainInv, QueueInv, FlowInv, BInv, Inv, TypeOK
<1>2. \A h \in Ids : older[h] \subseteq Ids /\ IsFiniteSet(older[h]) /\ age(h) \in Nat
  BY <1>1, IdsFinite
<1>3. PICK h \in C : \A k \in C : ~(age(k) < age(h))
  <2> DEFINE T == {age(k) : k \in C}
  <2>1. T \subseteq Nat /\ T # {}
    <3>1. \A k \in C : age(k) \in Nat
      BY <1>2
    <3>2. first \in C
      OBVIOUS
    <3> HIDE DEF C, age
    <3>3. QED
      BY <3>1, <3>2
  <2> HIDE DEF C, age
  <2>2. PICK x \in T : \A y \in T : ~(y < x)
    <3> HIDE DEF T
    <3> QED  BY <2>1, LeastNat
  <2>3. QED
    BY <2>2
<1>4. h \in S /\ h \in Running /\ h \in Ids /\ v \in insn[h].vd /\ (h = w \/ w \in older[h])
  OBVIOUS
<1>5. CASE h = w
  BY <1>4, <1>5
<1>6. CASE w \in older[h]
  <2>1. PICK k \in hazardTable[h] : v \in insn[k].vd /\ (k = w \/ w \in older[k])
    BY <1>1, <1>4, <1>6 DEF ChainStarts
  <2>2. k \in older[h] /\ k \in Running /\ k \in S
    BY <1>1, <1>4, <2>1 DEF HazardsPointBack, AgeIsOrder
  <2>3. k \in C /\ k \in Ids
    BY <2>1, <2>2
  <2>4. older[k] \subseteq older[h] /\ older[k] # older[h]
    BY <1>1, <1>4, <2>2 DEF AgeIsOrder
  <2>5. age(k) <= age(h) /\ age(k) # age(h)
    BY <1>2, <1>4, <2>3, <2>4, FS_Subset
  <2>6. age(k) \in Nat /\ age(h) \in Nat /\ ~(age(k) < age(h))
    BY <1>2, <1>3, <1>4, <2>3
  <2> HIDE DEF age
  <2>7. QED
    BY <2>5, <2>6
<1>7. QED
  BY <1>4, <1>5, <1>6

\* Among instructions of which none that overwrites a register is shorter than
\* who wrote it before, each waits, directly or through others, for every older
\* running writer of what it reads or writes, though the write list remembers
\* only the last one: that one still waits for the others, and outlives them.
THEOREM WritersAlwaysCovered ==
  ASSUME ~OutrunLanes, MovesApart, NoneShorter
  PROVE  BSpec => []WritersCovered
<1>1. ASSUME ChainInv PROVE WritersCovered
  <2>1. HazardsPointBack /\ AgeIsOrder /\ ChainStarts /\ Running \subseteq Ids
    BY <1>1 DEF ChainInv, QueueInv, FlowInv, BInv, Inv, TypeOK, Running
  <2>2. SUFFICES ASSUME NEW i \in Running, NEW w \in older[i],
                        NEW v \in insn[w].vd \cap (Reads(insn[i]) \cup insn[i].vd)
                 PROVE  w \in Waits(i)
    BY DEF WritersCovered
  <2>3. w \in Ids /\ w \in Running
    BY <2>1 DEF AgeIsOrder
  <2>4. SUFFICES ASSUME NEW S \in SUBSET Ids, hazardTable[i] \subseteq S,
                        \A j \in S : hazardTable[j] \subseteq S
                 PROVE  w \in S
    BY <2>3 DEF Waits
  <2>5. PICK h \in hazardTable[i] : v \in insn[h].vd /\ (h = w \/ w \in older[h])
    BY <2>1 DEF ChainStarts
  <2>6. h \in S \cap Running
    BY <2>1, <2>4, <2>5 DEF HazardsPointBack, AgeIsOrder
  <2>7. QED
    BY <1>1, <2>3, <2>4, <2>5, <2>6, ChainsLead
<1>2. QED
  BY <1>1, ChainAlways, PTL
=============================================================================
