---------------------------- MODULE MCAraBackend ----------------------------
\* Small instances of the backend: the requests of every run.
EXTENDS AraBackend

Req(op, vm, vs1, vs2, vd, vdOp, vl) ==
  [op |-> op, vm |-> vm, vs1 |-> vs1, vs2 |-> vs2, vd |-> vd, vdOp |-> vdOp, vl |-> vl]

OneDeep == [v \in VFUs |-> 1]

\* units that read and write each other's registers and the mask, two of them the
\* same register, and every kind of answer
BackendRequests ==
  {Req("VADD", TRUE, {1}, {0}, {1}, FALSE, 2), Req("VLE", TRUE, {}, {}, {0}, FALSE, 2),
   Req("VLE", TRUE, {}, {}, {1}, FALSE, 2), Req("VSE", FALSE, {1}, {}, {}, FALSE, 2),
   Req("VMVXS", TRUE, {}, {1}, {}, FALSE, 1), Req("VCPOP", TRUE, {}, {1}, {}, FALSE, 2)}

\* masked and shorter than the lanes, from all the lanes into the mask unit, and
\* through the slide unit
LaneRequests ==
  {Req("VADD", FALSE, {}, {1}, {1}, FALSE, 1), Req("VMSEQ", TRUE, {}, {1}, {0}, FALSE, 2),
   Req("VREDSUM", TRUE, {}, {1}, {1}, FALSE, 2)}

\* two readers of a register, in different units, and a load that overwrites it
ReaderRequests ==
  {Req("VADD", TRUE, {1}, {}, {0}, FALSE, 2), Req("VMUL", TRUE, {1}, {}, {2}, FALSE, 2),
   Req("VLE", TRUE, {}, {}, {1}, FALSE, 2)}

\* a load, a shorter instruction that overwrites its register, and a reader of it
ShorterRequests ==
  {Req("VLE", TRUE, {}, {}, {1}, FALSE, 2), Req("VADD", TRUE, {0}, {}, {1}, FALSE, 1),
   Req("VMUL", TRUE, {1}, {}, {0}, FALSE, 2)}

OutrunRequests ==
  {Req("VADD", TRUE, {}, {1}, {1}, FALSE, 2), Req("VLE", TRUE, {}, {}, {1}, FALSE, 2)}

MaskBRequests ==
  {Req("VMSEQ", TRUE, {}, {1}, {0}, TRUE, 2), Req("VMVXS", TRUE, {}, {1}, {}, FALSE, 1)}
=============================================================================
