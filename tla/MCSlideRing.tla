---------------------------- MODULE MCSlideRing -----------------------------
EXTENDS SlideRing

Slide(op, stride, vl) == [op |-> op, stride |-> stride, vl |-> vl]
Down(stride, vl) == Slide("VSLIDEDOWN", stride, vl)
Up(stride, vl) == Slide("VSLIDEUP", stride, vl)
SmallTwice == {<<Down(1, 1), Down(1, 1)>>}
FullRows == {<<Up(1, 2 * N * NrLanes), Up(1, 2 * N * NrLanes)>>}
FullRow == {<<Down(1, N * NrLanes), Down(1, N * NrLanes)>>}
OneSlide == {<<s>> : s \in {t \in [op : {"VSLIDEDOWN", "VSLIDEUP"}, stride : 1 .. NrLanes,
                                  vl : 1 .. 2 * N * NrLanes] :
                             t.op = "VSLIDEUP" => t.stride < t.vl}}
Halves == {{}, 0 .. N - 1, {c \in 0 .. N - 1 : c % 2 = 0}, {c \in 0 .. N - 1 : c % 2 = 1}}
AllOrNone == {{}, 0 .. N - 1}
NoLinks == {}
ProgramTraffic == {ProgramPackets(p) : p \in Programs}
=============================================================================
