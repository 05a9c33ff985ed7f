--------------------------- MODULE MCVectorConfig ---------------------------
\* Two clusters of two lanes with registers of 16 bytes each: a row is four
\* elements, and the vtypes have a VLMAX of 32, 32 and 8 elements over both
\* clusters; 64-bit elements with a fractional LMUL are not supported.
EXTENDS VectorConfig

VType(sew, lmul) == [sew |-> sew, lmul |-> lmul]
MCTypes == {VType(0, 0), VType(1, 1), VType(2, 0), VType(3, -1)}

\* every remainder below VLMAX, and lengths beyond it that fill whole rows
FittingAVLs == (0 .. 7) \cup {32, 36}
\* one element beyond VLMAX
LongAVLs == {9}
=============================================================================
