------------------------------- MODULE MCVstu -------------------------------
\* A word of the lanes is two AXI words; the longest burst has four beats.
EXTENDS Vstu

UnitStride(bytes) == [bytes |-> bytes, elem |-> 0]
Strided(bytes) == [bytes |-> bytes, elem |-> 1]

\* less than an AXI word, an odd length over two words, the longest burst
UnitStores == {UnitStride(1), UnitStride(5), UnitStride(8)}
MixedStores == {Strided(2), UnitStride(3)}
StridedStores == {Strided(2), UnitStride(1)}
=============================================================================
