--------------------------- MODULE MCInvalFilter ---------------------------
(* Lines of 2 bytes and a cache of 4 sets: bursts inside one line, aligned   *)
(* and misaligned ones that reach into the next lines, one of three lines,   *)
(* and one longer than the cache.                                            *)
EXTENDS InvalFilter

MCBursts == {[addr |-> 0, bytes |-> 1], [addr |-> 1, bytes |-> 2],
             [addr |-> 3, bytes |-> 4], [addr |-> 4, bytes |-> 10]}
=============================================================================
