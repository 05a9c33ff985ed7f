----------------------------- MODULE MCStorePath -----------------------------
EXTENDS StorePath

Program(lens, gap, prompt, hasty) ==
  [lens |-> lens, gap |-> gap, prompt |-> prompt, hasty |-> hasty]
OfOneTo(k, count) == [1 .. count -> 1 .. k]

\* Stores of one length with any memory that takes a store's addresses before
\* it answers; stores of different lengths when nothing waits.
Orderly ==
  {Program([i \in 1 .. 4 |-> k], 1, FALSE, FALSE) : k \in 1 .. 3}
  \cup {Program(lens, 1, TRUE, FALSE) : lens \in OfOneTo(3, 4)}

\* the memory answers the first piece while the second still waits
HastyMemory == {Program(<<2, 2>>, 1, FALSE, TRUE)}
\* the lengths of later stores pass by those that wait
Crowded == {Program(<<3, 1, 2>>, 1, FALSE, FALSE)}
\* a short store follows a long one, and nothing waits
LongThenShort == {Program(<<6, 1>>, 1, TRUE, FALSE)}
\* more pieces than the count of a tracker holds
SeventeenPieces == {Program(<<17>>, 1, FALSE, FALSE)}
=============================================================================
