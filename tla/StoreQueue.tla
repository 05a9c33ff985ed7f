----------------------------- MODULE StoreQueue -----------------------------
(***************************************************************************)
(* What the store unit promises the sequencer and the scalar core: stores  *)
(* are taken in order, written in order, and each is reported as complete  *)
(* in the very step in which the memory's last answer for it arrives --    *)
(* not before it, and not never.                                           *)
(***************************************************************************)
EXTENDS Naturals, Sequences

CONSTANTS
  Names,      \* names of stores, unique among the live ones
  MaxAnswers  \* the most answers a store is owed, at least one

VARIABLES
  queue,   \* the live stores, oldest first: [name, owed]
  written  \* how many of them are wholly written

vars == <<queue, written>>

Init == queue = <<>> /\ written = 0

\* a store with the answers it is owed
Take(name, owed) ==
  /\ queue' = Append(queue, [name |-> name, owed |-> owed])
  /\ UNCHANGED written

Write ==
  /\ written < Len(queue)
  /\ written' = written + 1
  /\ UNCHANGED queue

\* an answer to the oldest store that is owed one, not its last
Acknowledge ==
  /\ queue # <<>> /\ Head(queue).owed > 1
  /\ queue' = [queue EXCEPT ![1].owed = @ - 1]
  /\ UNCHANGED written

\* the last answer to the oldest store completes it
Complete ==
  /\ queue # <<>> /\ Head(queue).owed = 1 /\ written > 0
  /\ queue' = Tail(queue)
  /\ written' = written - 1

Next ==
  \/ \E name \in Names, owed \in 1 .. MaxAnswers : Take(name, owed)
  \/ Write \/ Acknowledge \/ Complete

Spec == Init /\ [][Next]_vars
=============================================================================
