----------------------------- MODULE RoundRobin -----------------------------
(***************************************************************************)
(* What a round-robin scheduler on one CPU promises: the threads stand in  *)
(* a circle, in the order they joined, and the CPU goes round it. One that *)
(* leaves gives the CPU to the thread that has been there longest.         *)
(***************************************************************************)
EXTENDS Sequences, SequencesExt

CONSTANTS Members,  \* the threads there may be
          First     \* the one that has the CPU from the start

VARIABLES queue,  \* the circle, longest member first
          cur     \* the thread that has the CPU

Init == queue = <<First>> /\ cur = First

Join(t) ==
  /\ ~Contains(queue, t)
  /\ queue' = Append(queue, t)
  /\ UNCHANGED cur

(* The CPU goes to the next thread of the circle.                          *)
Pass ==
  \E i \in DOMAIN queue :
    /\ queue[i] = cur
    /\ cur' = queue[(i % Len(queue)) + 1]
    /\ UNCHANGED queue

(* The thread that has the CPU leaves, to block or for good; the first     *)
(* never does.                                                             *)
Leave ==
  /\ cur # First
  /\ \E i \in DOMAIN queue : queue[i] = cur /\ queue' = RemoveAt(queue, i)
  /\ cur' = Head(queue')

Next == (\E t \in Members : Join(t)) \/ Pass \/ Leave

Spec == Init /\ [][Next]_<<queue, cur>>
=============================================================================
