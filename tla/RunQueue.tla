------------------------------- MODULE RunQueue -------------------------------
(***************************************************************************)
(* What the scheduler queue of task.c is for: the queue of the tasks that  *)
(* may run.  A task enters it at the end, is in it at most once, and may   *)
(* be taken out from anywhere; no other task moves, but for the first,     *)
(* which goes to the end when it is picked.                                *)
(***************************************************************************)
EXTENDS Naturals, Sequences

CONSTANT Task

VARIABLE queue

Members == {queue[i] : i \in 1 .. Len(queue)}

Init == queue = <<>>

Enqueue(t) ==
  /\ t \notin Members
  /\ queue' = Append(queue, t)

Dequeue(t) ==
  \E k \in 1 .. Len(queue) :
    /\ queue[k] = t
    /\ queue' = [i \in 1 .. Len(queue) - 1 |-> queue[IF i < k THEN i ELSE i + 1]]

\* Round robin: the first task is picked and goes to the end.
Rotate ==
  /\ queue # <<>>
  /\ queue' = Append(Tail(queue), Head(queue))

Next == Rotate \/ \E t \in Task : Enqueue(t) \/ Dequeue(t)

Spec == Init /\ [][Next]_queue
===============================================================================
