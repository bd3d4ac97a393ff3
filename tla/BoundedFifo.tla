----------------------------- MODULE BoundedFifo -----------------------------
(***************************************************************************)
(* What a BoxOS ring buffer promises to its two ends, whatever its layout: *)
(* a first-in first-out queue of at most Capacity messages.  RingBuffer,   *)
(* the index-and-slot algorithm of core/ringbuffer.h, implements it.       *)
(***************************************************************************)
EXTENDS Naturals, Sequences

CONSTANTS
  Message,      \* the messages a producer may put
  Capacity,     \* how many of them fit
  NoMessage     \* what the consumer holds before its first get

VARIABLES
  queue,        \* the accepted messages that are not delivered yet
  delivered     \* the message handed to the consumer last

fifoVars == <<queue, delivered>>

Init ==
  /\ queue = <<>>
  /\ delivered = NoMessage

Put(m) ==
  /\ Len(queue) < Capacity
  /\ queue' = Append(queue, m)
  /\ UNCHANGED delivered

Get ==
  /\ queue # <<>>
  /\ delivered' = Head(queue)
  /\ queue' = Tail(queue)

Next == Get \/ \E m \in Message : Put(m)

Spec == Init /\ [][Next]_fifoVars
==============================================================================
