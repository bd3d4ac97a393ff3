------------------------------ MODULE RingBuffer ------------------------------
(***************************************************************************)
(* The ring buffer of core/ringbuffer.h, one step per access to shared     *)
(* memory.  EventRingBuffer and ResponseRingBuffer are the same algorithm  *)
(* over elements of different sizes; a message stands for an Event or for  *)
(* a Response, copied 8 bytes (one word) at a time.                        *)
(*                                                                         *)
(* The code is written for one producer and one consumer.  The module      *)
(* takes a set of producers, so that the number of cores that push into    *)
(* the same ring is a parameter of a run.                                  *)
(***************************************************************************)
EXTENDS Integers, Sequences, FiniteSets

CONSTANTS
  Producers,   \* the threads that call *_ring_push on this ring
  Messages,    \* the messages they push
  WORDS,       \* 8-byte words per message: sizeof(Event) / 8
  SIZE,        \* RING_BUFFER_SIZE, a power of two
  WRAP,        \* 2^64 in the code: head and tail are uint64_t
  Garbage      \* what a word holds before it is written

ASSUME RingAssumption ==
  /\ WORDS \in Nat \ {0}
  /\ SIZE \in Nat \ {0}
  /\ WRAP \in Nat
  /\ WRAP > SIZE
  /\ \E k \in 0 .. WRAP : WRAP = k * SIZE
  /\ Garbage \notin Messages

VARIABLES
  head,        \* index of the next message to pop, written by the consumer
  tail,        \* index of the next free slot, written by the producer
  slots,       \* the array: SIZE slots of WORDS words
  pstep,       \* where each producer is in *_ring_push
  ptail,       \* its local current_tail
  pmsg,        \* the message it pushes
  pword,       \* the word it copies next
  cstep,       \* where the consumer is in *_ring_pop
  chead,       \* its local current_head
  cword,       \* the word it copies next
  out,         \* *out_event, filled word by word
  delivered    \* out_event at the last pop that returned 1

prodVars == <<pstep, ptail, pmsg, pword>>
consVars == <<cstep, chead, cword, out, delivered>>
vars == <<head, tail, slots, prodVars, consVars>>

Index == 0 .. WRAP - 1
Word == 1 .. WORDS

\* A message as the words it is made of: word w of m is simply named m.
Whole(m) == [w \in Word |-> m]
Nothing == Whole(Garbage)

(***************************************************************************)
(* uint64_t arithmetic on the indices.                                     *)
(***************************************************************************)
Plus(x, n) == IF x + n < WRAP THEN x + n ELSE x + n - WRAP
Minus(x, y) == IF x >= y THEN x - y ELSE x - y + WRAP
Slot(x) == x % SIZE        \* x & RING_BUFFER_MASK
Count == Minus(tail, head)

Init ==
  /\ head = 0
  /\ tail = 0
  /\ slots = [i \in 0 .. SIZE - 1 |-> Nothing]
  /\ pstep = [p \in Producers |-> "idle"]
  /\ ptail = [p \in Producers |-> 0]
  /\ pmsg \in [Producers -> Messages]
  /\ pword = [p \in Producers |-> 1]
  /\ cstep = "idle"
  /\ chead = 0
  /\ cword = 1
  /\ out = Nothing
  /\ delivered = Nothing

(***************************************************************************)
(* *_ring_push, called with message m.                                     *)
(***************************************************************************)
PushLoadTail(p, m) ==
  /\ pstep[p] = "idle"
  /\ pstep' = [pstep EXCEPT ![p] = "check"]
  /\ ptail' = [ptail EXCEPT ![p] = tail]
  /\ pmsg' = [pmsg EXCEPT ![p] = m]
  /\ pword' = [pword EXCEPT ![p] = 1]
  /\ UNCHANGED <<head, tail, slots, consVars>>

\* Mutant: fills the ring beyond its last slot.
CheckOffByOne(p) ==
  /\ pstep[p] = "check"
  /\ pstep' = [pstep EXCEPT ![p] =
                 IF Minus(ptail[p], head) > SIZE THEN "idle" ELSE "copy"]
  /\ UNCHANGED <<head, tail, slots, ptail, pmsg, pword, consVars>>

\* Mutant: stores tail before the message is copied.
CheckAndPublish(p) ==
  /\ pstep[p] = "check"
  /\ Minus(ptail[p], head) < SIZE
  /\ pstep' = [pstep EXCEPT ![p] = "copy"]
  /\ tail' = Plus(ptail[p], 1)
  /\ UNCHANGED <<head, slots, ptail, pmsg, pword, consVars>>

\* Loads head and returns 0 when the ring is full.
PushCheck(p) ==
  /\ pstep[p] = "check"
  /\ pstep' = [pstep EXCEPT ![p] =
                 IF Minus(ptail[p], head) >= SIZE THEN "idle" ELSE "copy"]
  /\ UNCHANGED <<head, tail, slots, ptail, pmsg, pword, consVars>>

PushCopyWord(p) ==
  /\ pstep[p] = "copy"
  /\ slots' = [slots EXCEPT ![Slot(ptail[p])] =
                 [@ EXCEPT ![pword[p]] = pmsg[p]]]
  /\ IF pword[p] = WORDS
     THEN /\ pstep' = [pstep EXCEPT ![p] = "publish"]
          /\ UNCHANGED pword
     ELSE /\ pword' = [pword EXCEPT ![p] = @ + 1]
          /\ UNCHANGED pstep
  /\ UNCHANGED <<head, tail, ptail, pmsg, consVars>>

PushPublish(p) ==
  /\ pstep[p] = "publish"
  /\ tail' = Plus(ptail[p], 1)
  /\ pstep' = [pstep EXCEPT ![p] = "idle"]
  /\ UNCHANGED <<head, slots, ptail, pmsg, pword, consVars>>

Push(p) ==
  \/ \E m \in Messages : PushLoadTail(p, m)
  \/ PushCheck(p)
  \/ PushCopyWord(p)
  \/ PushPublish(p)

(***************************************************************************)
(* *_ring_pop.                                                             *)
(***************************************************************************)
PopLoadHead ==
  /\ cstep = "idle"
  /\ cstep' = "check"
  /\ chead' = head
  /\ cword' = 1
  /\ UNCHANGED <<head, tail, slots, prodVars, out, delivered>>

\* Mutant: stores head before the message is copied.
CheckAndRelease ==
  /\ cstep = "check"
  /\ IF chead = tail
     THEN cstep' = "idle" /\ UNCHANGED head
     ELSE cstep' = "copy" /\ head' = Plus(chead, 1)
  /\ UNCHANGED <<tail, slots, prodVars, chead, cword, out, delivered>>

\* Loads tail and returns 0 when the ring is empty.
PopCheck ==
  /\ cstep = "check"
  /\ cstep' = IF chead = tail THEN "idle" ELSE "copy"
  /\ UNCHANGED <<head, tail, slots, prodVars, chead, cword, out, delivered>>

PopCopyWord ==
  /\ cstep = "copy"
  /\ out' = [out EXCEPT ![cword] = slots[Slot(chead)][cword]]
  /\ IF cword = WORDS
     THEN cstep' = "release" /\ UNCHANGED cword
     ELSE cword' = cword + 1 /\ UNCHANGED cstep
  /\ UNCHANGED <<head, tail, slots, prodVars, chead, delivered>>

\* Frees the slot and returns 1: the caller owns *out_event from here on.
PopRelease ==
  /\ cstep = "release"
  /\ head' = Plus(chead, 1)
  /\ delivered' = out
  /\ cstep' = "idle"
  /\ UNCHANGED <<tail, slots, prodVars, chead, cword, out>>

Pop == PopLoadHead \/ PopCheck \/ PopCopyWord \/ PopRelease

Next == Pop \/ \E p \in Producers : Push(p)

Spec == Init /\ [][Next]_vars

(***************************************************************************)
(* Properties.                                                             *)
(***************************************************************************)

\* Every variable has its type, and tail never runs more than SIZE ahead of
\* head: the full test of push is exact although it reads head long before
\* the slot is written.
TypeOK ==
  /\ head \in Index
  /\ tail \in Index
  /\ Count \in 0 .. SIZE
  /\ slots \in [0 .. SIZE - 1 -> [Word -> Messages \cup {Garbage}]]
  /\ pstep \in [Producers -> {"idle", "check", "copy", "publish"}]
  /\ ptail \in [Producers -> Index]
  /\ pmsg \in [Producers -> Messages]
  /\ pword \in [Producers -> Word]
  /\ cstep \in {"idle", "check", "copy", "release"}
  /\ chead \in Index
  /\ cword \in Word
  /\ out \in [Word -> Messages \cup {Garbage}]
  /\ delivered \in [Word -> Messages \cup {Garbage}]

\* No torn message: while the consumer copies the words of a slot, no producer
\* writes a word of the same slot, across wraparounds of the index and of the
\* 64-bit counters.
NoSharedSlot ==
  \A p \in Producers :
    pstep[p] = "copy" /\ cstep = "copy" => Slot(ptail[p]) # Slot(chead)

(***************************************************************************)
(* The inductive invariant.  A push under way owns the slot at tail, which *)
(* is not live, and has written a prefix of its words; a pop under way     *)
(* owns the slot at head, which is live, and has read a prefix of its      *)
(* words; every live slot holds the words of a single message.             *)
(***************************************************************************)
ProducerOk(p) ==
  /\ pstep[p] # "idle" => ptail[p] = tail
  /\ pstep[p] = "check" => pword[p] = 1
  /\ pstep[p] \in {"copy", "publish"} => Count < SIZE
  /\ pstep[p] = "copy" =>
       \A w \in Word : w < pword[p] => slots[Slot(tail)][w] = pmsg[p]
  /\ pstep[p] = "publish" => slots[Slot(tail)] = Whole(pmsg[p])

ProducerInv == \A p \in Producers : ProducerOk(p)

ConsumerInv ==
  /\ cstep # "idle" => chead = head
  /\ cstep = "check" => cword = 1
  /\ cstep \in {"copy", "release"} => Count > 0
  /\ cstep = "copy" =>
       \A w \in Word : w < cword => out[w] = slots[Slot(head)][w]
  /\ cstep = "release" => out = slots[Slot(head)]

LiveInv ==
  \A x \in Index :
    Minus(x, head) < Count =>
      \E m \in Messages : slots[Slot(x)] = Whole(m)

\* The strengthening of TypeOK that every step of a single producer and a
\* single consumer preserves.
RingInv == TypeOK /\ ProducerInv /\ ConsumerInv /\ LiveInv

\* The messages accepted and not delivered yet, oldest first.
Live == [i \in 1 .. Count |-> slots[Slot(Plus(head, i - 1))]]

Fifo == INSTANCE BoundedFifo
          WITH Message <- {Whole(m) : m \in Messages}, Capacity <- SIZE,
               NoMessage <- Nothing, queue <- Live, delivered <- delivered

\* The ring implements the bounded FIFO: a push takes effect when it stores
\* tail, a pop when it stores head; nothing is lost, duplicated, reordered or
\* delivered in part.
ImplementsFifo == Fifo!Spec
===============================================================================
