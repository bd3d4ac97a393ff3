--------------------------- MODULE RingBufferProofs ---------------------------
(***************************************************************************)
(* With one producer, for every size of the ring, every width of the       *)
(* counters that is a multiple of it and every number of words, the ring   *)
(* buffer keeps its invariant, never lets a copy in and a copy out meet in *)
(* a slot, and implements the bounded FIFO.                                *)
(***************************************************************************)
EXTENDS RingBuffer, TLAPS

\* The configuration ringbuffer.h is written for.
SingleProducer == \A p, q \in Producers : p = q

-------------------------------------------------------------------------------
(***************************************************************************)
(* Index arithmetic.                                                       *)
(***************************************************************************)

\* The operations on indices stay in the range of a uint64_t, and Plus(x, 1)
\* is one further from any y that is less than a full turn behind.
LEMMA IndexArithmetic ==
  /\ \A x, y \in Index : Minus(x, y) \in Index
  /\ \A x, n \in Index : Plus(x, n) \in Index
  /\ \A x \in Index : Plus(x, 1) \in Index
BY RingAssumption DEF Index, Minus, Plus

\* Masking an index names a slot of the array.
LEMMA SlotRange == \A x \in Index : Slot(x) \in 0 .. SIZE - 1
BY RingAssumption DEF Index, Slot

\* A positive multiple of SIZE is not smaller than SIZE.
LEMMA MultipleIsLarge ==
  ASSUME NEW n \in Int, SIZE * n > 0
  PROVE  SIZE * n >= SIZE
<1>1. SIZE \in Nat /\ SIZE > 0
  BY RingAssumption
<1>2. n >= 1
  <2>1. CASE n <= 0
    <3>1. SIZE * n <= 0
      BY <1>1, <2>1
    <3> QED BY <3>1, <1>1
  <2> QED BY <2>1
<1>3. SIZE * n >= SIZE * 1
  BY <1>1, <1>2
<1> QED BY <1>3, <1>1

\* Two different indices less than SIZE apart have different slots, also when
\* the counters wrap around between them.  It rests on WRAP being a multiple
\* of SIZE, as 2^64 is of 256.
LEMMA SlotsApart ==
  ASSUME NEW x \in Index, NEW y \in Index, x # y, Minus(x, y) < SIZE
  PROVE  Slot(x) # Slot(y)
<1> SUFFICES ASSUME Slot(x) = Slot(y) PROVE FALSE
  OBVIOUS
<1>1. SIZE \in Nat /\ SIZE > 0 /\ WRAP \in Nat
  BY RingAssumption
<1>2. PICK k \in Int : WRAP = SIZE * k
  BY RingAssumption
<1>3. x \in Nat /\ y \in Nat
  BY <1>1 DEF Index
<1>4. PICK a \in Int : x = SIZE * a + Slot(x)
  <2>1. x = SIZE * (x \div SIZE) + (x % SIZE)
    BY <1>1, <1>3
  <2>2. (x \div SIZE) \in Int
    BY <1>1, <1>3
  <2> QED BY <2>1, <2>2 DEF Slot
<1>5. PICK b \in Int : y = SIZE * b + Slot(y)
  <2>1. y = SIZE * (y \div SIZE) + (y % SIZE)
    BY <1>1, <1>3
  <2>2. (y \div SIZE) \in Int
    BY <1>1, <1>3
  <2> QED BY <2>1, <2>2 DEF Slot
<1>6. Slot(x) \in Int
  BY SlotRange
<1>7. PICK n \in Int : Minus(x, y) = SIZE * n
  <2>1. CASE x >= y
    <3>1. Minus(x, y) = SIZE * a - SIZE * b
      BY <2>1, <1>1, <1>4, <1>5, <1>6, <1>3 DEF Minus
    <3>2. SIZE * a - SIZE * b = SIZE * (a - b)
      BY <1>1
    <3> QED BY <3>1, <3>2
  <2>2. CASE ~(x >= y)
    <3>0. SIZE * a \in Int /\ SIZE * b \in Int /\ SIZE * k \in Int
      BY <1>1
    <3>1. Minus(x, y) = SIZE * a - SIZE * b + SIZE * k
      <4>1. Minus(x, y) = x - y + WRAP
        BY <2>2 DEF Minus
      <4>2. x - y = SIZE * a - SIZE * b
        BY <3>0, <1>4, <1>5, <1>6
      <4> QED BY <3>0, <4>1, <4>2, <1>2
    <3>2. SIZE * a - SIZE * b + SIZE * k = SIZE * (a - b + k)
      BY <1>1
    <3> QED BY <3>1, <3>2
  <2> QED BY <2>1, <2>2
<1>8. Minus(x, y) > 0
  BY <1>1, <1>3 DEF Minus, Index
<1> QED BY <1>7, <1>8, <1>1, MultipleIsLarge

\* Publishing a message makes the ring one longer and only its slot live.
LEMMA CountAfterPush ==
  ASSUME NEW t \in Index, NEW h \in Index, Minus(t, h) < SIZE
  PROVE  /\ Minus(Plus(t, 1), h) = Minus(t, h) + 1
         /\ \A x \in Index : Minus(x, h) < Minus(t, h) + 1
                               => x = t \/ Minus(x, h) < Minus(t, h)
BY RingAssumption DEF Index, Minus, Plus

\* Releasing a slot makes the ring one shorter and no slot live.
LEMMA CountAfterPop ==
  ASSUME NEW t \in Index, NEW h \in Index, Minus(t, h) > 0
  PROVE  /\ Minus(t, Plus(h, 1)) = Minus(t, h) - 1
         /\ \A x \in Index : Minus(x, Plus(h, 1)) < Minus(t, h) - 1
                               => Minus(x, h) < Minus(t, h)
BY RingAssumption DEF Index, Minus, Plus

\* A live slot is not the slot a push may write.
LEMMA LiveIsNotFree ==
  ASSUME NEW t \in Index, NEW h \in Index, NEW x \in Index,
         Minus(t, h) < SIZE, Minus(x, h) < Minus(t, h)
  PROVE  Slot(x) # Slot(t)
<1>1. t # x /\ Minus(t, x) < SIZE
  BY RingAssumption DEF Index, Minus
<1> QED BY <1>1, SlotsApart

\* The slot at head is live as soon as the ring is not empty.
LEMMA HeadIsLive ==
  ASSUME NEW t \in Index, NEW h \in Index, Minus(t, h) > 0
  PROVE  Minus(h, h) < Minus(t, h)
BY RingAssumption DEF Index, Minus

-------------------------------------------------------------------------------
(***************************************************************************)
(* The inductive invariant.                                                *)
(***************************************************************************)

\* The empty ring satisfies the invariant.
LEMMA RingInvInit == Init => RingInv
<1> SUFFICES ASSUME Init PROVE RingInv
  OBVIOUS
<1>1. 0 \in Index /\ SIZE \in Nat /\ 1 \in Word
  BY RingAssumption DEF Index, Word
<1>2. Count = 0
  BY <1>1 DEF Init, Count, Minus
<1>3. TypeOK
  BY <1>1, <1>2, RingAssumption DEF Init, TypeOK, Nothing, Whole
<1>4. ProducerInv
  BY DEF Init, ProducerInv, ProducerOk
<1>5. ConsumerInv
  BY DEF Init, ConsumerInv
<1>6. LiveInv
  BY <1>2, IndexArithmetic, <1>1 DEF Init, LiveInv, Index
<1> QED BY <1>3, <1>4, <1>5, <1>6 DEF RingInv

\* Starting a push only records the current tail.
LEMMA PushLoadTailPreserves ==
  ASSUME NEW p \in Producers, NEW m \in Messages, RingInv, PushLoadTail(p, m)
  PROVE  RingInv'
<1> USE DEF PushLoadTail, consVars
<1>1. Count' = Count
  BY DEF Count
<1>2. TypeOK'
  BY <1>1, RingAssumption DEF RingInv, TypeOK, Word
<1>3. ProducerInv'
  BY <1>1 DEF RingInv, TypeOK, ProducerInv, ProducerOk
<1>4. ConsumerInv'
  BY <1>1 DEF RingInv, ConsumerInv
<1>5. LiveInv'
  BY <1>1 DEF RingInv, LiveInv
<1> QED BY <1>2, <1>3, <1>4, <1>5 DEF RingInv

\* A push that goes on past the full test has found a free slot.
LEMMA PushCheckPreserves ==
  ASSUME NEW p \in Producers, RingInv, PushCheck(p), SingleProducer
  PROVE  RingInv'
<1> USE DEF PushCheck, consVars
<1>1. Count' = Count
  BY DEF Count
<1>2. TypeOK'
  BY <1>1 DEF RingInv, TypeOK
<1>3. ProducerInv'
  <2> SUFFICES ASSUME NEW q \in Producers PROVE ProducerOk(q)'
    BY DEF ProducerInv
  <2>1. q = p
    BY DEF SingleProducer
  <2>2. ptail[p] = tail
    BY DEF RingInv, ProducerInv, ProducerOk
  <2>3. pstep'[p] = "copy" => Count < SIZE
    BY <2>2, RingAssumption DEF RingInv, TypeOK, Count
  <2>4. pstep'[p] # "publish"
    BY DEF RingInv, TypeOK
  <2>5. pword[p] = 1
    BY DEF RingInv, ProducerInv, ProducerOk
  <2> QED
    BY <2>1, <2>2, <2>3, <2>4, <2>5, <1>1 DEF RingInv, TypeOK, Word, ProducerOk
<1>4. ConsumerInv'
  BY <1>1 DEF RingInv, ConsumerInv
<1>5. LiveInv'
  BY <1>1 DEF RingInv, LiveInv
<1> QED BY <1>2, <1>3, <1>4, <1>5 DEF RingInv

\* Copying a word in touches neither a live slot nor, therefore, the slot the
\* consumer copies from.
LEMMA PushCopyWordPreserves ==
  ASSUME NEW p \in Producers, RingInv, PushCopyWord(p), SingleProducer
  PROVE  RingInv'
<1> USE DEF PushCopyWord, consVars
<1>1. Count' = Count
  BY DEF Count
<1>2. /\ ptail[p] = tail
      /\ Count < SIZE
      /\ tail \in Index /\ head \in Index
      /\ \A w \in Word : w < pword[p] => slots[Slot(tail)][w] = pmsg[p]
  BY DEF RingInv, TypeOK, ProducerInv, ProducerOk
<1>3. TypeOK'
  <2>1. Slot(tail) \in 0 .. SIZE - 1
    BY <1>2, SlotRange
  <2>2. slots' \in [0 .. SIZE - 1 -> [Word -> Messages \cup {Garbage}]]
    BY <2>1, <1>2 DEF RingInv, TypeOK
  <2>3. pword' \in [Producers -> Word]
    <3>1. pword \in [Producers -> Word] /\ pword[p] \in Word
      BY DEF RingInv, TypeOK
    <3>2. pword[p] # WORDS => pword[p] + 1 \in Word
      BY <3>1, RingAssumption DEF Word
    <3> QED BY <3>1, <3>2
  <2> QED BY <2>2, <2>3, <1>1 DEF RingInv, TypeOK
<1>4. \A i \in 0 .. SIZE - 1 : i # Slot(tail) => slots'[i] = slots[i]
  BY <1>2 DEF RingInv, TypeOK
<1>5. slots'[Slot(tail)] = [slots[Slot(tail)] EXCEPT ![pword[p]] = pmsg[p]]
  BY <1>2, SlotRange DEF RingInv, TypeOK
<1>6. ProducerInv'
  <2> SUFFICES ASSUME NEW q \in Producers PROVE ProducerOk(q)'
    BY DEF ProducerInv
  <2>1. q = p
    BY DEF SingleProducer
  <2>2. slots[Slot(tail)] \in [Word -> Messages \cup {Garbage}]
    BY <1>2, SlotRange DEF RingInv, TypeOK
  <2>3. \A w \in Word : w <= pword[p] => slots'[Slot(tail)][w] = pmsg[p]
    <3> SUFFICES ASSUME NEW w \in Word, w <= pword[p]
                 PROVE  slots'[Slot(tail)][w] = pmsg[p]
      OBVIOUS
    <3>1. pword[p] \in Int /\ w \in Int
      BY RingAssumption DEF RingInv, TypeOK, Word
    <3>2. CASE w = pword[p]
      BY <3>2, <1>5, <2>2
    <3>3. CASE w # pword[p]
      <4>1. w < pword[p]
        BY <3>1, <3>3
      <4> QED BY <4>1, <3>3, <1>2, <1>5, <2>2
    <3> QED BY <3>2, <3>3
  <2>4. CASE pword[p] = WORDS
    <3>1. slots'[Slot(tail)] = Whole(pmsg[p])
      <4>1. slots'[Slot(tail)] = [w \in Word |-> slots'[Slot(tail)][w]]
        BY <1>5, <2>2
      <4>2. \A w \in Word : slots'[Slot(tail)][w] = pmsg[p]
        BY <2>3, <2>4, RingAssumption DEF Word
      <4> QED BY <4>1, <4>2 DEF Whole
    <3> QED
      BY <3>1, <2>4, <2>1, <1>1, <1>2 DEF RingInv, TypeOK, ProducerOk, Slot, Whole
  <2>5. CASE pword[p] # WORDS
    <3>1. \A w \in Word : w < pword[p] + 1 => slots'[Slot(tail)][w] = pmsg[p]
      BY <2>3, RingAssumption DEF RingInv, TypeOK, Word
    <3> QED
      BY <3>1, <2>5, <2>1, <1>1, <1>2 DEF RingInv, TypeOK, ProducerOk, Slot
  <2> QED BY <2>4, <2>5
<1>7. \A x \in Index : Minus(x, head) < Count => slots'[Slot(x)] = slots[Slot(x)]
  <2> SUFFICES ASSUME NEW x \in Index, Minus(x, head) < Count
               PROVE  slots'[Slot(x)] = slots[Slot(x)]
    OBVIOUS
  <2>1. Slot(x) # Slot(tail)
    BY <1>2, LiveIsNotFree DEF Count
  <2> QED BY <2>1, <1>4, SlotRange
<1>8. ConsumerInv'
  <2>1. cstep \in {"copy", "release"} => slots'[Slot(head)] = slots[Slot(head)]
    <3>1. Count > 0 => Minus(head, head) < Count
      BY HeadIsLive, <1>2 DEF Count
    <3> QED BY <3>1, <1>7, <1>2 DEF RingInv, ConsumerInv
  <2> QED BY <2>1, <1>1 DEF RingInv, ConsumerInv, Slot
<1>9. LiveInv'
  BY <1>1, <1>7 DEF RingInv, LiveInv, Slot, Minus, Whole
<1> QED BY <1>3, <1>6, <1>8, <1>9 DEF RingInv

\* Publishing makes the slot just written live: it holds a whole message.
LEMMA PushPublishPreserves ==
  ASSUME NEW p \in Producers, RingInv, PushPublish(p), SingleProducer
  PROVE  RingInv'
<1> USE DEF PushPublish, consVars
<1>1. /\ ptail[p] = tail
      /\ Count < SIZE
      /\ tail \in Index /\ head \in Index
      /\ slots[Slot(tail)] = Whole(pmsg[p])
      /\ pmsg[p] \in Messages
  BY DEF RingInv, TypeOK, ProducerInv, ProducerOk
<1>2. tail' = Plus(tail, 1) /\ tail' \in Index
  BY <1>1, IndexArithmetic
<1>3. Count' = Count + 1
  BY <1>1, <1>2, CountAfterPush DEF Count
<1>4. TypeOK'
  BY <1>1, <1>2, <1>3, RingAssumption DEF RingInv, TypeOK
<1>5. ProducerInv'
  BY SingleProducer DEF RingInv, TypeOK, ProducerInv, ProducerOk, SingleProducer
<1>6. ConsumerInv'
  BY <1>3, <1>4 DEF RingInv, TypeOK, ConsumerInv
<1>7. LiveInv'
  <2> SUFFICES ASSUME NEW x \in Index, Minus(x, head) < Count + 1
               PROVE  \E m \in Messages : slots[Slot(x)] = Whole(m)
    BY <1>3 DEF LiveInv
  <2>1. x = tail \/ Minus(x, head) < Count
    BY <1>1, CountAfterPush DEF Count
  <2> QED BY <2>1, <1>1 DEF RingInv, LiveInv
<1> QED BY <1>4, <1>5, <1>6, <1>7 DEF RingInv

\* Starting a pop only records the current head.
LEMMA PopLoadHeadPreserves ==
  ASSUME RingInv, PopLoadHead
  PROVE  RingInv'
<1> USE DEF PopLoadHead, prodVars
<1>1. Count' = Count
  BY DEF Count
<1>2. TypeOK'
  BY <1>1, RingAssumption DEF RingInv, TypeOK, Word
<1>3. ProducerInv'
  BY <1>1 DEF RingInv, ProducerInv, ProducerOk
<1>4. ConsumerInv'
  BY <1>1 DEF RingInv, ConsumerInv
<1>5. LiveInv'
  BY <1>1 DEF RingInv, LiveInv
<1> QED BY <1>2, <1>3, <1>4, <1>5 DEF RingInv

\* A pop that goes on past the empty test has found a live slot.
LEMMA PopCheckPreserves ==
  ASSUME RingInv, PopCheck
  PROVE  RingInv'
<1> USE DEF PopCheck, prodVars
<1>1. Count' = Count
  BY DEF Count
<1>2. TypeOK'
  BY <1>1 DEF RingInv, TypeOK
<1>3. ProducerInv'
  BY <1>1 DEF RingInv, ProducerInv, ProducerOk
<1>4. ConsumerInv'
  <2>1. chead = head /\ cword = 1
    BY DEF RingInv, ConsumerInv
  <2>2. cstep' = "copy" => Count > 0
    BY <2>1, RingAssumption DEF RingInv, TypeOK, Count, Minus, Index
  <2>3. cstep' # "release"
    OBVIOUS
  <2> QED BY <2>1, <2>2, <2>3, <1>1 DEF ConsumerInv, Word
<1>5. LiveInv'
  BY <1>1 DEF RingInv, LiveInv
<1> QED BY <1>2, <1>3, <1>4, <1>5 DEF RingInv

\* Copying a word out reads the slot at head, which no push changes.
LEMMA PopCopyWordPreserves ==
  ASSUME RingInv, PopCopyWord
  PROVE  RingInv'
<1> USE DEF PopCopyWord, prodVars
<1>1. Count' = Count
  BY DEF Count
<1>2. /\ chead = head /\ Count > 0
      /\ head \in Index
      /\ cword \in Word
      /\ slots[Slot(head)] \in [Word -> Messages \cup {Garbage}]
      /\ out \in [Word -> Messages \cup {Garbage}]
      /\ \A w \in Word : w < cword => out[w] = slots[Slot(head)][w]
  BY SlotRange DEF RingInv, TypeOK, ConsumerInv
<1>3. TypeOK'
  <2>1. cword' \in Word
    BY <1>2, RingAssumption DEF Word
  <2>2. out' \in [Word -> Messages \cup {Garbage}]
    BY <1>2
  <2> QED BY <2>1, <2>2, <1>1 DEF RingInv, TypeOK
<1>4. ProducerInv'
  BY <1>1 DEF RingInv, ProducerInv, ProducerOk
<1>5. ConsumerInv'
  <2>1. \A w \in Word : w <= cword => out'[w] = slots[Slot(head)][w]
    <3> SUFFICES ASSUME NEW w \in Word, w <= cword
                 PROVE  out'[w] = slots[Slot(head)][w]
      OBVIOUS
    <3>1. cword \in Int /\ w \in Int
      BY <1>2, RingAssumption DEF Word
    <3>2. CASE w = cword
      BY <3>2, <1>2
    <3>3. CASE w # cword
      <4>1. w < cword
        BY <3>1, <3>3
      <4> QED BY <4>1, <3>3, <1>2
    <3> QED BY <3>2, <3>3
  <2>2. CASE cword = WORDS
    <3>1. out' = [w \in Word |-> out'[w]]
      BY <1>2
    <3>2. slots[Slot(head)] = [w \in Word |-> slots[Slot(head)][w]]
      BY <1>2
    <3>3. \A w \in Word : out'[w] = slots[Slot(head)][w]
      BY <2>1, <2>2, RingAssumption DEF Word
    <3>4. out' = slots[Slot(head)]
      BY <3>1, <3>2, <3>3
    <3> QED BY <3>4, <2>2, <1>1, <1>2 DEF ConsumerInv, Slot
  <2>3. CASE cword # WORDS
    <3>1. \A w \in Word : w < cword + 1 => out'[w] = slots[Slot(head)][w]
      BY <2>1, <1>2, RingAssumption DEF Word
    <3> QED BY <3>1, <2>3, <1>1, <1>2 DEF ConsumerInv, Slot
  <2> QED BY <2>2, <2>3
<1>6. LiveInv'
  BY <1>1 DEF RingInv, LiveInv
<1> QED BY <1>3, <1>4, <1>5, <1>6 DEF RingInv

\* Releasing the slot at head leaves every other live slot live, and the slot
\* a push may be writing where it was.
LEMMA PopReleasePreserves ==
  ASSUME RingInv, PopRelease
  PROVE  RingInv'
<1> USE DEF PopRelease, prodVars
<1>1. /\ chead = head /\ Count > 0
      /\ head \in Index /\ tail \in Index
      /\ Count \in 0 .. SIZE
      /\ SIZE \in Nat
  BY RingAssumption DEF RingInv, TypeOK, ConsumerInv
<1>2. head' = Plus(head, 1) /\ head' \in Index
  BY <1>1, IndexArithmetic
<1>3. Count' = Count - 1
  BY <1>1, <1>2, CountAfterPop DEF Count
<1>4. TypeOK'
  BY <1>1, <1>2, <1>3 DEF RingInv, TypeOK
<1>5. ProducerInv'
  BY <1>1, <1>3 DEF RingInv, ProducerInv, ProducerOk
<1>6. ConsumerInv'
  BY DEF ConsumerInv
<1>7. LiveInv'
  <2> SUFFICES ASSUME NEW x \in Index, Minus(x, Plus(head, 1)) < Count - 1
               PROVE  \E m \in Messages : slots[Slot(x)] = Whole(m)
    BY <1>1, <1>3 DEF LiveInv
  <2>1. Minus(x, head) < Count
    BY <1>1, CountAfterPop DEF Count
  <2> QED BY <2>1 DEF RingInv, LiveInv
<1> QED BY <1>4, <1>5, <1>6, <1>7 DEF RingInv

\* Every step of a single producer and of the consumer keeps the invariant.
LEMMA RingInvNext ==
  ASSUME SingleProducer, RingInv, [Next]_vars
  PROVE  RingInv'
<1>1. CASE Pop
  BY <1>1, PopLoadHeadPreserves, PopCheckPreserves, PopCopyWordPreserves,
     PopReleasePreserves DEF Pop
<1>2. ASSUME NEW p \in Producers, Push(p) PROVE RingInv'
  BY <1>2, PushLoadTailPreserves, PushCheckPreserves, PushCopyWordPreserves,
     PushPublishPreserves DEF Push
<1>3. CASE UNCHANGED vars
  <2>1. Count' = Count
    BY <1>3 DEF vars, Count
  <2>2. TypeOK' = TypeOK
    BY <1>3, <2>1 DEF vars, prodVars, consVars, TypeOK
  <2>3. ProducerInv' = ProducerInv
    BY <1>3, <2>1 DEF vars, prodVars, consVars, ProducerInv, ProducerOk
  <2>4. ConsumerInv' = ConsumerInv
    BY <1>3, <2>1 DEF vars, prodVars, consVars, ConsumerInv
  <2>5. LiveInv' = LiveInv
    BY <1>3, <2>1 DEF vars, LiveInv
  <2> QED BY <2>2, <2>3, <2>4, <2>5 DEF RingInv
<1> QED BY <1>1, <1>2, <1>3 DEF Next

\* The invariant keeps the slots of a push and of a pop apart.
LEMMA RingInvNoSharedSlot == RingInv => NoSharedSlot
<1> SUFFICES ASSUME RingInv, NEW p \in Producers,
                    pstep[p] = "copy", cstep = "copy"
             PROVE  Slot(ptail[p]) # Slot(chead)
  BY DEF NoSharedSlot
<1>1. /\ ptail[p] = tail /\ chead = head
      /\ Minus(tail, head) < SIZE /\ Minus(tail, head) > 0
      /\ tail \in Index /\ head \in Index
  BY DEF RingInv, TypeOK, ProducerInv, ProducerOk, ConsumerInv, Count
<1> QED BY <1>1, HeadIsLive, LiveIsNotFree

-------------------------------------------------------------------------------
(***************************************************************************)
(* The theorems.                                                           *)
(***************************************************************************)

\* With one producer the ring always satisfies its inductive invariant: push
\* and pop (ringbuffer.h 81-146) never disagree about which slots are live.
THEOREM RingInvHolds ==
  ASSUME SingleProducer
  PROVE  Spec => []RingInv
<1>1. Init => RingInv
  BY RingInvInit
<1>2. RingInv /\ [Next]_vars => RingInv'
  BY RingInvNext
<1> QED BY <1>1, <1>2, PTL DEF Spec

\* With one producer the indices stay in range and at most SIZE messages are
\* held, for every SIZE and every counter width.
THEOREM TypeCorrect ==
  ASSUME SingleProducer
  PROVE  Spec => []TypeOK
<1>1. RingInv => TypeOK
  BY DEF RingInv
<1> QED BY <1>1, RingInvHolds, PTL

\* With one producer a push never writes a slot while a pop reads it.
THEOREM NoTornMessage ==
  ASSUME SingleProducer
  PROVE  Spec => []NoSharedSlot
<1> QED BY RingInvNoSharedSlot, RingInvHolds, PTL

-------------------------------------------------------------------------------
(***************************************************************************)
(* The ring implements the bounded FIFO.                                   *)
(***************************************************************************)

\* The i-th live message sits i - 1 slots after head, the first free slot
\* Count slots after it.
LEMMA LivePositions ==
  ASSUME NEW t \in Index, NEW h \in Index, Minus(t, h) <= SIZE
  PROVE  /\ Plus(h, Minus(t, h)) = t
         /\ \A i \in 1 .. Minus(t, h) :
              /\ Plus(h, i - 1) \in Index
              /\ Minus(Plus(h, i - 1), h) < Minus(t, h)
         /\ \A i \in 1 .. Minus(t, h) - 1 :
              Plus(Plus(h, 1), i - 1) = Plus(h, i)
BY RingAssumption DEF Index, Minus, Plus

\* Live is a sequence of Count messages.
LEMMA LiveIsSequence ==
  ASSUME RingInv
  PROVE  /\ Live \in Seq([Word -> Messages \cup {Garbage}])
         /\ Len(Live) = Count
         /\ Count \in Nat
         /\ \A i \in 1 .. Count : Live[i] = slots[Slot(Plus(head, i - 1))]
<1>1. Count \in Nat /\ Count <= SIZE /\ tail \in Index /\ head \in Index
  BY RingAssumption DEF RingInv, TypeOK
<1>2. \A i \in 1 .. Count :
        slots[Slot(Plus(head, i - 1))] \in [Word -> Messages \cup {Garbage}]
  BY <1>1, LivePositions, SlotRange DEF RingInv, TypeOK, Count
<1>3. Live \in [1 .. Count -> [Word -> Messages \cup {Garbage}]]
  BY <1>2 DEF Live
<1> QED BY <1>1, <1>3 DEF Live

\* The steps before a push publishes do not show in the queue.
LEMMA PushStutters ==
  ASSUME RingInv, NEW p \in Producers,
         \/ \E m \in Messages : PushLoadTail(p, m)
         \/ PushCheck(p)
         \/ PushCopyWord(p)
  PROVE  UNCHANGED <<Live, delivered>>
<1>1. /\ UNCHANGED <<head, tail, delivered>>
      /\ Count' = Count
  BY DEF PushLoadTail, PushCheck, PushCopyWord, consVars, Count
<1>2. \A i \in 1 .. Count : slots'[Slot(Plus(head, i - 1))]
                              = slots[Slot(Plus(head, i - 1))]
  <2>1. CASE UNCHANGED slots
    BY <2>1
  <2>2. CASE PushCopyWord(p)
    <3> SUFFICES ASSUME NEW i \in 1 .. Count
                 PROVE  slots'[Slot(Plus(head, i - 1))]
                          = slots[Slot(Plus(head, i - 1))]
      OBVIOUS
    <3>1. /\ ptail[p] = tail /\ tail \in Index /\ head \in Index
          /\ Count < SIZE /\ Count <= SIZE
      BY <2>2, RingAssumption
      DEF PushCopyWord, RingInv, TypeOK, ProducerInv, ProducerOk
    <3>2. /\ Plus(head, i - 1) \in Index
          /\ Minus(Plus(head, i - 1), head) < Count
      BY <3>1, LivePositions DEF Count
    <3>3. Slot(Plus(head, i - 1)) # Slot(tail)
      BY <3>1, <3>2, LiveIsNotFree DEF Count
    <3>4. Slot(Plus(head, i - 1)) \in 0 .. SIZE - 1
      BY <3>2, SlotRange
    <3> QED BY <2>2, <3>1, <3>3, <3>4 DEF PushCopyWord, RingInv, TypeOK
  <2> QED BY <2>1, <2>2 DEF PushLoadTail, PushCheck
<1>3. Live' = Live
  BY <1>1, <1>2 DEF Live
<1> QED BY <1>1, <1>3

\* Storing tail appends the message to the queue.
LEMMA PublishPuts ==
  ASSUME SingleProducer, RingInv, NEW p \in Producers, PushPublish(p)
  PROVE  Fifo!Put(Whole(pmsg[p]))
<1>1. /\ ptail[p] = tail /\ tail \in Index /\ head \in Index
      /\ Count < SIZE /\ Count <= SIZE
      /\ slots[Slot(tail)] = Whole(pmsg[p])
  BY RingAssumption
  DEF PushPublish, RingInv, TypeOK, ProducerInv, ProducerOk
<1>2. RingInv'
  BY PushPublishPreserves
<1>3. Count' = Count + 1 /\ UNCHANGED <<slots, head, delivered>>
  BY <1>1, CountAfterPush DEF PushPublish, consVars, Count
<1>4. /\ Live' \in Seq([Word -> Messages \cup {Garbage}])
      /\ Len(Live') = Count'
      /\ \A i \in 1 .. Count' : Live'[i] = slots'[Slot(Plus(head', i - 1))]
  <2>1. (RingInv => /\ Live \in Seq([Word -> Messages \cup {Garbage}])
                    /\ Len(Live) = Count
                    /\ \A i \in 1 .. Count :
                          Live[i] = slots[Slot(Plus(head, i - 1))])'
    BY LiveIsSequence, PTL
  <2> QED BY <2>1, <1>2 DEF Slot, Plus
<1>5. Plus(head, Count) = tail
  BY <1>1, LivePositions DEF Count
<1>6. Live' = Append(Live, Whole(pmsg[p]))
  <2> DEFINE a == Append(Live, Whole(pmsg[p]))
  <2>1. /\ a \in Seq([Word -> Messages \cup {Garbage}])
        /\ Len(a) = Count + 1
        /\ \A i \in 1 .. Count : a[i] = slots[Slot(Plus(head, i - 1))]
        /\ a[Count + 1] = Whole(pmsg[p])
    <3>1. Whole(pmsg[p]) \in [Word -> Messages \cup {Garbage}]
      BY DEF RingInv, TypeOK, Whole
    <3> QED BY <3>1, LiveIsSequence
  <2>2. \A i \in 1 .. Count + 1 : Live'[i] = a[i]
    <3>1. Count \in Nat
      BY LiveIsSequence
    <3>2. ((Count + 1) - 1) = Count
      BY <3>1
    <3>3. Live'[Count + 1] = a[Count + 1]
      BY <3>1, <3>2, <1>4, <1>3, <1>5, <1>1, <2>1
    <3>4. \A i \in 1 .. Count : Live'[i] = a[i]
      <4> SUFFICES ASSUME NEW i \in 1 .. Count PROVE Live'[i] = a[i]
        OBVIOUS
      <4>1. i \in 1 .. Count'
        BY <3>1, <1>3
      <4>2. Live'[i] = slots[Slot(Plus(head, i - 1))]
        BY <4>1, <1>3, <1>4
      <4> HIDE DEF a
      <4> QED BY <4>2, <2>1
    <3> HIDE DEF a
    <3>5. \A i \in 1 .. Count + 1 : i \in 1 .. Count \/ i = Count + 1
      BY <3>1
    <3> QED BY <3>3, <3>4, <3>5
  <2> HIDE DEF a
  <2>3. Live' = a
    BY <2>1, <2>2, <1>3, <1>4, LiveIsSequence
  <2> QED BY <2>3 DEF a
<1> QED BY <1>1, <1>3, <1>6, LiveIsSequence DEF Fifo!Put

\* The steps before a pop releases do not show in the queue.
LEMMA PopStutters ==
  ASSUME PopLoadHead \/ PopCheck \/ PopCopyWord
  PROVE  UNCHANGED <<Live, delivered>>
BY DEF PopLoadHead, PopCheck, PopCopyWord, Live, Count

\* Storing head removes the oldest message, and the consumer holds it whole.
LEMMA ReleaseGets ==
  ASSUME RingInv, PopRelease
  PROVE  Fifo!Get
<1>1. /\ chead = head /\ tail \in Index /\ head \in Index
      /\ Count > 0 /\ Count <= SIZE
      /\ out = slots[Slot(head)]
  BY RingAssumption DEF PopRelease, RingInv, TypeOK, ConsumerInv
<1>2. RingInv'
  BY PopReleasePreserves
<1>3. /\ Count' = Count - 1 /\ head' = Plus(head, 1)
      /\ UNCHANGED slots /\ delivered' = out
  BY <1>1, CountAfterPop DEF PopRelease, prodVars, Count
<1>4. /\ Live' \in Seq([Word -> Messages \cup {Garbage}])
      /\ Len(Live') = Count'
      /\ \A i \in 1 .. Count' : Live'[i] = slots'[Slot(Plus(head', i - 1))]
  <2>1. (RingInv => /\ Live \in Seq([Word -> Messages \cup {Garbage}])
                    /\ Len(Live) = Count
                    /\ \A i \in 1 .. Count :
                          Live[i] = slots[Slot(Plus(head, i - 1))])'
    BY LiveIsSequence, PTL
  <2> QED BY <2>1, <1>2 DEF Slot, Plus
<1>5. Plus(head, 0) = head
  BY <1>1, RingAssumption DEF Plus, Index
<1>6. Live # <<>> /\ Head(Live) = out
  <2>1. 1 \in 1 .. Count
    BY <1>1, LiveIsSequence
  <2>2. Live[1] = slots[Slot(head)]
    BY <2>1, <1>5, LiveIsSequence
  <2> QED BY <2>1, <2>2, <1>1, LiveIsSequence
<1>7. Live' = Tail(Live)
  <2> DEFINE t == Tail(Live)
  <2>1. /\ t \in Seq([Word -> Messages \cup {Garbage}])
        /\ Len(t) = Count - 1
        /\ \A i \in 1 .. Count - 1 : t[i] = Live[i + 1]
    BY <1>1, <1>6, LiveIsSequence
  <2> HIDE DEF t
  <2>2. \A i \in 1 .. Count - 1 : Live'[i] = t[i]
    <3> SUFFICES ASSUME NEW i \in 1 .. Count - 1 PROVE Live'[i] = t[i]
      OBVIOUS
    <3>1. i + 1 \in 1 .. Count /\ (i + 1) - 1 = i
      BY <1>1, LiveIsSequence
    <3>2. t[i] = slots[Slot(Plus(head, i))]
      BY <3>1, <2>1, LiveIsSequence
    <3>3. Live'[i] = slots[Slot(Plus(Plus(head, 1), i - 1))]
      BY <1>3, <1>4
    <3>4. Plus(Plus(head, 1), i - 1) = Plus(head, i)
      BY <1>1, LivePositions DEF Count
    <3> QED BY <3>2, <3>3, <3>4
  <2>3. Live' = t
    BY <2>1, <2>2, <1>3, <1>4, LiveIsSequence
  <2> QED BY <2>3 DEF t
<1> QED BY <1>3, <1>6, <1>7 DEF Fifo!Get

\* With one producer the index-and-slot algorithm implements the bounded FIFO
\* queue: nothing pushed is lost, duplicated, reordered or delivered in part.
THEOREM ImplementsBoundedFifo ==
  ASSUME SingleProducer
  PROVE  Spec => ImplementsFifo
<1>1. Init => Fifo!Init
  <2> SUFFICES ASSUME Init PROVE Live = <<>> /\ delivered = Nothing
    BY DEF Fifo!Init
  <2>1. RingInv /\ Count = 0
    BY RingInvInit, RingAssumption DEF Init, Count, Minus
  <2> QED BY <2>1, LiveIsSequence DEF Init
<1>2. RingInv /\ [Next]_vars => [Fifo!Next]_Fifo!fifoVars
  <2> SUFFICES ASSUME RingInv, [Next]_vars
               PROVE  [Fifo!Next]_<<Live, delivered>>
    BY DEF Fifo!fifoVars
  <2>1. CASE PopLoadHead \/ PopCheck \/ PopCopyWord
    BY <2>1, PopStutters
  <2>2. CASE PopRelease
    BY <2>2, ReleaseGets DEF Fifo!Next
  <2>3. ASSUME NEW p \in Producers,
               \/ \E m \in Messages : PushLoadTail(p, m)
               \/ PushCheck(p)
               \/ PushCopyWord(p)
        PROVE  UNCHANGED <<Live, delivered>>
    BY <2>3, PushStutters
  <2>4. ASSUME NEW p \in Producers, PushPublish(p) PROVE Fifo!Next
    <3>1. Whole(pmsg[p]) \in {Whole(m) : m \in Messages}
      BY DEF RingInv, TypeOK
    <3> QED BY <2>4, <3>1, PublishPuts DEF Fifo!Next
  <2>5. CASE UNCHANGED vars
    BY <2>5 DEF vars, consVars, Live, Count
  <2> QED BY <2>1, <2>2, <2>3, <2>4, <2>5 DEF Next, Pop, Push
<1> QED BY <1>1, <1>2, RingInvHolds, PTL DEF Spec, ImplementsFifo, Fifo!Spec
===============================================================================
