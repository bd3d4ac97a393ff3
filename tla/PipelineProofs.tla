---------------------------- MODULE PipelineProofs ----------------------------
(***************************************************************************)
(* For any number of requests and any sizes: in every interleaving of the  *)
(* components no request is lost or doubled, and what is dropped was never *)
(* processed.                                                              *)
(*                                                                         *)
(* And as the kernel runs them: no pointer is queued twice or outlives its *)
(* purpose, a response holds its own result, and the pipeline implements   *)
(* the service.                                                            *)
(***************************************************************************)
EXTENDS CorePipeline, SyncPipeline, TLAPS, FiniteSetTheorems, SequenceTheorems, WellFoundedInduction

-------------------------------------------------------------------------------
(***************************************************************************)
(* Numbers, sets and sequences.                                            *)
(***************************************************************************)

\* The constants as numbers.
LEMMA PipelineConstants ==
  /\ MaxEvents \in Nat /\ MaxEvents > 0
  /\ RING \in Nat /\ RING > 0
  /\ BUCKETS \in Nat /\ BUCKETS > 0
  /\ CAPACITY \in Nat /\ CAPACITY > 0
  /\ BATCH \in Nat /\ BATCH > 0
  /\ STEPS \in Nat /\ STEPS > 0
  /\ QUEUE \in Nat /\ QUEUE > 0
  /\ CACHE \in Nat /\ CACHE > 0
BY PipelineAssumption

\* A set of numbers that is not empty has a least member, and Min finds it.
LEMMA LeastMember ==
  ASSUME NEW S, S \subseteq Nat, S # {}
  PROVE  Min(S) \in S /\ \A t \in S : Min(S) <= t
<1> DEFINE R == OpToRel(<, Nat)
<1>1. \E x \in S : \A y \in S : ~ (<<y, x>> \in R)
  <2> HIDE DEF R
  <2>1. IsWellFoundedOn(R, Nat)
    BY NatLessThanWellFounded DEF R
  <2> QED BY <2>1, WFMin
<1>2. \A x, y \in Nat : y < x => <<y, x>> \in R
  BY DEF OpToRel
<1>3. \E x \in S : \A y \in S : x <= y
  <2> HIDE DEF R
  <2>1. PICK x \in S : \A y \in S : ~ (<<y, x>> \in R)
    BY <1>1
  <2>2. ASSUME NEW y \in S PROVE x <= y
    <3>1. x \in Nat /\ y \in Nat /\ ~ (y < x)
      BY <1>2, <2>1
    <3> QED BY <3>1
  <2> QED BY <2>2
<1> QED BY <1>3 DEF Min

\* Two pointers are the same if they name the same slot of the same bucket.
LEMMA SamePointer ==
  ASSUME NEW p \in Pointer, NEW q \in Pointer, p[1] = q[1], p[2] = q[2]
  PROVE  p = q
BY DEF Pointer

\* There are finitely many pointers.
LEMMA FinitelyManyPointers == IsFiniteSet(Pointer)
<1>1. IsFiniteSet(0 .. BUCKETS - 1) /\ IsFiniteSet(1 .. CAPACITY)
  <2>1. 0 \in Int /\ 1 \in Int /\ BUCKETS - 1 \in Int /\ CAPACITY \in Int
    BY PipelineConstants
  <2> QED BY <2>1, FS_Interval
<1> QED BY <1>1, FS_Product DEF Pointer, Bucket

\* The numbers of a set s of slots in ascending order.
Ascending(s, slots) ==
  /\ s \in [1 .. Cardinality(slots) -> slots]
  /\ \A i, j \in 1 .. Cardinality(slots) : i < j => s[i] < s[j]

\* Any set of slots can be put in ascending order: add the greatest one to the
\* order of the others.
LEMMA AscendingExists ==
  ASSUME NEW n \in Nat, NEW slots \in SUBSET (1 .. n)
  PROVE  \E s : Ascending(s, slots)
<1> DEFINE Bad == {k \in Nat : \E u \in SUBSET (1 .. k) : ~ \E s : Ascending(s, u)}
<1> SUFFICES ASSUME Bad # {} PROVE FALSE
  OBVIOUS
<1>1. Min(Bad) \in Bad /\ \A k \in Bad : Min(Bad) <= k
  <2>1. Bad \subseteq Nat
    OBVIOUS
  <2> HIDE DEF Bad
  <2> QED BY <2>1, LeastMember
<1> DEFINE m == Min(Bad)
<1>2. m \in Nat
  BY <1>1
<1>3. PICK u \in SUBSET (1 .. m) : ~ \E s : Ascending(s, u)
  BY <1>1
<1> HIDE DEF Bad, m
<1>4. IsFiniteSet(u)
  <2>1. IsFiniteSet(1 .. m)
    BY <1>2, FS_Interval
  <2> QED BY <2>1, FS_Subset
<1>5. m \in u /\ m > 0
  <2>1. SUFFICES ASSUME m \notin u PROVE FALSE
    BY <1>2
  <2>2. CASE m = 0
    <3>1. u = {}
      BY <2>2
    <3>3. Cardinality(u) = 0
      BY <3>1, FS_EmptySet
    <3>2. Ascending(<<>>, u)
      BY <3>1, <3>3 DEF Ascending
    <3> QED BY <1>3, <3>2
  <2>3. CASE m # 0
    <3>1. m - 1 \in Nat /\ u \in SUBSET (1 .. m - 1)
      BY <1>2, <2>1, <2>3
    <3>2. m - 1 \in Bad
      BY <1>3, <3>1 DEF Bad
    <3> QED BY <1>1, <1>2, <3>2 DEF m
  <2> QED BY <2>2, <2>3
<1> DEFINE v == u \ {m}
<1>6. v \in SUBSET (1 .. m - 1) /\ m - 1 \in Nat
  BY <1>2, <1>5
<1>7. PICK t : Ascending(t, v)
  <2>1. m - 1 \notin Bad
    BY <1>1, <1>2 DEF m
  <2> QED BY <1>6, <2>1 DEF Bad
<1>8. IsFiniteSet(v) /\ Cardinality(v) = Cardinality(u) - 1 /\ Cardinality(u) \in Nat
  BY <1>4, <1>5, FS_RemoveElement, FS_CardinalityType
<1>9. Cardinality(u) > 0
  BY <1>4, <1>5, <1>8, FS_EmptySet
<1> DEFINE c == Cardinality(u)
<1> DEFINE w == [i \in 1 .. c |-> IF i = c THEN m ELSE t[i]]
<1>10. Ascending(w, u)
  <2>1. \A i \in 1 .. c - 1 : t[i] \in v /\ t[i] \in Nat /\ t[i] < m
    <3>1. ASSUME NEW i \in 1 .. c - 1 PROVE t[i] \in v
      BY <1>7, <1>8, <3>1 DEF Ascending
    <3>2. \A x \in v : x \in Nat /\ x < m
      BY <1>2, <1>6
    <3> QED BY <3>1, <3>2
  <2>2. w \in [1 .. c -> u]
    BY <1>5, <1>8, <2>1
  <2>3. \A i, j \in 1 .. c : i < j => w[i] < w[j]
    <3>1. \A i, j \in 1 .. c - 1 : i < j => t[i] < t[j]
      BY <1>7, <1>8 DEF Ascending
    <3>2. c \in Nat
      BY <1>8
    <3> HIDE DEF c, v
    <3> QED BY <1>2, <2>1, <3>1, <3>2
  <2> QED BY <2>2, <2>3 DEF Ascending
<1> QED BY <1>3, <1>10

\* InOrder lists the slots of a set, each once, and no other.
LEMMA InOrderLists ==
  ASSUME NEW slots \in SUBSET (1 .. CAPACITY)
  PROVE  /\ IsFiniteSet(slots) /\ Cardinality(slots) \in Nat
         /\ InOrder(slots) \in [1 .. Cardinality(slots) -> slots]
         /\ \A i, j \in 1 .. Cardinality(slots) :
              i # j => InOrder(slots)[i] # InOrder(slots)[j]
<1>1. IsFiniteSet(slots) /\ Cardinality(slots) \in Nat
  <2>1. IsFiniteSet(1 .. CAPACITY)
    BY PipelineConstants, FS_Interval
  <2>2. IsFiniteSet(slots)
    BY <2>1, FS_Subset
  <2> QED BY <2>2, FS_CardinalityType
<1>2. PICK s : Ascending(s, slots)
  BY PipelineConstants, AscendingExists
<1>3. /\ InOrder(slots) \in [1 .. Cardinality(slots) -> slots]
      /\ \A i, j \in DOMAIN InOrder(slots) :
           i < j => InOrder(slots)[i] < InOrder(slots)[j]
  <2>1. \E z \in [1 .. Cardinality(slots) -> slots] :
          \A i, j \in DOMAIN z : i < j => z[i] < z[j]
    BY <1>2 DEF Ascending
  <2> QED BY <2>1 DEF InOrder
<1>4. ASSUME NEW i \in 1 .. Cardinality(slots), NEW j \in 1 .. Cardinality(slots),
             i # j
      PROVE  InOrder(slots)[i] # InOrder(slots)[j]
  <2>1. InOrder(slots)[i] \in Nat /\ InOrder(slots)[j] \in Nat
    <3>1. InOrder(slots)[i] \in slots /\ InOrder(slots)[j] \in slots
      BY <1>3
    <3>2. 1 .. CAPACITY \subseteq Nat
      BY PipelineConstants
    <3>3. slots \subseteq Nat
      BY <3>2
    <3> QED BY <3>1, <3>3
  <2>2. i \in DOMAIN InOrder(slots) /\ j \in DOMAIN InOrder(slots)
    BY <1>3
  <2>3. i < j \/ j < i
    BY <1>1, <1>4
  <2> QED BY <1>3, <2>1, <2>2, <2>3
<1> QED BY <1>1, <1>3, <1>4

-------------------------------------------------------------------------------
(***************************************************************************)
(* How many elements of a sequence carry a request.                        *)
(***************************************************************************)

\* Holding counts: none in the empty sequence, one more for an element added.
LEMMA HoldingNone ==
  ASSUME NEW r PROVE Holding(<<>>, r) = 0
<1>1. {i \in DOMAIN <<>> : <<>>[i].req = r} = {}
  OBVIOUS
<1> QED BY <1>1, FS_EmptySet DEF Holding

LEMMA HoldingIsNumber ==
  ASSUME NEW S, NEW q \in Seq(S), NEW r
  PROVE  /\ IsFiniteSet({i \in DOMAIN q : q[i].req = r})
         /\ Holding(q, r) \in Nat
<1>1. IsFiniteSet(1 .. Len(q)) /\ DOMAIN q = 1 .. Len(q)
  <2>1. Len(q) \in Int /\ 1 \in Int /\ DOMAIN q = 1 .. Len(q)
    OBVIOUS
  <2> QED BY <2>1, FS_Interval
<1>2. IsFiniteSet({i \in DOMAIN q : q[i].req = r})
  BY <1>1, FS_Subset
<1> QED BY <1>2, FS_CardinalityType DEF Holding

LEMMA HoldingAppend ==
  ASSUME NEW S, NEW q \in Seq(S), NEW e \in S, NEW r
  PROVE  Holding(Append(q, e), r) = Holding(q, r) + (IF e.req = r THEN 1 ELSE 0)
<1> DEFINE a == Append(q, e)
<1> DEFINE old == {i \in DOMAIN q : q[i].req = r}
<1> DEFINE n == Len(q) + 1
<1>1. /\ n \in Nat /\ DOMAIN a = 1 .. n /\ DOMAIN q = 1 .. n - 1
      /\ a[n] = e /\ \A i \in 1 .. n - 1 : a[i] = q[i]
  OBVIOUS
<1>2. {i \in DOMAIN a : a[i].req = r} = IF e.req = r THEN old \cup {n} ELSE old
  <2>0. n \in Nat /\ 1 .. n = (1 .. n - 1) \cup {n}
    <3> HIDE DEF n
    <3> QED BY <1>1
  <2> HIDE DEF a, n
  <2>1. CASE e.req = r
    BY <1>1, <2>0, <2>1
  <2>2. CASE e.req # r
    BY <1>1, <2>0, <2>2
  <2> QED BY <2>1, <2>2
<1>3. IsFiniteSet(old) /\ Cardinality(old) \in Nat
  BY HoldingIsNumber DEF Holding
<1>4. n \notin old
  BY <1>1
<1>5. Cardinality(old \cup {n}) = Cardinality(old) + 1
  <2> HIDE DEF old, n
  <2> QED BY <1>3, <1>4, FS_AddElement
<1>6. /\ Holding(a, r) = Cardinality({i \in DOMAIN a : a[i].req = r})
      /\ Holding(q, r) = Cardinality(old)
  BY DEF Holding
<1> HIDE DEF n, old
<1>7. CASE e.req = r
  BY <1>2, <1>3, <1>5, <1>6, <1>7
<1>8. CASE e.req # r
  <2>1. Holding(a, r) = Holding(q, r)
    BY <1>2, <1>6, <1>8
  <2>2. Holding(q, r) \in Nat
    BY <1>3, <1>6
  <2> QED BY <1>8, <2>1, <2>2
<1> QED BY <1>7, <1>8

LEMMA HoldingOne ==
  ASSUME NEW e, NEW r
  PROVE  Holding(<<e>>, r) = IF e.req = r THEN 1 ELSE 0
<1>1. <<>> \in Seq({e}) /\ e \in {e} /\ Append(<<>>, e) = <<e>>
  OBVIOUS
<1>2. Holding(Append(<<>>, e), r) = Holding(<<>>, r) + (IF e.req = r THEN 1 ELSE 0)
  <2> HIDE <1>1
  <2>1. \A S : \A q \in Seq(S) : \A x \in S :
          Holding(Append(q, x), r) = Holding(q, r) + (IF x.req = r THEN 1 ELSE 0)
    BY HoldingAppend
  <2> QED BY <1>1, <2>1
<1> QED BY <1>1, <1>2, HoldingNone

\* The element at the head and the others, which move up by one.
LEMMA HoldingHead ==
  ASSUME NEW S, NEW q \in Seq(S), q # <<>>, NEW r
  PROVE  Holding(q, r) = Holding(Tail(q), r) + (IF Head(q).req = r THEN 1 ELSE 0)
<1> DEFINE n == Len(q)
<1> DEFINE t == Tail(q)
<1> DEFINE old == {i \in DOMAIN q : q[i].req = r}
<1> DEFINE rest == {i \in DOMAIN t : t[i].req = r}
<1>1. /\ n \in Nat /\ n > 0 /\ DOMAIN t = 1 .. n - 1 /\ DOMAIN q = 1 .. n
      /\ q[1] = Head(q) /\ \A i \in 1 .. n - 1 : t[i] = q[i + 1]
      /\ t \in Seq(S)
  OBVIOUS
<1>2. IsFiniteSet(rest) /\ IsFiniteSet(old) /\ Cardinality(old) \in Nat
      /\ Cardinality(rest) \in Nat
  BY <1>1, HoldingIsNumber DEF Holding
<1>3. Cardinality(old \ {1}) = Cardinality(rest)
  <2> DEFINE f == [i \in rest |-> i + 1]
  <2>1. f \in Bijection(rest, old \ {1})
    <3>1. \A i \in rest : i \in 1 .. n - 1 /\ i + 1 \in old \ {1}
      <4> HIDE DEF n, t
      <4> QED BY <1>1
    <3>2. \A j \in old \ {1} : j - 1 \in rest /\ (j - 1) + 1 = j
      <4> HIDE DEF n, t
      <4> QED BY <1>1
    <3>3. \A i \in rest : i \in Int
      <4> HIDE DEF rest, old, n
      <4> QED BY <1>1, <3>1
    <3> HIDE DEF rest, old
    <3>4. f \in [rest -> old \ {1}] /\ \A i \in rest : f[i] = i + 1
      BY <3>1
    <3>5. \A i, j \in rest : i # j => f[i] # f[j]
      BY <3>3, <3>4
    <3>6. \A j \in old \ {1} : \E i \in rest : f[i] = j
      BY <3>2, <3>4
    <3> QED BY <3>4, <3>5, <3>6 DEF Bijection, Injection, Surjection, IsInjective
  <2>2. ExistsBijection(rest, old \ {1})
    BY <2>1 DEF ExistsBijection
  <2> HIDE DEF rest, old
  <2> QED BY <1>2, <2>2, FS_Bijection
<1>4. Cardinality(old \ {1}) =
        IF Head(q).req = r THEN Cardinality(old) - 1 ELSE Cardinality(old)
  <2>1. 1 \in old <=> Head(q).req = r
    BY <1>1
  <2> HIDE DEF rest, old
  <2> QED BY <1>2, <2>1, FS_RemoveElement
<1> HIDE DEF rest, old
<1>5. Cardinality(old) = Cardinality(rest) + (IF Head(q).req = r THEN 1 ELSE 0)
  BY <1>2, <1>3, <1>4
<1> QED BY <1>5 DEF Holding, rest, old, t

-------------------------------------------------------------------------------
(***************************************************************************)
(* The inductive invariant.                                                *)
(***************************************************************************)
Used(p) == At(p).id # 0
Out(p) == Used(p) /\ At(p).state # "processing"

\* The entries that hold a request r which is not answered yet.
PendingFor(r) == {p \in Pointer : At(p).id # 0 /\ At(p).req = r /\ ~Answered(p)}

\* An event has no id before Receiver gives it one, and Receiver has given no
\* more ids than it has taken events.
UserInv ==
  /\ user = "submit" => uevent \in Event /\ uevent.id = 0
  /\ user # "submit" => uevent = NoEvent
  /\ \A i \in 1 .. Len(userRing) : userRing[i].id = 0
  /\ nextId - FirstId + 1 + Len(userRing) + (IF user = "submit" THEN 1 ELSE 0)
       <= submitted

\* The ids go up along the way from the table back to Receiver, and no two
\* entries share one.
IdInv ==
  /\ \A i \in 1 .. Len(centerRing) : centerRing[i].id \in FirstId .. nextId
  /\ \A i, j \in 1 .. Len(centerRing) : i < j => centerRing[i].id < centerRing[j].id
  /\ rcv # <<>> => /\ rcv[1].id = nextId /\ nextId >= FirstId
                   /\ \A i \in 1 .. Len(centerRing) : centerRing[i].id < nextId
  /\ \A p \in Pointer : Used(p) =>
       /\ At(p).id \in FirstId .. nextId
       /\ At(p).req \in Req
       /\ Hash[At(p).id] = p[1]
       /\ \A i \in 1 .. Len(centerRing) : At(p).id < centerRing[i].id
       /\ rcv # <<>> => At(p).id < nextId
  /\ \A p, q \in Pointer : Used(p) /\ Used(q) /\ p # q => At(p).id # At(q).id

\* A bucket counts its used slots.
UsedSlots(b) == {i \in 1 .. CAPACITY : table[b][i].id # 0}
CountInv == \A b \in Bucket : count[b] = Cardinality(UsedSlots(b))

\* The execution queue and the Execution deck name entries that are used, no
\* longer PROCESSING, and all different.
ExecInv ==
  /\ \A i \in 1 .. Len(execQueue) : Out(execQueue[i])
  /\ \A i, j \in 1 .. Len(execQueue) : i # j => execQueue[i] # execQueue[j]
  /\ exe # <<>> =>
       /\ Out(exe[1].at)
       /\ exe[1].response.req = At(exe[1].at).req
       /\ \A i \in 1 .. Len(execQueue) : execQueue[i] # exe[1].at

\* A request that ever was in the table, or was processed, is still in the
\* table or was answered, once.
PastInv ==
  /\ \A p \in Pointer : At(p).req # 0 =>
       PendingFor(At(p).req) # {} \/ fate[At(p).req] = <<"success">>
  /\ \A r \in Req : served[r] # 0 =>
       PendingFor(r) # {} \/ fate[r] = <<"success">>

KeysInv == UserInv /\ IdInv /\ CountInv /\ ExecInv
CoreInv == TypeOK /\ KeysInv /\ PastInv /\ NothingLostOrDoubled

-------------------------------------------------------------------------------
(***************************************************************************)
(* Type correctness.                                                       *)
(***************************************************************************)

\* TypeOK in parts.
UserTyped ==
  /\ user \in {"free", "submit", "poll"} /\ want \in Nat
  /\ uevent \in Event \cup {NoEvent}
  /\ cache \in [0 .. CACHE - 1 -> {<<>>} \cup {<<r>> : r \in Response}]
  /\ submitted \in 0 .. MaxEvents
ReceiverTyped ==
  /\ nextId \in 1 .. MaxEvents + 1
  /\ rcv \in Seq(Event) /\ Len(rcv) <= 1
UserRingTyped == userRing \in Seq(Event) /\ Len(userRing) <= RING
CenterRingTyped == centerRing \in Seq(Event) /\ Len(centerRing) <= RING
CenterTyped == ctr \in Seq(Response) /\ Len(ctr) <= 1
TableTyped ==
  /\ table \in [Bucket -> [1 .. CAPACITY -> Entry]]
  /\ count \in [Bucket -> 0 .. CAPACITY]
QueuesTyped ==
  /\ deckQueue \in [Deck -> Seq(Pointer)] /\ \A d \in Deck : Len(deckQueue[d]) <= QUEUE
  /\ execQueue \in Seq(Pointer) /\ Len(execQueue) <= QUEUE
  /\ scanPos \in Bucket
DecksTyped ==
  deck \in [Deck -> [step : {"idle", "serve", "store", "clear"}, at : Pointer,
                     req : {0} \cup Req, outcome : {"result", "empty", "error"}]]
Job == [at : Pointer, response : Response, sent : BOOLEAN]
ExecTyped == exe \in Seq(Job) /\ Len(exe) <= 1
RespRingTyped == respRing \in Seq(Response) /\ Len(respRing) <= RING
HistoryTyped == served \in [Req -> 0 .. 2] /\ fate \in [Req -> Seq(Fates)]

LEMMA TypeParts ==
  TypeOK <=> /\ UserTyped /\ ReceiverTyped /\ UserRingTyped /\ CenterRingTyped
             /\ CenterTyped /\ TableTyped /\ QueuesTyped /\ DecksTyped
             /\ ExecTyped /\ RespRingTyped /\ HistoryTyped
BY DEF TypeOK, UserTyped, ReceiverTyped, UserRingTyped, CenterRingTyped,
       CenterTyped, TableTyped, QueuesTyped, DecksTyped, ExecTyped,
       RespRingTyped, HistoryTyped, Job

LEMMA TypePartsNext ==
  TypeOK' <=> /\ UserTyped' /\ ReceiverTyped' /\ UserRingTyped' /\ CenterRingTyped'
              /\ CenterTyped' /\ TableTyped' /\ QueuesTyped' /\ DecksTyped'
              /\ ExecTyped' /\ RespRingTyped' /\ HistoryTyped'
BY DEF TypeOK, UserTyped, ReceiverTyped, UserRingTyped, CenterRingTyped,
       CenterTyped, TableTyped, QueuesTyped, DecksTyped, ExecTyped,
       RespRingTyped, HistoryTyped, Job

\* A part keeps its type while its variables keep their values.
LEMMA TypeFrame ==
  ASSUME TypeOK
  PROVE  /\ UNCHANGED userVars => UserTyped'
         /\ UNCHANGED recvVars => ReceiverTyped'
         /\ UNCHANGED userRing => UserRingTyped'
         /\ UNCHANGED centerRing => CenterRingTyped'
         /\ UNCHANGED ctr => CenterTyped'
         /\ UNCHANGED tableVars => TableTyped'
         /\ UNCHANGED guideVars => QueuesTyped'
         /\ UNCHANGED deck => DecksTyped'
         /\ UNCHANGED exe => ExecTyped'
         /\ UNCHANGED respRing => RespRingTyped'
         /\ UNCHANGED history => HistoryTyped'
<1> USE TypeParts
<1>1. UNCHANGED userVars => UserTyped'
  BY DEF userVars, UserTyped
<1>2. UNCHANGED recvVars => ReceiverTyped'
  BY DEF recvVars, ReceiverTyped
<1>3. UNCHANGED userRing => UserRingTyped'
  BY DEF UserRingTyped
<1>4. UNCHANGED centerRing => CenterRingTyped'
  BY DEF CenterRingTyped
<1>5. UNCHANGED ctr => CenterTyped'
  BY DEF CenterTyped
<1>6. UNCHANGED tableVars => TableTyped'
  BY DEF tableVars, TableTyped
<1>7. UNCHANGED guideVars => QueuesTyped'
  BY DEF guideVars, QueuesTyped
<1>8. UNCHANGED deck => DecksTyped'
  BY DEF DecksTyped
<1>9. UNCHANGED exe => ExecTyped'
  BY DEF ExecTyped
<1>10. UNCHANGED respRing => RespRingTyped'
  BY DEF RespRingTyped
<1>11. UNCHANGED history => HistoryTyped'
  BY DEF history, HistoryTyped
<1> QED BY <1>1, <1>2, <1>3, <1>4, <1>5, <1>6, <1>7, <1>8, <1>9, <1>10, <1>11

\* A resolution more is still a list of resolutions.
LEMMA ResolveType ==
  ASSUME TypeOK, NEW r \in Req, NEW how \in Fates, Resolve(r, how), UNCHANGED served
  PROVE  HistoryTyped'
<1>1. served \in [Req -> 0 .. 2] /\ fate \in [Req -> Seq(Fates)]
  BY TypeParts DEF HistoryTyped
<1>2. fate' = [fate EXCEPT ![r] = Append(@, how)]
  BY DEF Resolve
<1>3. Append(fate[r], how) \in Seq(Fates)
  <2> HIDE DEF Fates
  <2> QED BY <1>1
<1>4. fate' \in [Req -> Seq(Fates)]
  <2> HIDE DEF Fates
  <2> QED BY <1>1, <1>2, <1>3
<1> QED BY <1>1, <1>4 DEF HistoryTyped

\* What the parts say of a ring that is not empty.
LEMMA RingHead ==
  ASSUME NEW S, NEW q \in Seq(S), q # <<>>
  PROVE  /\ Head(q) \in S /\ Head(q) = q[1] /\ Tail(q) \in Seq(S)
         /\ Len(q) \in Nat /\ Len(q) > 0 /\ Len(Tail(q)) = Len(q) - 1
         /\ \A i \in 1 .. Len(q) - 1 : Tail(q)[i] = q[i + 1]
         /\ \A i \in 1 .. Len(q) : q[i] \in S
OBVIOUS

\* What a component has in hand is one thing.
LEMMA OneInHand ==
  ASSUME NEW S, NEW q \in Seq(S), Len(q) <= 1, q # <<>>
  PROVE  q = <<q[1]>> /\ q[1] \in S
<1>1. Len(q) = 1 /\ q[1] \in S
  <2>1. Len(q) \in Nat /\ Len(q) > 0 /\ \A i \in 1 .. Len(q) : q[i] \in S
    BY RingHead
  <2>2. \A n \in Nat : n > 0 /\ n <= 1 => n = 1
    OBVIOUS
  <2>3. Len(q) = 1
    BY <2>1, <2>2
  <2> QED BY <2>1, <2>3
<1>2. <<q[1]>> \in Seq(S) /\ Len(<<q[1]>>) = 1
  BY <1>1
<1>3. \A i \in 1 .. Len(q) : q[i] = <<q[1]>>[i]
  BY <1>1
<1>4. q = <<q[1]>>
  BY <1>1, <1>2, <1>3, SeqEqual
<1> QED BY <1>1, <1>4

\* The invariant holds when the pipeline starts.
LEMMA InitType == Init => TypeOK
<1> SUFFICES ASSUME Init PROVE TypeOK
  OBVIOUS
<1> USE PipelineConstants
<1>1. UserTyped
  BY DEF Init, UserTyped
<1>2. ReceiverTyped /\ UserRingTyped /\ CenterRingTyped /\ CenterTyped
      /\ ExecTyped /\ RespRingTyped
  BY DEF Init, ReceiverTyped, UserRingTyped, CenterRingTyped, CenterTyped,
         ExecTyped, RespRingTyped, FirstId
<1>3. FreeEntry \in Entry
  BY DEF FreeEntry, Entry, Cleared, Routes, NONE
<1>4. TableTyped
  BY <1>3 DEF Init, TableTyped
<1>5. QueuesTyped
  BY DEF Init, QueuesTyped, Bucket
<1>6. DecksTyped
  BY DEF Init, Idle, Pointer, Bucket, DecksTyped
<1>7. HistoryTyped
  BY DEF Init, HistoryTyped
<1> QED BY <1>1, <1>2, <1>4, <1>5, <1>6, <1>7, TypeParts

LEMMA UserType ==
  ASSUME TypeOK, KeysInv, User
  PROVE  TypeOK'
<1> USE PipelineConstants
<1>0. UserTyped /\ UserRingTyped /\ RespRingTyped
  BY TypeParts
<1>1. ASSUME NEW k \in Kinds, SubmitCall(k) PROVE TypeOK'
  <2>1. k \in Kind
    BY PipelineAssumption
  <2>2. submitted' \in 0 .. MaxEvents /\ submitted + 1 \in Req
    BY <1>0, <1>1 DEF SubmitCall, Req, UserTyped
  <2>3. uevent' \in Event
    BY <1>1, <2>1, <2>2 DEF SubmitCall, Event
  <2>4. UserTyped'
    BY <1>0, <1>1, <2>2, <2>3 DEF SubmitCall, UserTyped
  <2> QED BY <1>1, <2>4, TypeFrame, TypePartsNext DEF SubmitCall
<1>2. ASSUME SubmitPush PROVE TypeOK'
  <2>1. uevent \in Event
    BY <1>2 DEF SubmitPush, KeysInv, UserInv
  <2>2. UserRingTyped'
    BY <1>0, <1>2, <2>1 DEF SubmitPush, UserRingTyped
  <2>3. UserTyped'
    BY <1>0, <1>2 DEF SubmitPush, UserTyped
  <2> QED BY <1>2, <2>2, <2>3, TypeFrame, TypePartsNext DEF SubmitPush
<1>3. ASSUME NEW id \in PollIds, PollCall(id) PROVE TypeOK'
  <2>1. UserTyped'
    BY <1>0, <1>3, PipelineAssumption DEF PollCall, UserTyped
  <2> QED BY <1>3, <2>1, TypeFrame, TypePartsNext DEF PollCall
<1>4. ASSUME PollPop PROVE TypeOK'
  <2>1. Head(respRing) \in Response /\ RespRingTyped'
    BY <1>0, <1>4, RingHead DEF PollPop, RespRingTyped
  <2>2. cache' \in [0 .. CACHE - 1 -> {<<>>} \cup {<<r>> : r \in Response}]
    BY <1>0, <1>4, <2>1 DEF PollPop, UserTyped
  <2>3. user' \in {"free", "submit", "poll"} /\ want' \in Nat
    BY <1>0, <1>4 DEF PollPop, UserTyped
  <2>4. UserTyped'
    BY <1>0, <1>4, <2>2, <2>3 DEF PollPop, UserTyped
  <2> QED BY <1>4, <2>1, <2>4, TypeFrame, TypePartsNext DEF PollPop
<1>5. ASSUME PollEmpty PROVE TypeOK'
  <2>1. UserTyped'
    BY <1>0, <1>5 DEF PollEmpty, UserTyped
  <2> QED BY <1>5, <2>1, TypeFrame, TypePartsNext DEF PollEmpty
<1> QED BY <1>1, <1>2, <1>3, <1>4, <1>5 DEF User

LEMMA ReceiverType ==
  ASSUME TypeOK, KeysInv, Receiver
  PROVE  TypeOK'
<1> USE PipelineConstants
<1>0. ReceiverTyped /\ UserRingTyped /\ CenterRingTyped /\ UserTyped
  BY TypeParts
<1>1. ASSUME ReceiverTake PROVE TypeOK'
  <2>1. UserRingTyped'
    BY <1>0, <1>1, RingHead DEF ReceiverTake, UserRingTyped
  <2>2. Head(userRing) \in Event /\ Len(userRing) > 0 /\ Len(userRing) \in Nat
    BY <1>0, <1>1, RingHead DEF ReceiverTake, UserRingTyped
  <2>3. CASE Head(userRing).kind.valid /\ Head(userRing).id = 0
    <3>1. nextId' = nextId + 1 /\ rcv' = << [Head(userRing) EXCEPT !.id = nextId'] >>
          /\ UNCHANGED fate
      BY <1>1, <2>3 DEF ReceiverTake
    <3>2. nextId' \in 1 .. MaxEvents + 1 /\ nextId' \in EventId
      <4>1. /\ nextId \in 1 .. MaxEvents + 1 /\ submitted \in 0 .. MaxEvents
            /\ nextId - 2 + 1 + Len(userRing) + (IF user = "submit" THEN 1 ELSE 0)
                 <= submitted
        BY <1>0 DEF KeysInv, UserInv, FirstId, ReceiverTyped, UserTyped
      <4>2. nextId + 1 \in 2 .. MaxEvents + 1
        BY <2>2, <4>1
      <4> QED BY <3>1, <4>2 DEF EventId, FirstId
    <3>3. [Head(userRing) EXCEPT !.id = nextId'] \in Event
      BY <2>2, <3>2 DEF Event
    <3>4. ReceiverTyped'
      BY <3>1, <3>2, <3>3 DEF ReceiverTyped
    <3> QED BY <1>1, <2>1, <3>1, <3>4, TypeFrame, TypePartsNext DEF ReceiverTake, history
  <2>4. CASE ~ (Head(userRing).kind.valid /\ Head(userRing).id = 0)
    <3>1. Resolve(Head(userRing).req, "rejected") /\ UNCHANGED recvVars
      BY <1>1, <2>4 DEF ReceiverTake
    <3>2. Head(userRing).req \in Req /\ "rejected" \in Fates
      BY <2>2 DEF Event, Fates
    <3>3. UNCHANGED served
      BY <1>1 DEF ReceiverTake
    <3>4. HistoryTyped'
      BY <3>1, <3>2, <3>3, ResolveType
    <3> QED BY <1>1, <2>1, <3>1, <3>4, TypeFrame, TypePartsNext DEF ReceiverTake
  <2> QED BY <2>3, <2>4
<1>2. ASSUME ReceiverForward PROVE TypeOK'
  <2>1. rcv[1] \in Event
    BY <1>0, <1>2 DEF ReceiverForward, ReceiverTyped
  <2>2. CenterRingTyped'
    BY <1>0, <1>2, <2>1 DEF ReceiverForward, CenterRingTyped
  <2>3. ReceiverTyped'
    BY <1>0, <1>2 DEF ReceiverForward, ReceiverTyped
  <2> QED BY <1>2, <2>2, <2>3, TypeFrame, TypePartsNext DEF ReceiverForward
<1>3. ASSUME ReceiverTimeout PROVE TypeOK'
  <2>1. rcv[1] \in Event
    BY <1>0, <1>3 DEF ReceiverTimeout, ReceiverTyped
  <2>2. rcv[1].req \in Req /\ "timeout" \in Fates
    BY <2>1 DEF Event, Fates
  <2>3. HistoryTyped'
    BY <1>3, <2>2, ResolveType DEF ReceiverTimeout
  <2>4. ReceiverTyped'
    BY <1>0, <1>3 DEF ReceiverTimeout, ReceiverTyped
  <2> QED BY <1>3, <2>3, <2>4, TypeFrame, TypePartsNext DEF ReceiverTimeout
<1> QED BY <1>1, <1>2, <1>3 DEF Receiver

\* Where an event goes when Center inserts it: a free slot of its bucket.
LEMMA InsertSlot ==
  ASSUME NEW ev \in Event, ev.id \in EventId, FreeSlots(Hash[ev.id]) # {}
  PROVE  /\ Hash[ev.id] \in Bucket
         /\ Min(FreeSlots(Hash[ev.id])) \in 1 .. CAPACITY
         /\ table[Hash[ev.id]][Min(FreeSlots(Hash[ev.id]))].id = 0
         /\ NewEntry(ev) \in Entry
<1> USE PipelineConstants
<1>1. Hash[ev.id] \in Bucket
  BY PipelineAssumption
<1>2. Min(FreeSlots(Hash[ev.id])) \in FreeSlots(Hash[ev.id])
  <2>1. FreeSlots(Hash[ev.id]) \subseteq Nat
    BY DEF FreeSlots
  <2> HIDE DEF FreeSlots
  <2> QED BY <2>1, LeastMember
<1>3. FreeEntry \in Entry
  BY DEF FreeEntry, Entry, Cleared, Routes, NONE
<1>4. ev.kind.deck \in Deck /\ ev.req \in Req /\ ev.id \in EventId
  BY DEF Event, Kind
<1>5. NewEntry(ev) \in Entry
  BY <1>3, <1>4 DEF NewEntry, Entry, Routes
<1> QED BY <1>1, <1>2, <1>5 DEF FreeSlots

\* A bucket uses no more slots than it has.
LEMMA UsedSlotsBound ==
  ASSUME NEW b \in Bucket
  PROVE  /\ IsFiniteSet(UsedSlots(b)) /\ Cardinality(UsedSlots(b)) \in 0 .. CAPACITY
<1>1. /\ IsFiniteSet(1 .. CAPACITY) /\ Cardinality(1 .. CAPACITY) = CAPACITY
  <2>1. 1 \in Int /\ CAPACITY \in Int /\ ~ (1 > CAPACITY) /\ CAPACITY - 1 + 1 = CAPACITY
    BY PipelineConstants
  <2> QED BY <2>1, FS_Interval
<1>2. UsedSlots(b) \in SUBSET (1 .. CAPACITY)
  BY DEF UsedSlots
<1>3. IsFiniteSet(UsedSlots(b)) /\ Cardinality(UsedSlots(b)) <= CAPACITY
  <2> HIDE DEF UsedSlots
  <2> QED BY <1>1, <1>2, FS_Subset
<1>4. Cardinality(UsedSlots(b)) \in Nat
  BY <1>3, FS_CardinalityType
<1> QED BY <1>3, <1>4, PipelineConstants

LEMMA CenterType ==
  ASSUME TypeOK, KeysInv, Center
  PROVE  TypeOK'
<1> USE PipelineConstants
<1>0. CenterRingTyped /\ CenterTyped /\ TableTyped /\ RespRingTyped /\ ReceiverTyped
  BY TypeParts
<1>1. ASSUME CenterTake PROVE TypeOK'
  <2>1. PICK ev : ev = Head(centerRing)
    OBVIOUS
  <2>2. CenterRingTyped'
    BY <1>0, <1>1, RingHead DEF CenterTake, CenterRingTyped
  <2>3. ev \in Event /\ ev = centerRing[1] /\ 1 \in 1 .. Len(centerRing)
    BY <1>0, <1>1, <2>1, RingHead DEF CenterTake, CenterRingTyped
  <2>4. ev.id \in EventId /\ ev.req \in Req
    <3>1. ev.id \in FirstId .. nextId
      BY <2>3 DEF KeysInv, IdInv
    <3> QED BY <1>0, <2>3, <3>1 DEF Event, EventId, FirstId, ReceiverTyped
  <2>5. CASE ev.kind.allowed
    <3>1. /\ Insert(ev) /\ UNCHANGED ctr
          /\ UNCHANGED <<userVars, userRing, recvVars, guideVars, deck, exe, respRing,
                         served>>
      BY <1>1, <2>1, <2>5 DEF CenterTake
    <3>2. CASE count[Hash[ev.id]] < CAPACITY /\ FreeSlots(Hash[ev.id]) # {}
      <4>1. /\ Hash[ev.id] \in Bucket
            /\ Min(FreeSlots(Hash[ev.id])) \in 1 .. CAPACITY
            /\ NewEntry(ev) \in Entry
        BY <2>3, <2>4, <3>2, InsertSlot
      <4>2. /\ table' = [table EXCEPT ![Hash[ev.id]][Min(FreeSlots(Hash[ev.id]))] = NewEntry(ev)]
            /\ count' = [count EXCEPT ![Hash[ev.id]] = @ + 1]
            /\ UNCHANGED fate
        BY <3>1, <3>2 DEF Insert
      <4>3. TableTyped'
        BY <1>0, <3>2, <4>1, <4>2 DEF TableTyped
      <4> QED BY <2>2, <3>1, <4>2, <4>3, TypeFrame, TypePartsNext DEF history
    <3>3. CASE ~ (count[Hash[ev.id]] < CAPACITY /\ FreeSlots(Hash[ev.id]) # {})
      <4>1. Resolve(ev.req, "bucket full") /\ UNCHANGED tableVars
        BY <3>1, <3>3 DEF Insert
      <4>2. HistoryTyped'
        <5>1. "bucket full" \in Fates /\ UNCHANGED served
          BY <3>1 DEF Fates
        <5> QED BY <2>4, <4>1, <5>1, ResolveType
      <4> QED BY <2>2, <3>1, <4>1, <4>2, TypeFrame, TypePartsNext
    <3> QED BY <3>2, <3>3
  <2>6. CASE ~ ev.kind.allowed
    <3>1. [id |-> ev.id, req |-> ev.req, status |-> "denied", result |-> 0] \in Response
      BY <2>4 DEF Response
    <3>2. CenterTyped' /\ UNCHANGED tableVars /\ UNCHANGED history
      BY SMTT(20), <1>1, <2>1, <2>6, <3>1 DEF CenterTake, CenterTyped, history
    <3> QED BY <1>1, <2>2, <3>2, TypeFrame, TypePartsNext DEF CenterTake
  <2> QED BY <2>5, <2>6
<1>2. ASSUME CenterRespond PROVE TypeOK'
  <2>1. ctr[1] \in Response
    BY <1>0, <1>2 DEF CenterRespond, CenterTyped
  <2>2. ctr[1].req \in Req /\ "denied" \in Fates
    BY <2>1 DEF Response, Fates
  <2>3. RespRingTyped'
    BY <1>0, <1>2, <2>1 DEF CenterRespond, RespRingTyped
  <2>4. HistoryTyped'
    BY <1>2, <2>2, ResolveType DEF CenterRespond
  <2>5. CenterTyped'
    BY <1>0, <1>2 DEF CenterRespond, CenterTyped
  <2> QED BY <1>2, <2>3, <2>4, <2>5, TypeFrame, TypePartsNext DEF CenterRespond
<1>3. ASSUME CenterTimeout PROVE TypeOK'
  <2>0. ctr # <<>> /\ ctr' = <<>>
    BY <1>3 DEF CenterTimeout
  <2>1. ctr[1] \in Response
    BY <1>0, <2>0 DEF CenterTyped
  <2>2. ctr[1].req \in Req /\ "denial lost" \in Fates
    BY <2>1 DEF Response, Fates
  <2>3. HistoryTyped'
    BY <1>3, <2>2, ResolveType DEF CenterTimeout
  <2>4. CenterTyped'
    BY <2>0 DEF CenterTyped
  <2> QED BY <1>3, <2>3, <2>4, TypeFrame, TypePartsNext DEF CenterTimeout
<1> QED BY <1>1, <1>2, <1>3 DEF Center

\* How many pointers a queue takes, and what it holds then: what it held, and
\* then as many of the slots as there was room for, each once.
Fit(q, slots) ==
  IF Cardinality(slots) < Room(q) THEN Cardinality(slots) ELSE Room(q)

LEMMA PushAllGives ==
  ASSUME NEW q \in Seq(Pointer), Len(q) <= QUEUE, NEW b \in Bucket,
         NEW slots \in SUBSET (1 .. CAPACITY)
  PROVE  /\ Fit(q, slots) \in Nat /\ Fit(q, slots) <= Cardinality(slots)
         /\ Pushed(q, slots) = 1 .. Fit(q, slots)
         /\ PushAll(q, b, slots) \in Seq(Pointer)
         /\ Len(PushAll(q, b, slots)) = Len(q) + Fit(q, slots)
         /\ Len(PushAll(q, b, slots)) <= QUEUE
         /\ \A i \in 1 .. Len(q) : PushAll(q, b, slots)[i] = q[i]
         /\ \A k \in 1 .. Fit(q, slots) :
              /\ PushAll(q, b, slots)[Len(q) + k] = <<b, InOrder(slots)[k]>>
              /\ InOrder(slots)[k] \in slots
         /\ \A k, m \in 1 .. Fit(q, slots) :
              k # m => InOrder(slots)[k] # InOrder(slots)[m]
<1> DEFINE n == Fit(q, slots)
<1> DEFINE s == InOrder(slots)
<1> DEFINE more == [k \in 1 .. n |-> <<b, s[k]>>]
<1>1. Cardinality(slots) \in Nat /\ Room(q) \in Nat
  BY InOrderLists, PipelineConstants DEF Room
<1>2. n \in Nat /\ n <= Cardinality(slots) /\ n <= Room(q)
  BY <1>1 DEF Fit
<1>3. Pushed(q, slots) = 1 .. n
  BY DEF Pushed, Fit
<1> HIDE DEF n, s
<1>4. /\ \A k \in 1 .. n : s[k] \in slots
      /\ \A k, m \in 1 .. n : k # m => s[k] # s[m]
  <2>1. \A k \in 1 .. n : k \in 1 .. Cardinality(slots)
    BY <1>1, <1>2
  <2> QED BY <2>1, InOrderLists DEF s
<1>5. more \in Seq(Pointer) /\ Len(more) = n
  <2>1. \A k \in 1 .. n : more[k] \in Pointer
    BY <1>4 DEF Pointer
  <2> QED BY <1>2, <2>1
<1>6. PushAll(q, b, slots) = q \o more
  BY <1>3 DEF PushAll, s
<1>7. /\ q \o more \in Seq(Pointer) /\ Len(q \o more) = Len(q) + n
      /\ \A i \in 1 .. Len(q) : (q \o more)[i] = q[i]
      /\ \A k \in 1 .. n : (q \o more)[Len(q) + k] = more[k]
  <2> HIDE DEF more
  <2>1. Len(q) \in Nat
    OBVIOUS
  <2>2. /\ q \o more \in Seq(Pointer)
        /\ Len(q \o more) = Len(q) + Len(more)
        /\ \A i \in 1 .. Len(q) + Len(more) :
             (q \o more)[i] = IF i <= Len(q) THEN q[i] ELSE more[i - Len(q)]
    BY <1>5, ConcatProperties
  <2>3. ASSUME NEW k \in 1 .. n PROVE (q \o more)[Len(q) + k] = more[k]
    <3>1. /\ Len(q) + k \in 1 .. Len(q) + Len(more) /\ ~ (Len(q) + k <= Len(q))
          /\ Len(q) + k - Len(q) = k
      BY <1>2, <1>5, <2>1
    <3> QED BY <2>2, <3>1
  <2> QED BY <1>2, <1>5, <2>1, <2>2, <2>3
<1>8. Len(q) + n <= QUEUE
  BY <1>2, PipelineConstants DEF Room
<1> QED BY <1>2, <1>3, <1>4, <1>6, <1>7, <1>8 DEF n, s

LEMMA GuideType ==
  ASSUME TypeOK, GuideScan
  PROVE  TypeOK'
<1> USE PipelineConstants
<1>0. TableTyped /\ QueuesTyped
  BY TypeParts
<1> DEFINE b == scanPos
<1> DEFINE finished == {i \in 1 .. CAPACITY : Finished(<<b, i>>)}
<1> DEFINE ready(d) == {i \in 1 .. CAPACITY : ReadyFor(<<b, i>>, d)}
<1> DEFINE taken == {<<b, InOrder(finished)[k]>> : k \in Pushed(execQueue, finished)}
<1>1. /\ execQueue' = PushAll(execQueue, b, finished)
      /\ deckQueue' = [d \in Deck |-> PushAll(deckQueue[d], b, ready(d))]
      /\ table' = [table EXCEPT ![b] =
                     [i \in 1 .. CAPACITY |-> Scanned(<<b, i>>, taken)]]
      /\ scanPos' = (scanPos + 1) % BUCKETS
      /\ UNCHANGED <<userVars, userRing, recvVars, centerRing, ctr, count, deck,
                     exe, respRing, history>>
  BY DEF GuideScan, NextScan
<1>2. b \in Bucket /\ scanPos' \in Bucket
  BY <1>0, <1>1 DEF QueuesTyped, Bucket
<1>3. finished \in SUBSET (1 .. CAPACITY) /\ \A d \in Deck : ready(d) \in SUBSET (1 .. CAPACITY)
  OBVIOUS
<1>4. QueuesTyped'
  <2> HIDE DEF finished, ready, b
  <2>1. execQueue' \in Seq(Pointer) /\ Len(execQueue') <= QUEUE
    BY <1>0, <1>1, <1>2, <1>3, PushAllGives DEF QueuesTyped
  <2>2. ASSUME NEW d \in Deck
        PROVE  deckQueue'[d] \in Seq(Pointer) /\ Len(deckQueue'[d]) <= QUEUE
    <3>1. deckQueue'[d] = PushAll(deckQueue[d], b, ready(d))
      BY <1>1
    <3>2. deckQueue[d] \in Seq(Pointer) /\ Len(deckQueue[d]) <= QUEUE
      BY <1>0 DEF QueuesTyped
    <3> QED BY <1>2, <1>3, <3>1, <3>2, PushAllGives
  <2>3. deckQueue' \in [Deck -> Seq(Pointer)]
    <3>1. deckQueue' = [d \in Deck |-> deckQueue'[d]]
      BY <1>1
    <3> QED BY <2>2, <3>1
  <2> QED BY <1>2, <2>1, <2>2, <2>3 DEF QueuesTyped
<1>5. TableTyped'
  <2>1. ASSUME NEW i \in 1 .. CAPACITY PROVE Scanned(<<b, i>>, taken) \in Entry
    <3>1. At(<<b, i>>) \in Entry
      BY <1>0, <1>2 DEF TableTyped, At
    <3> HIDE DEF taken
    <3> QED BY <3>1 DEF Scanned, Entry, Cleared, Routes, NONE
  <2> HIDE DEF taken, finished, b
  <2> QED BY <1>0, <1>1, <1>2, <2>1 DEF TableTyped
<1> QED BY <1>1, <1>4, <1>5, TypeFrame, TypePartsNext

\* A step of a deck: the pointer it has taken is one, and an entry stays one.
LEMMA DeckType ==
  ASSUME TypeOK, NEW d \in Deck, DeckRun(d)
  PROVE  TypeOK'
<1> USE PipelineConstants
<1>0. TableTyped /\ QueuesTyped /\ DecksTyped /\ HistoryTyped
  BY TypeParts
<1>1. ASSUME DeckTake(d) PROVE TypeOK'
  <2>1. deckQueue[d] \in Seq(Pointer) /\ deckQueue[d] # <<>> /\ Len(deckQueue[d]) <= QUEUE
    BY <1>0, <1>1 DEF DeckTake, QueuesTyped
  <2>2. Head(deckQueue[d]) \in Pointer /\ Tail(deckQueue[d]) \in Seq(Pointer)
        /\ Len(Tail(deckQueue[d])) <= QUEUE
    BY <2>1, RingHead
  <2>3. DecksTyped'
    BY <1>0, <1>1, <2>2 DEF DeckTake, DecksTyped
  <2>4. QueuesTyped'
    BY <1>0, <1>1, <2>2 DEF DeckTake, QueuesTyped
  <2> QED BY <1>1, <2>3, <2>4, TypeFrame, TypePartsNext DEF DeckTake
<1>2. ASSUME NEW o \in Outcomes, DeckServe(d, o) PROVE TypeOK'
  <2>1. At(deck[d].at).req \in {0} \cup Req
    BY <1>0 DEF TableTyped, DecksTyped, At, Pointer, Entry
  <2>2. o \in {"result", "empty", "error"}
    BY PipelineAssumption
  <2>3. DecksTyped'
    <3>1. PICK r : r = At(deck[d].at).req
      OBVIOUS
    <3>2. deck' = [deck EXCEPT ![d].step = "store", ![d].req = r, ![d].outcome = o]
      BY <1>2, <3>1 DEF DeckServe
    <3>3. r \in {0} \cup Req
      BY <2>1, <3>1
    <3>4. [deck[d] EXCEPT !.step = "store", !.req = r, !.outcome = o] \in
            [step : {"idle", "serve", "store", "clear"}, at : Pointer,
             req : {0} \cup Req, outcome : {"result", "empty", "error"}]
      BY <1>0, <2>2, <3>3 DEF DecksTyped
    <3>5. deck' = [deck EXCEPT ![d] = [deck[d] EXCEPT !.step = "store", !.req = r,
                                                      !.outcome = o]]
      BY <1>0, <3>2 DEF DecksTyped
    <3> QED BY <1>0, <3>4, <3>5 DEF DecksTyped
  <2>4. HistoryTyped'
    <3>1. PICK r : r = At(deck[d].at).req
      OBVIOUS
    <3>2. served' = [served EXCEPT ![r] = IF @ = 0 THEN 1 ELSE 2] /\ UNCHANGED fate
      BY <1>2, <3>1 DEF DeckServe, Served
    <3>3. served \in [Req -> 0 .. 2] /\ fate' \in [Req -> Seq(Fates)]
      BY <1>0, <3>2 DEF HistoryTyped
    <3>4. served' = [x \in Req |-> IF x = r THEN (IF served[r] = 0 THEN 1 ELSE 2)
                                   ELSE served[x]]
      BY <3>2, <3>3
    <3>5. \A x \in Req : served'[x] \in 0 .. 2
      BY <3>3, <3>4
    <3> QED BY <3>3, <3>4, <3>5 DEF HistoryTyped
  <2> QED BY <1>2, <2>3, <2>4, TypeFrame, TypePartsNext DEF DeckServe
<1>3. ASSUME DeckStore(d) PROVE TypeOK'
  <2>1. deck[d].at[1] \in Bucket /\ deck[d].at[2] \in 1 .. CAPACITY
        /\ deck[d].req \in {0} \cup Req
    BY <1>0 DEF DecksTyped, Pointer
  <2>2. DecksTyped'
    BY <1>0, <1>3 DEF DeckStore, DecksTyped
  <2>3. ASSUME NEW e \in Entry, NEW r \in {0} \cup Req
        PROVE  [e EXCEPT !.abort = TRUE] \in Entry /\ [e EXCEPT !.results[d] = r] \in Entry
    BY DEF Entry
  <2>4. TableTyped'
    BY ZenonT(30), <1>0, <1>3, <2>1, <2>3 DEF DeckStore, TableTyped
  <2> QED BY <1>3, <2>2, <2>4, TypeFrame, TypePartsNext DEF DeckStore
<1>4. ASSUME DeckClear(d) PROVE TypeOK'
  <2>1. deck[d].at[1] \in Bucket /\ deck[d].at[2] \in 1 .. CAPACITY
    BY <1>0 DEF DecksTyped, Pointer
  <2>2. DecksTyped'
    BY <1>0, <1>4 DEF DeckClear, DecksTyped, Idle, Pointer, Bucket
  <2>3. ASSUME NEW e \in Entry PROVE ClearPrefix(e, d) \in Entry
    BY DEF Entry, ClearPrefix, Routes, NONE
  <2>4. TableTyped'
    BY <1>0, <1>4, <2>1, <2>3 DEF DeckClear, TableTyped
  <2> QED BY <1>4, <2>2, <2>4, TypeFrame, TypePartsNext DEF DeckClear
<1> QED BY <1>1, <1>2, <1>3, <1>4 DEF DeckRun

\* A bucket with a used slot counts at least one.
LEMMA UsedIsCounted ==
  ASSUME CountInv, NEW b \in Bucket, NEW i \in UsedSlots(b)
  PROVE  count[b] \in Nat /\ count[b] > 0
<1>1. IsFiniteSet(UsedSlots(b)) /\ Cardinality(UsedSlots(b)) \in 0 .. CAPACITY
  BY UsedSlotsBound
<1>2. Cardinality(UsedSlots(b)) # 0
  <2>1. UsedSlots(b) # {}
    OBVIOUS
  <2> QED BY <1>1, <2>1, FS_EmptySet
<1> QED BY <1>1, <1>2, PipelineConstants DEF CountInv

\* The entry Execution holds is the one routing_table_remove finds.
LEMMA RemoveFinds ==
  ASSUME TypeOK, IdInv, exe # <<>>, Used(exe[1].at)
  PROVE  LET p == exe[1].at
             b == Hash[At(p).id]
             found == {i \in 1 .. CAPACITY : table[b][i].id = At(p).id}
         IN  p \in Pointer /\ p[1] \in Bucket /\ p[2] \in 1 .. CAPACITY
             /\ b = p[1] /\ found # {} /\ Min(found) = p[2]
<1> DEFINE p == exe[1].at
<1> DEFINE b == Hash[At(p).id]
<1> DEFINE found == {i \in 1 .. CAPACITY : table[b][i].id = At(p).id}
<1>1. p \in Pointer /\ p[1] \in Bucket /\ p[2] \in 1 .. CAPACITY
  <2>1. exe[1] \in Job
    BY TypeParts, RingHead DEF ExecTyped
  <2> QED BY <2>1 DEF Job, Pointer
<1>2. b = p[1]
  BY <1>1 DEF IdInv
<1>3. found = {p[2]}
  <2>1. p[2] \in found
    BY <1>1, <1>2 DEF At
  <2>2. ASSUME NEW i \in found PROVE i = p[2]
    <3> DEFINE q == <<b, i>>
    <3>1. q \in Pointer /\ q[1] = b /\ q[2] = i /\ At(q).id = At(p).id
      BY <1>1, <1>2 DEF Pointer, At
    <3>2. Used(q)
      BY <3>1 DEF Used
    <3> HIDE DEF p, q
    <3>3. q = p
      BY <1>1, <3>1, <3>2 DEF IdInv, p
    <3> QED BY <3>1, <3>3
  <2> QED BY <2>1, <2>2
<1>4. Min(found) \in found
  <2>1. found \subseteq Nat /\ found # {}
    BY <1>1, <1>3
  <2> HIDE DEF found
  <2> QED BY <2>1, LeastMember
<1> QED BY <1>1, <1>2, <1>3, <1>4

LEMMA ExecutionType ==
  ASSUME TypeOK, KeysInv, Execution
  PROVE  TypeOK'
<1> USE PipelineConstants
<1>0. TableTyped /\ QueuesTyped /\ ExecTyped /\ RespRingTyped /\ ReceiverTyped
  BY TypeParts
<1>1. ASSUME ExecTake PROVE TypeOK'
  <2>1. /\ execQueue \in Seq(Pointer) /\ execQueue # <<>> /\ Len(execQueue) <= QUEUE
    BY <1>0, <1>1 DEF ExecTake, QueuesTyped
  <2>2. Head(execQueue) \in Pointer /\ Tail(execQueue) \in Seq(Pointer)
        /\ Len(Tail(execQueue)) <= QUEUE /\ Head(execQueue) = execQueue[1]
        /\ 1 \in 1 .. Len(execQueue)
    BY <2>1, RingHead
  <2>3. PICK p \in Pointer : p = Head(execQueue)
    BY <2>2
  <2>4. Used(p)
    BY <2>2, <2>3 DEF KeysInv, ExecInv, Out
  <2>5. At(p) \in Entry /\ At(p).id \in EventId /\ At(p).req \in Req
    BY <1>0, <2>4 DEF TableTyped, At, Pointer, Entry, KeysInv, IdInv, Used
  <2>6. Collect(At(p)) \in Response
    <3>1. PICK e \in Entry : e = At(p)
      BY <2>5
    <3> DEFINE with == {d \in Deck : e.results[d] # 0}
    <3>2. (IF with = {} THEN 0 ELSE e.results[Max(with)]) \in {0} \cup Req
      <4>1. ASSUME with # {} PROVE Max(with) \in Deck
        <5>1. \E x \in with : \A y \in with : x >= y
          <6>1. with \subseteq {1, 2, 3, 4}
            BY DEF Deck
          <6> HIDE DEF with
          <6>2. CASE 4 \in with BY <6>1, <6>2
          <6>3. CASE 4 \notin with /\ 3 \in with BY <6>1, <6>3
          <6>4. CASE 4 \notin with /\ 3 \notin with /\ 2 \in with BY <6>1, <6>4
          <6>5. CASE 4 \notin with /\ 3 \notin with /\ 2 \notin with
            <7>1. with = {1}
              BY <4>1, <6>1, <6>5
            <7> QED BY <7>1
          <6> QED BY <6>2, <6>3, <6>4, <6>5
        <5>2. Max(with) \in with
          <6> HIDE DEF with
          <6> QED BY <5>1 DEF Max
        <5> QED BY <5>2
      <4> HIDE DEF with
      <4> QED BY <4>1 DEF Entry
    <3>3. e.id \in EventId /\ e.req \in Req
      BY <2>5, <3>1
    <3> QED BY <3>1, <3>2, <3>3 DEF Collect, Response
  <2>7. ExecTyped'
    <3>1. exe' = << [at |-> p, response |-> Collect(At(p)), sent |-> FALSE] >>
      BY <1>1, <2>3 DEF ExecTake
    <3>2. [at |-> p, response |-> Collect(At(p)), sent |-> FALSE] \in Job
      BY <2>3, <2>6 DEF Job
    <3> QED BY <3>1, <3>2 DEF ExecTyped
  <2>8. QueuesTyped'
    BY <1>0, <1>1, <2>2 DEF ExecTake, QueuesTyped
  <2> QED BY <1>1, <2>7, <2>8, TypeFrame, TypePartsNext DEF ExecTake
<1>2. ASSUME ExecRespond PROVE TypeOK'
  <2>0. exe # <<>> /\ exe' = << [exe[1] EXCEPT !.sent = TRUE] >>
    BY <1>2 DEF ExecRespond
  <2>1. exe[1] \in Job
    BY <1>0, <2>0, RingHead DEF ExecTyped
  <2>2. exe[1].response \in Response
    BY <2>1 DEF Job
  <2>3. exe[1].response.req \in Req /\ "success" \in Fates
    BY <2>2 DEF Response, Fates
  <2>4. ExecTyped'
    <3>1. [exe[1] EXCEPT !.sent = TRUE] \in Job
      BY <2>1 DEF Job
    <3> QED BY <2>0, <3>1 DEF ExecTyped
  <2>5. RespRingTyped'
    BY <1>0, <1>2, <2>2 DEF ExecRespond, RespRingTyped
  <2>6. HistoryTyped'
    BY <1>2, <2>3, ResolveType DEF ExecRespond
  <2> QED BY <1>2, <2>4, <2>5, <2>6, TypeFrame, TypePartsNext DEF ExecRespond
<1>3. ASSUME ExecRemove PROVE TypeOK'
  <2> DEFINE p == exe[1].at
  <2>1. exe # <<>> /\ Used(p)
    BY <1>3 DEF ExecRemove, KeysInv, ExecInv, Out
  <2>2. /\ p \in Pointer /\ p[1] \in Bucket /\ p[2] \in 1 .. CAPACITY
        /\ table' = [table EXCEPT ![p[1]][p[2]].id = 0, ![p[1]][p[2]].state = "success"]
        /\ count' = [count EXCEPT ![p[1]] = @ - 1]
    BY <1>3, <2>1, RemoveFinds DEF ExecRemove, KeysInv
  <2>3. p[2] \in UsedSlots(p[1])
    BY <2>1, <2>2 DEF Used, At, UsedSlots
  <2> HIDE DEF p
  <2>4. count[p[1]] \in 1 .. CAPACITY
    BY <1>0, <2>2, <2>3, UsedIsCounted DEF TableTyped, KeysInv
  <2>5. TableTyped'
    <3>1. ASSUME NEW e \in Entry
          PROVE  [e EXCEPT !.id = 0, !.state = "success"] \in Entry
      BY DEF Entry
    <3>2. table[p[1]][p[2]] \in Entry
      BY <1>0, <2>2 DEF TableTyped
    <3>3. table' = [table EXCEPT ![p[1]][p[2]] =
                      [table[p[1]][p[2]] EXCEPT !.id = 0, !.state = "success"]]
      BY <1>0, <2>2 DEF TableTyped
    <3>4. table' \in [Bucket -> [1 .. CAPACITY -> Entry]]
      <4>1. PICK e \in Entry : e = [table[p[1]][p[2]] EXCEPT !.id = 0, !.state = "success"]
        BY <3>1, <3>2
      <4>2. PICK b \in Bucket, i \in 1 .. CAPACITY : b = p[1] /\ i = p[2]
        BY <2>2
      <4>3. table' = [table EXCEPT ![b][i] = e]
        BY <3>3, <4>1, <4>2
      <4> QED BY <1>0, <4>3 DEF TableTyped
    <3>5. count' \in [Bucket -> 0 .. CAPACITY]
      BY <1>0, <2>2, <2>4 DEF TableTyped
    <3> QED BY <3>4, <3>5 DEF TableTyped
  <2>6. ExecTyped'
    <3>1. exe' = <<>>
      BY <1>3 DEF ExecRemove
    <3> QED BY <3>1 DEF ExecTyped
  <2> QED BY <1>3, <2>5, <2>6, TypeFrame, TypePartsNext DEF ExecRemove
<1> QED BY <1>1, <1>2, <1>3 DEF Execution

LEMMA NextType ==
  ASSUME TypeOK, KeysInv, CoreNext
  PROVE  TypeOK'
BY UserType, ReceiverType, CenterType, GuideType, DeckType, ExecutionType DEF CoreNext

-------------------------------------------------------------------------------
(***************************************************************************)
(* What the steps do to the table.                                         *)
(***************************************************************************)
SameKeys == \A p \in Pointer : At(p)'.id = At(p).id /\ At(p)'.req = At(p).req
SameStates == \A p \in Pointer : At(p)'.state = At(p).state
OnlyAt(p) == \A q \in Pointer : q # p => At(q)' = At(q)

\* An assignment to one slot leaves the others alone.
LEMMA OneSlot ==
  ASSUME TypeOK, NEW p \in Pointer, NEW e,
         table' = [table EXCEPT ![p[1]][p[2]] = e]
  PROVE  At(p)' = e /\ OnlyAt(p)
<1>1. table \in [Bucket -> [1 .. CAPACITY -> Entry]]
  BY TypeParts DEF TableTyped
<1>2. p[1] \in Bucket /\ p[2] \in 1 .. CAPACITY
  BY DEF Pointer
<1>3. table'[p[1]][p[2]] = e
  BY <1>1, <1>2
<1>4. ASSUME NEW q \in Pointer, q # p
      PROVE  table'[q[1]][q[2]] = table[q[1]][q[2]]
  <2>1. q[1] \in Bucket /\ q[2] \in 1 .. CAPACITY /\ ~ (q[1] = p[1] /\ q[2] = p[2])
    BY <1>4, SamePointer DEF Pointer
  <2> QED BY <1>1, <1>2, <2>1
<1> QED BY <1>3, <1>4 DEF At, OnlyAt

\* Center puts an event into a free slot of its bucket, or drops it.
Inserted(ev, p) ==
  /\ p[1] = Hash[ev.id] /\ At(p).id = 0
  /\ At(p)' = NewEntry(ev) /\ OnlyAt(p)
  /\ count' = [count EXCEPT ![p[1]] = @ + 1]
  /\ UNCHANGED fate

LEMMA InsertGives ==
  ASSUME TypeOK, NEW ev \in Event, ev.id \in EventId, Insert(ev)
  PROVE  \/ \E p \in Pointer : Inserted(ev, p)
         \/ Resolve(ev.req, "bucket full") /\ UNCHANGED tableVars
<1>1. CASE count[Hash[ev.id]] < CAPACITY /\ FreeSlots(Hash[ev.id]) # {}
  <2> DEFINE b == Hash[ev.id]
  <2> DEFINE i == Min(FreeSlots(b))
  <2>1. b \in Bucket /\ i \in 1 .. CAPACITY /\ table[b][i].id = 0
    BY <1>1, InsertSlot
  <2>2. /\ table' = [table EXCEPT ![b][i] = NewEntry(ev)]
        /\ count' = [count EXCEPT ![b] = @ + 1]
        /\ UNCHANGED fate
    BY <1>1 DEF Insert
  <2> HIDE DEF b, i
  <2>3. PICK p \in Pointer : p = <<b, i>>
    BY <2>1 DEF Pointer
  <2>4. p[1] = b /\ p[2] = i
    BY <2>3
  <2>5. At(p)' = NewEntry(ev) /\ OnlyAt(p)
    BY <2>2, <2>4, OneSlot
  <2>6. At(p).id = 0
    BY <2>1, <2>4 DEF At
  <2> QED BY <2>2, <2>4, <2>5, <2>6 DEF Inserted, b
<1>2. CASE ~ (count[Hash[ev.id]] < CAPACITY /\ FreeSlots(Hash[ev.id]) # {})
  BY <1>2 DEF Insert
<1> QED BY <1>1, <1>2

\* A new entry: in use, PROCESSING, for the event's request and its deck.
LEMMA NewEntryIs ==
  ASSUME NEW ev \in Event, ev.id \in EventId
  PROVE  /\ NewEntry(ev).id = ev.id /\ NewEntry(ev).req = ev.req
         /\ NewEntry(ev).state = "processing" /\ ev.id # 0 /\ ev.req \in Req
BY PipelineConstants DEF NewEntry, FreeEntry, EventId, FirstId, Event

\* Execution empties the slot it has answered for.
Removed(p) ==
  /\ At(p)'.id = 0 /\ At(p)'.req = At(p).req /\ OnlyAt(p)
  /\ At(p)'.prefixes = At(p).prefixes
  /\ count' = [count EXCEPT ![p[1]] = @ - 1]

LEMMA RemoveGives ==
  ASSUME TypeOK, KeysInv, ExecRemove
  PROVE  \E p \in Pointer : p = exe[1].at /\ Removed(p)
<1>1. exe # <<>> /\ Used(exe[1].at)
  BY DEF ExecRemove, KeysInv, ExecInv, Out
<1> DEFINE at == exe[1].at
<1>2. /\ at \in Pointer
      /\ table' = [table EXCEPT ![at[1]][at[2]].id = 0, ![at[1]][at[2]].state = "success"]
      /\ count' = [count EXCEPT ![at[1]] = @ - 1]
  BY <1>1, RemoveFinds DEF ExecRemove, KeysInv
<1>3. PICK p \in Pointer : p = at
  BY <1>2
<1>4. /\ table' = [table EXCEPT ![p[1]][p[2]].id = 0, ![p[1]][p[2]].state = "success"]
      /\ count' = [count EXCEPT ![p[1]] = @ - 1]
  <2> HIDE DEF at
  <2> QED BY <1>2, <1>3
<1>5. p[1] \in Bucket /\ p[2] \in 1 .. CAPACITY
      /\ table \in [Bucket -> [1 .. CAPACITY -> Entry]]
  BY TypeParts DEF TableTyped, Pointer
<1>6. PICK old \in Entry : old = table[p[1]][p[2]]
  BY <1>5
<1>7. PICK e : e = [old EXCEPT !.id = 0, !.state = "success"]
  OBVIOUS
<1>8. table' = [table EXCEPT ![p[1]][p[2]] = e]
  BY <1>4, <1>5, <1>6, <1>7
<1>9. e.id = 0 /\ e.req = At(p).req /\ e.prefixes = At(p).prefixes
  BY <1>6, <1>7 DEF At, Entry
<1>10. At(p)' = e /\ OnlyAt(p)
  BY <1>8, OneSlot
<1> QED BY <1>3, <1>4, <1>9, <1>10 DEF Removed

\* The decks do not touch what identifies an entry.
LEMMA DeckKeeps ==
  ASSUME TypeOK, NEW d \in Deck, DeckRun(d)
  PROVE  SameKeys /\ SameStates
<1>1. PICK p \in Pointer : p = deck[d].at
  BY TypeParts DEF DecksTyped
<1>2. At(p) \in Entry
  BY TypeParts DEF TableTyped, At, Pointer
<1>3. ASSUME UNCHANGED table PROVE SameKeys /\ SameStates
  BY <1>3 DEF SameKeys, SameStates, At
<1>4. ASSUME NEW e, table' = [table EXCEPT ![p[1]][p[2]] = e],
             e.id = At(p).id, e.req = At(p).req, e.state = At(p).state
      PROVE  SameKeys /\ SameStates
  <2>1. At(p)' = e /\ OnlyAt(p)
    BY <1>4, OneSlot
  <2> QED BY <1>4, <2>1 DEF SameKeys, SameStates, OnlyAt
<1>5. CASE DeckTake(d) \/ \E o \in Outcomes : DeckServe(d, o)
  <2>1. UNCHANGED table
    BY <1>5 DEF DeckTake, DeckServe, tableVars
  <2> QED BY <1>3, <2>1
<1>6. CASE DeckStore(d)
  <2> DEFINE result == IF deck[d].outcome = "result" THEN deck[d].req ELSE 0
  <2>1. PICK e : e = IF deck[d].outcome = "error"
                     THEN [At(p) EXCEPT !.abort = TRUE]
                     ELSE [At(p) EXCEPT !.results[d] = result]
    OBVIOUS
  <2>2. e.id = At(p).id /\ e.req = At(p).req /\ e.state = At(p).state
    BY <1>2, <2>1 DEF Entry
  <2>3. table' = [table EXCEPT ![p[1]][p[2]] = e]
    BY <1>1, <1>6, <2>1 DEF DeckStore, At
  <2> QED BY <1>4, <2>2, <2>3
<1>7. CASE DeckClear(d)
  <2>1. PICK e : e = ClearPrefix(At(p), d)
    OBVIOUS
  <2>2. e.id = At(p).id /\ e.req = At(p).req /\ e.state = At(p).state
    BY <1>2, <2>1 DEF Entry, ClearPrefix
  <2>3. table' = [table EXCEPT ![p[1]][p[2]] = e]
    BY <1>1, <1>7, <2>1 DEF DeckClear, At
  <2> QED BY <1>4, <2>2, <2>3
<1> QED BY <1>5, <1>6, <1>7 DEF DeckRun

\* The Guide changes the state of the entries it hands to the execution queue,
\* which were PROCESSING, and leaves the identity of all of them alone.
LEMMA ScanGives ==
  ASSUME TypeOK, GuideScan
  PROVE  /\ SameKeys
         /\ \A p \in Pointer : At(p).state # "processing" => At(p)'.state # "processing"
         /\ execQueue' \in Seq(Pointer) /\ Len(execQueue') >= Len(execQueue)
         /\ \A i \in 1 .. Len(execQueue) : execQueue'[i] = execQueue[i]
         /\ \A i \in Len(execQueue) + 1 .. Len(execQueue') :
              \E p \in Pointer : p = execQueue'[i] /\ Finished(p)
                                /\ At(p)'.state # "processing"
         /\ \A i, j \in Len(execQueue) + 1 .. Len(execQueue') :
              i # j => execQueue'[i] # execQueue'[j]
<1> DEFINE b == scanPos
<1> DEFINE finished == {i \in 1 .. CAPACITY : Finished(<<b, i>>)}
<1> DEFINE taken == {<<b, InOrder(finished)[k]>> : k \in Pushed(execQueue, finished)}
<1> DEFINE n == Fit(execQueue, finished)
<1>0. /\ TableTyped /\ execQueue \in Seq(Pointer) /\ Len(execQueue) <= QUEUE
      /\ Len(execQueue) \in Nat /\ b \in Bucket
      /\ table \in [Bucket -> [1 .. CAPACITY -> Entry]]
  BY TypeParts DEF QueuesTyped, TableTyped
<1>1. /\ execQueue' = PushAll(execQueue, b, finished)
      /\ table' = [table EXCEPT ![b] =
                     [i \in 1 .. CAPACITY |-> Scanned(<<b, i>>, taken)]]
  BY DEF GuideScan
<1>2. /\ n \in Nat /\ Pushed(execQueue, finished) = 1 .. n
      /\ execQueue' \in Seq(Pointer)
      /\ Len(execQueue') = Len(execQueue) + n
      /\ \A i \in 1 .. Len(execQueue) : execQueue'[i] = execQueue[i]
      /\ \A k \in 1 .. n : /\ execQueue'[Len(execQueue) + k] = <<b, InOrder(finished)[k]>>
                           /\ InOrder(finished)[k] \in finished
      /\ \A k, m \in 1 .. n : k # m => InOrder(finished)[k] # InOrder(finished)[m]
  <2>1. finished \in SUBSET (1 .. CAPACITY)
    OBVIOUS
  <2> HIDE DEF finished, b
  <2> QED BY SMTT(20), <1>0, <1>1, <2>1, PushAllGives
<1>3. ASSUME NEW p \in Pointer
      PROVE  /\ At(p)'.id = At(p).id /\ At(p)'.req = At(p).req
             /\ At(p).state # "processing" => At(p)'.state # "processing"
             /\ p \in taken => At(p)'.state # "processing"
  <2>1. At(p) \in Entry /\ p[1] \in Bucket /\ p[2] \in 1 .. CAPACITY
    BY <1>0 DEF At, Pointer
  <2>2. CASE p[1] # b
    <3>1. At(p)' = At(p)
      BY <1>0, <1>1, <2>1, <2>2 DEF At
    <3>2. p \notin taken
      <4>1. \A x \in taken : x[1] = b
        <5>1. ASSUME NEW k PROVE <<b, InOrder(finished)[k]>>[1] = b
          OBVIOUS
        <5> HIDE DEF finished, b
        <5> QED BY <5>1
      <4> HIDE DEF taken
      <4> QED BY <2>2, <4>1
    <3> QED BY <3>1, <3>2
  <2>3. CASE p[1] = b
    <3>1. p = <<b, p[2]>>
      BY <2>3 DEF Pointer
    <3>2. At(p)' = Scanned(p, taken)
      <4> HIDE DEF taken, b
      <4> QED BY <1>0, <1>1, <2>1, <2>3, <3>1 DEF At
    <3> HIDE DEF taken
    <3> QED BY <2>1, <3>2 DEF Scanned, Entry
  <2> QED BY <2>2, <2>3
<1>4. ASSUME NEW i \in Len(execQueue) + 1 .. Len(execQueue')
      PROVE  /\ \E p \in Pointer : p = execQueue'[i] /\ Finished(p)
                                   /\ At(p)'.state # "processing"
             /\ i - Len(execQueue) \in 1 .. n
             /\ execQueue'[i] = <<b, InOrder(finished)[i - Len(execQueue)]>>
  <2>1. PICK k \in 1 .. n : i = Len(execQueue) + k /\ k = i - Len(execQueue)
    <3> HIDE DEF n
    <3>1. i - Len(execQueue) \in 1 .. n /\ i = Len(execQueue) + (i - Len(execQueue))
      BY <1>0, <1>2
    <3> QED BY <3>1
  <2>2. execQueue'[i] = <<b, InOrder(finished)[k]>> /\ InOrder(finished)[k] \in finished
    BY <1>2, <2>1
  <2>3. Finished(<<b, InOrder(finished)[k]>>)
    BY <2>2
  <2>4. <<b, InOrder(finished)[k]>> \in taken /\ <<b, InOrder(finished)[k]>> \in Pointer
    BY <1>0, <1>2, <2>2 DEF Pointer
  <2>5. PICK p \in Pointer : p = execQueue'[i] /\ p \in taken /\ Finished(p)
    BY <2>2, <2>3, <2>4
  <2>6. At(p)'.state # "processing"
    BY <1>3, <2>5
  <2> HIDE DEF taken, finished, n
  <2> QED BY <2>1, <2>2, <2>5, <2>6
<1>5. ASSUME NEW i \in Len(execQueue) + 1 .. Len(execQueue'),
             NEW j \in Len(execQueue) + 1 .. Len(execQueue'), i # j
      PROVE  execQueue'[i] # execQueue'[j]
  <2>1. i - Len(execQueue) # j - Len(execQueue)
    BY <1>0, <1>5
  <2> HIDE DEF finished, n, b
  <2>2. InOrder(finished)[i - Len(execQueue)] # InOrder(finished)[j - Len(execQueue)]
    BY <1>2, <1>4, <2>1
  <2> QED BY <1>4, <2>2
<1>6. SameKeys
  BY <1>3 DEF SameKeys
<1>7. \A p \in Pointer : At(p).state # "processing" => At(p)'.state # "processing"
  BY <1>3
<1> HIDE DEF finished, taken, n, b
<1>8. Len(execQueue') >= Len(execQueue)
  BY <1>0, <1>2
<1>9. \A i \in Len(execQueue) + 1 .. Len(execQueue') :
        \E p \in Pointer : p = execQueue'[i] /\ Finished(p) /\ At(p)'.state # "processing"
  BY <1>4
<1>10. \A i, j \in Len(execQueue) + 1 .. Len(execQueue') :
         i # j => execQueue'[i] # execQueue'[j]
  BY <1>5
<1> QED BY <1>2, <1>6, <1>7, <1>8, <1>9, <1>10

-------------------------------------------------------------------------------
(***************************************************************************)
(* The ids, the counts and the execution queue.                            *)
(***************************************************************************)
LEMMA InitKeys == Init => KeysInv
<1> SUFFICES ASSUME Init PROVE KeysInv
  OBVIOUS
<1> USE PipelineConstants
<1>1. UserInv
  BY DEF Init, UserInv, FirstId
<1>2. ASSUME NEW p \in Pointer PROVE At(p).id = 0
  BY DEF Init, At, FreeEntry, Pointer
<1>3. IdInv
  BY <1>2 DEF Init, IdInv, Used
<1>4. ASSUME NEW b \in Bucket PROVE count[b] = Cardinality(UsedSlots(b))
  <2>1. UsedSlots(b) = {}
    BY DEF Init, UsedSlots, FreeEntry
  <2> QED BY <2>1, FS_EmptySet DEF Init
<1>5. ExecInv
  BY DEF Init, ExecInv
<1> QED BY <1>1, <1>3, <1>4, <1>5 DEF KeysInv, CountInv

LEMMA NextUserInv ==
  ASSUME TypeOK, KeysInv, CoreNext
  PROVE  UserInv'
<1>0. /\ UserInv /\ nextId \in Nat /\ submitted \in Nat /\ userRing \in Seq(Event)
      /\ Len(userRing) \in Nat /\ FirstId = 2
  BY TypeParts, PipelineConstants
     DEF KeysInv, ReceiverTyped, UserTyped, UserRingTyped, FirstId
<1>1. CASE User
  <2>1. ASSUME NEW k \in Kinds, SubmitCall(k) PROVE UserInv'
    <3>1. k \in Kind /\ submitted + 1 \in Req
      BY <2>1, TypeParts, PipelineAssumption, PipelineConstants
         DEF SubmitCall, Req, UserTyped
    <3>2. uevent' \in Event /\ uevent'.id = 0
      BY <2>1, <3>1 DEF SubmitCall, Event
    <3> QED BY <1>0, <2>1, <3>2 DEF SubmitCall, UserInv, recvVars
  <2>2. ASSUME SubmitPush PROVE UserInv'
    <3>1. /\ uevent \in Event /\ uevent.id = 0 /\ userRing' = Append(userRing, uevent)
          /\ user = "submit" /\ user' = "free" /\ uevent' = NoEvent
          /\ submitted' = submitted /\ nextId' = nextId
      BY <1>0, <2>2 DEF SubmitPush, UserInv, recvVars
    <3>2. /\ Len(userRing') = Len(userRing) + 1
          /\ \A i \in 1 .. Len(userRing') : userRing'[i].id = 0
      BY <1>0, <3>1 DEF UserInv
    <3> QED BY <1>0, <3>1, <3>2 DEF UserInv
  <2>3. CASE (\E id \in PollIds : PollCall(id)) \/ PollPop \/ PollEmpty
    <3>1. /\ user # "submit" /\ user' # "submit"
          /\ UNCHANGED <<uevent, userRing, nextId, submitted>>
      BY <2>3 DEF PollCall, PollPop, PollEmpty, recvVars
    <3> QED BY <1>0, <3>1 DEF UserInv
  <2> QED BY <1>1, <2>1, <2>2, <2>3 DEF User
<1>2. CASE ReceiverTake
  <2>1. /\ userRing # <<>> /\ userRing' = Tail(userRing) /\ nextId' \in {nextId, nextId + 1}
        /\ UNCHANGED <<user, uevent, submitted>>
    BY <1>2 DEF ReceiverTake, userVars, recvVars
  <2>2. /\ Len(userRing') = Len(userRing) - 1
        /\ \A i \in 1 .. Len(userRing') : userRing'[i].id = 0
    BY <1>0, <2>1 DEF UserInv
  <2> QED BY <1>0, <2>1, <2>2 DEF UserInv
<1>3. CASE ReceiverForward \/ ReceiverTimeout \/ Center \/ GuideScan
           \/ (\E d \in Deck : DeckRun(d)) \/ Execution
  <2>1. UNCHANGED <<user, uevent, submitted, userRing, nextId>>
    BY <1>3 DEF ReceiverForward, ReceiverTimeout, Center, CenterTake, CenterRespond,
         CenterTimeout, GuideScan, DeckRun, DeckTake, DeckServe, DeckStore, DeckClear,
         Execution, ExecTake, ExecRespond, ExecRemove, userVars, recvVars
  <2> QED BY <1>0, <2>1 DEF UserInv
<1> QED BY <1>1, <1>2, <1>3 DEF CoreNext, Receiver

\* The steps that leave the table alone, or only the marks on its entries.
LEMMA QuietSteps ==
  ASSUME TypeOK, NEW d \in Deck,
         User \/ Receiver \/ CenterRespond \/ CenterTimeout \/ GuideScan \/ DeckRun(d)
           \/ ExecTake \/ ExecRespond
  PROVE  SameKeys /\ UNCHANGED count
<1>1. ASSUME UNCHANGED table PROVE SameKeys
  BY <1>1 DEF SameKeys, At
<1>2. CASE User \/ Receiver \/ CenterRespond \/ CenterTimeout \/ ExecTake \/ ExecRespond
  <2>1. UNCHANGED tableVars
    BY <1>2 DEF User, SubmitCall, SubmitPush, PollCall, PollPop, PollEmpty, Receiver,
         ReceiverTake, ReceiverForward, ReceiverTimeout, CenterRespond, CenterTimeout,
         ExecTake, ExecRespond
  <2> QED BY <1>1, <2>1 DEF tableVars
<1>3. CASE GuideScan
  BY <1>3, ScanGives DEF GuideScan
<1>4. CASE DeckRun(d)
  <2>1. UNCHANGED count
    BY <1>4 DEF DeckRun, DeckTake, DeckServe, DeckStore, DeckClear, tableVars
  <2> QED BY <1>4, <2>1, DeckKeeps
<1> QED BY <1>2, <1>3, <1>4

LEMMA NextCountInv ==
  ASSUME TypeOK, KeysInv, CoreNext
  PROVE  CountInv'
<1>0. CountInv /\ count \in [Bucket -> 0 .. CAPACITY]
  BY TypeParts DEF KeysInv, TableTyped
<1>1. ASSUME SameKeys, UNCHANGED count PROVE CountInv'
  <2>1. ASSUME NEW b \in Bucket PROVE UsedSlots(b)' = UsedSlots(b)
    <3>1. ASSUME NEW i \in 1 .. CAPACITY PROVE table'[b][i].id = table[b][i].id
      <4>1. <<b, i>> \in Pointer /\ <<b, i>>[1] = b /\ <<b, i>>[2] = i
        BY DEF Pointer
      <4> QED BY <1>1, <4>1 DEF SameKeys, At
    <3> QED BY <3>1 DEF UsedSlots
  <2> QED BY <1>0, <1>1, <2>1 DEF CountInv
\* One slot p changes between free and used, and the count with it.
<1>2. ASSUME NEW p \in Pointer, OnlyAt(p)
      PROVE  /\ p[1] \in Bucket /\ p[2] \in 1 .. CAPACITY
             /\ \A b \in Bucket : b # p[1] => UsedSlots(b)' = UsedSlots(b)
             /\ UsedSlots(p[1])' = IF At(p)'.id # 0 THEN UsedSlots(p[1]) \cup {p[2]}
                                                    ELSE UsedSlots(p[1]) \ {p[2]}
  <2>1. p[1] \in Bucket /\ p[2] \in 1 .. CAPACITY
    BY DEF Pointer
  <2>2. ASSUME NEW b \in Bucket, NEW i \in 1 .. CAPACITY, b # p[1] \/ i # p[2]
        PROVE  table'[b][i] = table[b][i]
    <3>1. PICK q \in Pointer : q = <<b, i>>
      BY DEF Pointer
    <3>2. q[1] = b /\ q[2] = i /\ q # p
      BY <2>2, <3>1
    <3> QED BY <1>2, <3>2 DEF OnlyAt, At
  <2>3. \A b \in Bucket : b # p[1] => UsedSlots(b)' = UsedSlots(b)
    BY <2>2 DEF UsedSlots
  <2>4. UsedSlots(p[1])' = IF At(p)'.id # 0 THEN UsedSlots(p[1]) \cup {p[2]}
                                            ELSE UsedSlots(p[1]) \ {p[2]}
    BY <2>1, <2>2 DEF UsedSlots, At
  <2> QED BY <2>1, <2>3, <2>4
<1>3. CASE CenterTake
  <2>1. PICK ev : ev = Head(centerRing)
    OBVIOUS
  <2>2. ev \in Event /\ ev.id \in EventId
    <3>1. ev \in Event /\ ev = centerRing[1] /\ 1 \in 1 .. Len(centerRing)
      BY <1>3, <2>1, TypeParts, RingHead DEF CenterTake, CenterRingTyped
    <3>2. ev.id \in FirstId .. nextId
      BY <3>1 DEF KeysInv, IdInv
    <3> QED BY <3>1, <3>2, TypeParts, PipelineConstants
            DEF ReceiverTyped, EventId, FirstId
  <2>3. CASE UNCHANGED tableVars
    BY <1>1, <2>3 DEF tableVars, SameKeys, At
  <2>4. ASSUME NEW p \in Pointer, Inserted(ev, p) PROVE CountInv'
    <3>1. At(p)'.id # 0 /\ p[2] \notin UsedSlots(p[1])
      BY <2>2, <2>4, NewEntryIs DEF Inserted, UsedSlots, At
    <3>2. p[1] \in Bucket /\ UsedSlots(p[1])' = UsedSlots(p[1]) \cup {p[2]}
          /\ \A b \in Bucket : b # p[1] => UsedSlots(b)' = UsedSlots(b)
      BY <1>2, <2>4, <3>1 DEF Inserted
    <3>3. Cardinality(UsedSlots(p[1]) \cup {p[2]}) = Cardinality(UsedSlots(p[1])) + 1
      BY <3>1, <3>2, UsedSlotsBound, FS_AddElement
    <3>4. count' = [count EXCEPT ![p[1]] = count[p[1]] + 1]
      BY <2>4 DEF Inserted
    <3> QED BY <1>0, <3>2, <3>3, <3>4 DEF CountInv
  <2>5. UNCHANGED tableVars \/ \E p \in Pointer : Inserted(ev, p)
    <3>1. CASE ev.kind.allowed
      <4>1. Insert(ev)
        BY <1>3, <2>1, <3>1 DEF CenterTake
      <4> QED BY <2>2, <4>1, InsertGives
    <3>2. CASE ~ ev.kind.allowed
      BY <1>3, <2>1, <3>2 DEF CenterTake
    <3> QED BY <3>1, <3>2
  <2> QED BY <2>3, <2>4, <2>5
<1>4. CASE ExecRemove
  <2>1. PICK p \in Pointer : p = exe[1].at /\ Removed(p)
    BY <1>4, RemoveGives
  <2>2. At(p)'.id = 0 /\ p[2] \in UsedSlots(p[1])
    <3>1. Used(p)
      BY <1>4, <2>1 DEF ExecRemove, KeysInv, ExecInv, Out
    <3> QED BY <1>2, <2>1, <3>1 DEF Removed, UsedSlots, Used, At
  <2>3. p[1] \in Bucket /\ UsedSlots(p[1])' = UsedSlots(p[1]) \ {p[2]}
        /\ \A b \in Bucket : b # p[1] => UsedSlots(b)' = UsedSlots(b)
    BY <1>2, <2>1, <2>2 DEF Removed
  <2>4. Cardinality(UsedSlots(p[1]) \ {p[2]}) = Cardinality(UsedSlots(p[1])) - 1
    BY <2>2, <2>3, UsedSlotsBound, FS_RemoveElement
  <2>5. count' = [count EXCEPT ![p[1]] = count[p[1]] - 1]
    BY <2>1 DEF Removed
  <2> QED BY <1>0, <2>3, <2>4, <2>5 DEF CountInv
<1>5. CASE User \/ Receiver \/ CenterRespond \/ CenterTimeout \/ GuideScan
           \/ (\E d \in Deck : DeckRun(d)) \/ ExecTake \/ ExecRespond
  <2>1. 1 \in Deck
    BY DEF Deck
  <2> QED BY <1>1, <1>5, <2>1, QuietSteps
<1> QED BY <1>3, <1>4, <1>5 DEF CoreNext, Center, Execution

\* The ids of the table, for the step from table to table'.
LEMMA IdFrame ==
  ASSUME IdInv, SameKeys, UNCHANGED <<nextId, rcv, centerRing>>
  PROVE  IdInv'
<1>1. \A p \in Pointer : Used(p)' <=> Used(p)
  BY DEF SameKeys, Used
<1> QED BY <1>1 DEF IdInv, SameKeys

LEMMA NextIdInv ==
  ASSUME TypeOK, KeysInv, CoreNext
  PROVE  IdInv'
<1>0. /\ IdInv /\ nextId \in Nat /\ centerRing \in Seq(Event) /\ FirstId = 2
      /\ Len(centerRing) \in Nat /\ rcv \in Seq(Event) /\ Len(rcv) <= 1
      /\ \A i \in 1 .. Len(centerRing) : centerRing[i].id \in Nat
      /\ \A p \in Pointer : At(p).id \in Nat
  <2>1. /\ IdInv /\ nextId \in Nat /\ centerRing \in Seq(Event) /\ FirstId = 2
        /\ Len(centerRing) \in Nat /\ rcv \in Seq(Event) /\ Len(rcv) <= 1
    BY TypeParts, PipelineConstants
       DEF KeysInv, ReceiverTyped, CenterRingTyped, FirstId
  <2>2. \A i \in 1 .. Len(centerRing) : centerRing[i].id \in Nat
    BY <2>1 DEF IdInv
  <2>3. \A p \in Pointer : At(p).id \in Nat
    BY TypeParts, PipelineConstants DEF TableTyped, At, Pointer, Entry, EventId, FirstId
  <2> QED BY <2>1, <2>2, <2>3
<1>1. CASE User \/ CenterRespond \/ CenterTimeout \/ GuideScan
           \/ (\E d \in Deck : DeckRun(d)) \/ ExecTake \/ ExecRespond
  <2>1. UNCHANGED <<nextId, rcv, centerRing>>
    BY <1>1 DEF User, SubmitCall, SubmitPush, PollCall, PollPop, PollEmpty,
         CenterRespond, CenterTimeout, GuideScan, DeckRun, DeckTake, DeckServe,
         DeckStore, DeckClear, ExecTake, ExecRespond, recvVars
  <2>2. SameKeys
    <3>1. 1 \in Deck
      BY DEF Deck
    <3> QED BY <1>1, <3>1, QuietSteps
  <2> QED BY <1>0, <2>1, <2>2, IdFrame
<1>2. CASE Receiver
  <2>1. \A p \in Pointer : At(p)' = At(p)
    BY <1>2 DEF Receiver, ReceiverTake, ReceiverForward, ReceiverTimeout, tableVars, At
  <2>2. \A p \in Pointer : Used(p)' <=> Used(p)
    BY <2>1 DEF Used
  <2>3. CASE ReceiverTake
    <3>1. /\ rcv = <<>> /\ UNCHANGED centerRing
          /\ \/ UNCHANGED <<nextId, rcv>>
             \/ /\ nextId' = nextId + 1
                /\ rcv' = << [Head(userRing) EXCEPT !.id = nextId'] >>
      BY <2>3 DEF ReceiverTake, recvVars
    <3>2. CASE UNCHANGED <<nextId, rcv>>
      BY <1>0, <2>1, <2>2, <3>1, <3>2 DEF IdInv
    <3>3. CASE /\ nextId' = nextId + 1
               /\ rcv' = << [Head(userRing) EXCEPT !.id = nextId'] >>
      <4>1. nextId' >= FirstId
        BY <1>0, <3>3, TypeParts DEF ReceiverTyped
      <4>2. rcv' # <<>> /\ rcv'[1].id = nextId'
        <5>1. Head(userRing) \in Event
          BY <2>3, TypeParts, RingHead DEF ReceiverTake, UserRingTyped
        <5> QED BY <3>3, <5>1 DEF Event
      <4>3. \A i \in 1 .. Len(centerRing) : centerRing[i].id \in FirstId .. nextId
        BY <1>0 DEF IdInv
      <4>4. \A i \in 1 .. Len(centerRing) :
              centerRing[i].id < nextId' /\ centerRing[i].id \in FirstId .. nextId'
        BY <1>0, <3>3, <4>3
      <4>5. \A p \in Pointer : Used(p) => At(p).id \in FirstId .. nextId
        BY <1>0 DEF IdInv
      <4>6. \A p \in Pointer : Used(p) =>
              At(p).id < nextId' /\ At(p).id \in FirstId .. nextId'
        BY <1>0, <3>3, <4>5
      <4> QED BY <1>0, <2>1, <2>2, <3>1, <4>1, <4>2, <4>4, <4>6 DEF IdInv
    <3> QED BY <3>1, <3>2, <3>3
  <2>4. CASE ReceiverForward
    <3>1. /\ rcv # <<>> /\ rcv' = <<>> /\ nextId' = nextId
          /\ centerRing' = Append(centerRing, rcv[1])
      BY <2>4 DEF ReceiverForward
    <3>2. /\ rcv[1].id = nextId /\ nextId \in FirstId .. nextId
          /\ \A i \in 1 .. Len(centerRing) : centerRing[i].id < nextId
          /\ \A p \in Pointer : Used(p) => At(p).id < nextId
      BY <1>0, <3>1 DEF IdInv
    <3>3. /\ Len(centerRing') = Len(centerRing) + 1
          /\ \A i \in 1 .. Len(centerRing) : centerRing'[i] = centerRing[i]
          /\ centerRing'[Len(centerRing) + 1].id = nextId
      BY <1>0, <3>1, <3>2
    <3>4. \A i \in 1 .. Len(centerRing') : i \in 1 .. Len(centerRing) \/ i = Len(centerRing) + 1
      BY <1>0, <3>3
    <3>5. /\ \A i \in 1 .. Len(centerRing') : centerRing'[i].id \in FirstId .. nextId'
          /\ \A p \in Pointer : Used(p) =>
               \A i \in 1 .. Len(centerRing') : At(p).id < centerRing'[i].id
      BY <1>0, <3>1, <3>2, <3>3, <3>4 DEF IdInv
    <3>6. ASSUME NEW i \in 1 .. Len(centerRing'), NEW j \in 1 .. Len(centerRing'), i < j
          PROVE  centerRing'[i].id < centerRing'[j].id
      <4>1. i \in 1 .. Len(centerRing)
        BY <1>0, <3>3, <3>6
      <4>2. CASE j \in 1 .. Len(centerRing)
        BY <1>0, <3>3, <3>6, <4>1, <4>2 DEF IdInv
      <4>3. CASE j = Len(centerRing) + 1
        BY <3>2, <3>3, <4>1, <4>3
      <4> QED BY <3>4, <4>2, <4>3
    <3> QED BY <1>0, <2>1, <2>2, <3>1, <3>5, <3>6 DEF IdInv
  <2>5. CASE ReceiverTimeout
    <3>1. rcv' = <<>> /\ UNCHANGED <<nextId, centerRing>>
      BY <2>5 DEF ReceiverTimeout
    <3> QED BY <1>0, <2>1, <2>2, <3>1 DEF IdInv
  <2> QED BY <1>2, <2>3, <2>4, <2>5 DEF Receiver
<1>3. CASE CenterTake
  <2>1. PICK ev : ev = Head(centerRing)
    OBVIOUS
  <2>2. /\ ev \in Event /\ ev = centerRing[1] /\ 1 \in 1 .. Len(centerRing)
        /\ centerRing' = Tail(centerRing) /\ centerRing' \in Seq(Event)
        /\ Len(centerRing') = Len(centerRing) - 1
        /\ \A i \in 1 .. Len(centerRing') : centerRing'[i] = centerRing[i + 1]
        /\ UNCHANGED <<nextId, rcv>>
    BY <1>0, <1>3, <2>1, RingHead DEF CenterTake, recvVars
  <2>3. \A i \in 1 .. Len(centerRing') : i + 1 \in 1 .. Len(centerRing) /\ 1 < i + 1
    BY <1>0, <2>2
  <2>4. /\ \A i \in 1 .. Len(centerRing') : /\ centerRing'[i].id \in FirstId .. nextId'
                                            /\ centerRing[1].id < centerRing'[i].id
        /\ rcv' # <<>> => /\ rcv'[1].id = nextId' /\ nextId' >= FirstId
                          /\ \A i \in 1 .. Len(centerRing') : centerRing'[i].id < nextId'
        /\ \A p \in Pointer : Used(p) =>
             \A i \in 1 .. Len(centerRing') : At(p).id < centerRing'[i].id
    BY <1>0, <2>2, <2>3 DEF IdInv
  <2>5. ASSUME NEW i \in 1 .. Len(centerRing'), NEW j \in 1 .. Len(centerRing'), i < j
        PROVE  centerRing'[i].id < centerRing'[j].id
    <3>1. i + 1 < j + 1 /\ i + 1 \in 1 .. Len(centerRing) /\ j + 1 \in 1 .. Len(centerRing)
      BY <1>0, <2>2, <2>5
    <3> QED BY <1>0, <2>2, <3>1 DEF IdInv
  <2>6. ev.id \in EventId
    <3>1. ev.id \in FirstId .. nextId
      BY <1>0, <2>2 DEF IdInv
    <3> QED BY <3>1, TypeParts, PipelineConstants DEF ReceiverTyped, EventId, FirstId
  <2>7. CASE UNCHANGED tableVars
    <3>1. \A p \in Pointer : At(p)' = At(p)
      BY <2>7 DEF tableVars, At
    <3>2. \A p \in Pointer : Used(p)' <=> Used(p)
      BY <3>1 DEF Used
    <3> QED BY <1>0, <2>2, <2>4, <2>5, <3>1, <3>2 DEF IdInv
  <2>8. ASSUME NEW p \in Pointer, Inserted(ev, p) PROVE IdInv'
    <3>1. /\ At(p)'.id = ev.id /\ At(p)'.req \in Req /\ Hash[ev.id] = p[1]
          /\ \A q \in Pointer : q # p => At(q)' = At(q) /\ (Used(q)' <=> Used(q))
      BY <2>2, <2>6, <2>8, NewEntryIs DEF Inserted, OnlyAt, Used
    <3>2. /\ ev.id \in FirstId .. nextId'
          /\ rcv' # <<>> => ev.id < nextId'
          /\ \A q \in Pointer : Used(q) => At(q).id < ev.id
      BY <1>0, <2>2 DEF IdInv
    <3>3. \A q \in Pointer : Used(q)' =>
            /\ At(q)'.id \in FirstId .. nextId'
            /\ At(q)'.req \in Req
            /\ Hash[At(q)'.id] = q[1]
            /\ \A i \in 1 .. Len(centerRing') : At(q)'.id < centerRing'[i].id
            /\ rcv' # <<>> => At(q)'.id < nextId'
      BY <1>0, <2>2, <2>4, <3>1, <3>2 DEF IdInv
    <3>4. \A q, r \in Pointer : Used(q)' /\ Used(r)' /\ q # r => At(q)'.id # At(r)'.id
      <4>1. \A q \in Pointer : q # p /\ Used(q)' => At(q)'.id < ev.id
        BY <3>1, <3>2
      <4>2. \A q, r \in Pointer : q # p /\ r # p /\ Used(q)' /\ Used(r)' /\ q # r
                                  => At(q)'.id # At(r)'.id
        BY <1>0, <3>1 DEF IdInv
      <4>3. ev.id \in Int
        BY <2>6, PipelineConstants DEF EventId
      <4> QED BY <3>1, <4>1, <4>2, <4>3
    <3> QED BY <2>4, <2>5, <3>3, <3>4 DEF IdInv
  <2>9. UNCHANGED tableVars \/ \E p \in Pointer : Inserted(ev, p)
    <3>1. CASE ev.kind.allowed
      <4>1. Insert(ev)
        BY <1>3, <2>1, <3>1 DEF CenterTake
      <4> QED BY <2>2, <2>6, <4>1, InsertGives
    <3>2. CASE ~ ev.kind.allowed
      BY <1>3, <2>1, <3>2 DEF CenterTake
    <3> QED BY <3>1, <3>2
  <2> QED BY <2>7, <2>8, <2>9
<1>4. CASE ExecRemove
  <2>1. UNCHANGED <<nextId, rcv, centerRing>>
    BY <1>4 DEF ExecRemove, recvVars
  <2>2. PICK p \in Pointer : p = exe[1].at /\ Removed(p)
    BY <1>4, RemoveGives
  <2>3. \A q \in Pointer : Used(q)' => Used(q) /\ At(q)' = At(q)
    BY <2>2 DEF Removed, OnlyAt, Used
  <2> QED BY <1>0, <2>1, <2>3 DEF IdInv
<1> QED BY <1>1, <1>2, <1>3, <1>4 DEF CoreNext, Center, Execution

\* An entry keeps out of the state PROCESSING while its keys and states stay.
LEMMA NextExecInv ==
  ASSUME TypeOK, KeysInv, CoreNext
  PROVE  ExecInv'
<1>0. /\ ExecInv /\ execQueue \in Seq(Pointer) /\ Len(execQueue) \in Nat
      /\ \A i \in 1 .. Len(execQueue) : execQueue[i] \in Pointer
      /\ exe # <<>> => exe[1] \in Job /\ exe[1].at \in Pointer
  <2>1. /\ ExecInv /\ execQueue \in Seq(Pointer) /\ Len(execQueue) \in Nat
        /\ \A i \in 1 .. Len(execQueue) : execQueue[i] \in Pointer
    BY TypeParts DEF KeysInv, QueuesTyped
  <2>2. exe # <<>> => exe[1] \in Job
    BY TypeParts, RingHead DEF ExecTyped
  <2> QED BY <2>1, <2>2 DEF Job
\* Nothing that is out changes, nor do the queue and the deck.
<1>1. ASSUME UNCHANGED <<execQueue, exe>>,
             \A p \in Pointer : Out(p) => Out(p)' /\ At(p)'.req = At(p).req
      PROVE  ExecInv'
  <2>1. \A i \in 1 .. Len(execQueue) : Out(execQueue[i])'
    <3>1. ASSUME NEW i \in 1 .. Len(execQueue) PROVE Out(execQueue[i])'
      <4>1. PICK p \in Pointer : p = execQueue[i] /\ Out(p)
        BY <1>0 DEF ExecInv
      <4>2. p = execQueue'[i] /\ Out(p)'
        BY <1>1, <4>1
      <4> QED BY <4>2 DEF Out, Used, At
    <3> QED BY <3>1
  <2>2. CASE exe # <<>>
    <3>1. PICK p \in Pointer : p = exe[1].at /\ Out(p) /\ exe[1].response.req = At(p).req
      BY <1>0, <2>2 DEF ExecInv
    <3>2. p = exe'[1].at /\ Out(p)' /\ exe'[1].response.req = At(p)'.req
      BY <1>1, <3>1
    <3>3. Out(exe[1].at)' /\ (exe[1].response.req = At(exe[1].at).req)'
      BY <3>2 DEF Out, Used, At
    <3> QED BY <1>0, <1>1, <2>1, <3>3 DEF ExecInv
  <2>3. CASE exe = <<>>
    BY <1>0, <1>1, <2>1, <2>3 DEF ExecInv
  <2> QED BY <2>2, <2>3
<1>2. ASSUME UNCHANGED table PROVE \A p \in Pointer : Out(p)' = Out(p) /\ At(p)' = At(p)
  BY <1>2 DEF Out, Used, At
<1>3. CASE User \/ Receiver \/ CenterRespond \/ CenterTimeout
  <2>1. UNCHANGED <<execQueue, exe, table>>
    BY <1>3 DEF User, SubmitCall, SubmitPush, PollCall, PollPop, PollEmpty, Receiver,
         ReceiverTake, ReceiverForward, ReceiverTimeout, CenterRespond, CenterTimeout,
         tableVars, guideVars
  <2> QED BY <1>1, <1>2, <2>1
<1>4. CASE \E d \in Deck : DeckRun(d)
  <2>1. UNCHANGED <<execQueue, exe>>
    BY <1>4 DEF DeckRun, DeckTake, DeckServe, DeckStore, DeckClear, guideVars
  <2>2. SameKeys /\ SameStates
    BY <1>4, DeckKeeps
  <2>3. \A p \in Pointer : Out(p) => Out(p)' /\ At(p)'.req = At(p).req
    BY <2>2 DEF SameKeys, SameStates, Out, Used
  <2> QED BY <1>1, <2>1, <2>3
<1>5. CASE CenterTake
  <2>1. UNCHANGED <<execQueue, exe>>
    BY <1>5 DEF CenterTake, guideVars
  <2>2. PICK ev : ev = Head(centerRing)
    OBVIOUS
  <2>3. ev \in Event /\ ev.id \in EventId
    <3>1. ev \in Event /\ ev = centerRing[1] /\ 1 \in 1 .. Len(centerRing)
      BY <1>5, <2>2, TypeParts, RingHead DEF CenterTake, CenterRingTyped
    <3>2. ev.id \in FirstId .. nextId
      BY <3>1 DEF KeysInv, IdInv
    <3> QED BY <3>1, <3>2, TypeParts, PipelineConstants
            DEF ReceiverTyped, EventId, FirstId
  <2>4. CASE ev.kind.allowed
    <3>1. Insert(ev)
      BY <1>5, <2>2, <2>4 DEF CenterTake
    <3>2. CASE UNCHANGED tableVars
      BY <1>1, <1>2, <2>1, <3>2 DEF tableVars
    <3>3. ASSUME NEW p \in Pointer, Inserted(ev, p) PROVE ExecInv'
      <4>1. \A q \in Pointer : Out(q) => Out(q)' /\ At(q)'.req = At(q).req
        BY <3>3 DEF Inserted, OnlyAt, Out, Used
      <4> QED BY <1>1, <2>1, <4>1
    <3> QED BY <2>3, <3>1, <3>2, <3>3, InsertGives
  <2>5. CASE ~ ev.kind.allowed
    <3>1. UNCHANGED table
      BY <1>5, <2>2, <2>5 DEF CenterTake, tableVars
    <3> QED BY <1>1, <1>2, <2>1, <3>1
  <2> QED BY <2>4, <2>5
<1>6. CASE GuideScan
  <2>1. exe' = exe
    BY <1>6 DEF GuideScan
  <2>2. PICK n \in Nat : n = Len(execQueue)
    BY <1>0
  <2>3. /\ SameKeys
        /\ \A p \in Pointer : At(p).state # "processing" => At(p)'.state # "processing"
        /\ execQueue' \in Seq(Pointer) /\ Len(execQueue') \in Nat /\ Len(execQueue') >= n
        /\ \A i \in 1 .. n : execQueue'[i] = execQueue[i]
        /\ \A i \in n + 1 .. Len(execQueue') :
             \E p \in Pointer : p = execQueue'[i] /\ Finished(p)
                                /\ At(p)'.state # "processing"
        /\ \A i, j \in n + 1 .. Len(execQueue') : i # j => execQueue'[i] # execQueue'[j]
    BY <1>6, <2>2, ScanGives
  <2>4. \A p \in Pointer : Out(p) => Out(p)' /\ At(p)'.req = At(p).req
    BY <2>3 DEF SameKeys, Out, Used
  <2>5. \A i \in 1 .. Len(execQueue') : i \in 1 .. n \/ i \in n + 1 .. Len(execQueue')
    BY <2>2, <2>3
\* What was there is out; what comes is not.
  <2>6. \A i \in 1 .. n :
          \E p \in Pointer : p = execQueue'[i] /\ Out(p) /\ Out(p)'
    BY <1>0, <2>2, <2>3, <2>4 DEF ExecInv
  <2>7. \A i \in n + 1 .. Len(execQueue') :
          \E p \in Pointer : p = execQueue'[i] /\ ~ Out(p) /\ Out(p)'
    BY <2>3 DEF SameKeys, Finished, Live, Out, Used
  <2>8. ASSUME NEW i \in 1 .. Len(execQueue') PROVE Out(execQueue[i])'
    <3>1. PICK p \in Pointer : p = execQueue'[i] /\ Out(p)'
      BY <2>5, <2>6, <2>7
    <3> QED BY <3>1 DEF Out, Used, At
  <2>9. ASSUME NEW i \in 1 .. Len(execQueue'), NEW j \in 1 .. Len(execQueue'), i # j
        PROVE  execQueue'[i] # execQueue'[j]
    <3>1. CASE i \in 1 .. n /\ j \in 1 .. n
      BY <1>0, <2>2, <2>3, <2>9, <3>1 DEF ExecInv
    <3>2. CASE i \in n + 1 .. Len(execQueue') /\ j \in n + 1 .. Len(execQueue')
      BY <2>3, <2>9, <3>2
    <3>3. CASE i \in 1 .. n /\ j \in n + 1 .. Len(execQueue')
      BY <2>6, <2>7, <3>3
    <3>4. CASE i \in n + 1 .. Len(execQueue') /\ j \in 1 .. n
      BY <2>6, <2>7, <3>4
    <3> QED BY <2>5, <3>1, <3>2, <3>3, <3>4
  <2>10. CASE exe # <<>>
    <3>1. PICK p \in Pointer : p = exe[1].at /\ Out(p) /\ exe[1].response.req = At(p).req
      BY <1>0, <2>10 DEF ExecInv
    <3>2. p = exe'[1].at /\ Out(p)' /\ exe'[1].response.req = At(p)'.req
      BY <2>1, <2>4, <3>1
    <3>3. Out(exe[1].at)' /\ (exe[1].response.req = At(exe[1].at).req)'
      BY <3>2 DEF Out, Used, At
    <3>4. \A i \in 1 .. Len(execQueue') : execQueue'[i] # p
      <4>1. ASSUME NEW i \in 1 .. n PROVE execQueue'[i] # p
        BY <1>0, <2>2, <2>3, <2>10, <3>1 DEF ExecInv
      <4>2. ASSUME NEW i \in n + 1 .. Len(execQueue') PROVE execQueue'[i] # p
        BY <2>7, <3>1
      <4> QED BY <2>5, <4>1, <4>2
    <3> QED BY <2>8, <2>9, <3>2, <3>3, <3>4 DEF ExecInv
  <2>11. CASE exe = <<>>
    BY <2>1, <2>8, <2>9, <2>11 DEF ExecInv
  <2> QED BY <2>10, <2>11
<1>7. CASE ExecTake
  <2>1. /\ execQueue # <<>> /\ execQueue' = Tail(execQueue) /\ UNCHANGED table
        /\ exe' = << [at |-> Head(execQueue), response |-> Collect(At(Head(execQueue))),
                      sent |-> FALSE] >>
    BY <1>7 DEF ExecTake, tableVars
  <2>2. /\ Head(execQueue) = execQueue[1] /\ 1 \in 1 .. Len(execQueue)
        /\ Len(execQueue') = Len(execQueue) - 1
        /\ \A i \in 1 .. Len(execQueue') : execQueue'[i] = execQueue[i + 1]
        /\ \A i \in 1 .. Len(execQueue') : i + 1 \in 1 .. Len(execQueue) /\ i + 1 # 1
    BY <1>0, <2>1
  <2>3. PICK p \in Pointer : p = Head(execQueue) /\ Out(p)
    BY <1>0, <2>2 DEF ExecInv
  <2>4. ASSUME NEW i \in 1 .. Len(execQueue') PROVE Out(execQueue[i])'
    <3>1. PICK q \in Pointer : q = execQueue'[i] /\ Out(q)
      BY <1>0, <2>2 DEF ExecInv
    <3> QED BY <1>2, <2>1, <3>1 DEF Out, Used, At
  <2>5. ASSUME NEW i \in 1 .. Len(execQueue'), NEW j \in 1 .. Len(execQueue'), i # j
        PROVE  execQueue'[i] # execQueue'[j]
    <3>1. i + 1 # j + 1
      BY <1>0, <2>2, <2>5
    <3> QED BY <1>0, <2>2, <3>1 DEF ExecInv
  <2>6. /\ exe'[1].at = p /\ exe'[1].response.req = At(p).req
        /\ Out(p)' /\ At(p)' = At(p)
    BY <1>2, <2>1, <2>3 DEF Collect
  <2>7. Out(exe[1].at)' /\ (exe[1].response.req = At(exe[1].at).req)'
    BY <2>6 DEF Out, Used, At
  <2>8. \A i \in 1 .. Len(execQueue') : execQueue'[i] # exe'[1].at
    BY <1>0, <2>2, <2>3, <2>6 DEF ExecInv
  <2> QED BY <2>4, <2>5, <2>7, <2>8 DEF ExecInv
<1>8. CASE ExecRespond
  <2>1. /\ exe # <<>> /\ exe' = << [exe[1] EXCEPT !.sent = TRUE] >>
        /\ UNCHANGED <<execQueue, table>>
    BY <1>8 DEF ExecRespond, tableVars, guideVars
  <2>2. exe'[1].at = exe[1].at /\ exe'[1].response = exe[1].response
    BY <1>0, <2>1 DEF Job
  <2>3. PICK p \in Pointer : p = exe[1].at /\ Out(p) /\ exe[1].response.req = At(p).req
    BY <1>0, <2>1 DEF ExecInv
  <2>4. p = exe'[1].at /\ Out(p)' /\ exe'[1].response.req = At(p)'.req
    BY <1>2, <2>1, <2>2, <2>3
  <2>5. Out(exe[1].at)' /\ (exe[1].response.req = At(exe[1].at).req)'
    BY <2>4 DEF Out, Used, At
  <2>6. ASSUME NEW i \in 1 .. Len(execQueue) PROVE Out(execQueue[i])'
    <3>1. PICK q \in Pointer : q = execQueue[i] /\ Out(q)
      BY <1>0 DEF ExecInv
    <3> QED BY <1>2, <2>1, <3>1 DEF Out, Used, At
  <2> QED BY <1>0, <2>1, <2>2, <2>5, <2>6 DEF ExecInv
<1>9. CASE ExecRemove
  <2>1. exe # <<>> /\ exe' = <<>> /\ UNCHANGED execQueue
    BY <1>9 DEF ExecRemove, guideVars
  <2>2. PICK p \in Pointer : p = exe[1].at /\ Removed(p)
    BY <1>9, RemoveGives
  <2>3. ASSUME NEW i \in 1 .. Len(execQueue) PROVE Out(execQueue[i])'
    <3>1. PICK q \in Pointer : q = execQueue[i] /\ Out(q) /\ q # p
      BY <1>0, <2>1, <2>2 DEF ExecInv
    <3>2. At(q)' = At(q)
      BY <2>2, <3>1 DEF Removed, OnlyAt
    <3> QED BY <2>1, <3>1, <3>2 DEF Out, Used, At
  <2> QED BY <1>0, <2>1, <2>3 DEF ExecInv
<1> QED BY <1>3, <1>4, <1>5, <1>6, <1>7, <1>8, <1>9 DEF CoreNext, Center, Execution

LEMMA NextKeys ==
  ASSUME TypeOK, KeysInv, CoreNext
  PROVE  KeysInv'
BY NextUserInv, NextIdInv, NextCountInv, NextExecInv DEF KeysInv

-------------------------------------------------------------------------------
(***************************************************************************)
(* Where a request is.                                                     *)
(***************************************************************************)

\* Before the table: with the user program, Receiver or Center.
Held(r) ==
  (IF uevent.req = r THEN 1 ELSE 0) + Holding(userRing, r) + Holding(rcv, r)
    + Holding(centerRing, r) + Holding(ctr, r)

Exact(r) == Places(r) + Len(fate[r]) = IF r <= submitted THEN 1 ELSE 0

\* The terms of the sum are numbers.
LEMMA PlacesAre ==
  ASSUME TypeOK, NEW r \in Req
  PROVE  /\ Holding(userRing, r) \in Nat /\ Holding(rcv, r) \in Nat
         /\ Holding(centerRing, r) \in Nat /\ Holding(ctr, r) \in Nat
         /\ Held(r) \in Nat
         /\ IsFiniteSet(PendingFor(r)) /\ Routed(r) = Cardinality(PendingFor(r))
         /\ Routed(r) \in Nat /\ (Routed(r) = 0 <=> PendingFor(r) = {})
         /\ Len(fate[r]) \in Nat /\ (Len(fate[r]) = 0 <=> fate[r] = <<>>)
         /\ Places(r) = Held(r) + Routed(r)
         /\ r \in Nat /\ r # 0 /\ submitted \in Nat
<1>1. /\ Holding(userRing, r) \in Nat /\ Holding(rcv, r) \in Nat
      /\ Holding(centerRing, r) \in Nat /\ Holding(ctr, r) \in Nat
  BY TypeParts, HoldingIsNumber
     DEF UserRingTyped, ReceiverTyped, CenterRingTyped, CenterTyped
<1>2. IsFiniteSet(PendingFor(r))
  <2>1. PendingFor(r) \in SUBSET Pointer
    BY DEF PendingFor
  <2> QED BY <2>1, FinitelyManyPointers, FS_Subset
<1>3. Routed(r) = Cardinality(PendingFor(r)) /\ Routed(r) \in Nat
      /\ (Routed(r) = 0 <=> PendingFor(r) = {})
  <2>1. Routed(r) = Cardinality(PendingFor(r))
    BY DEF Routed, PendingFor
  <2> QED BY <1>2, <2>1, FS_CardinalityType, FS_EmptySet
<1>4. fate[r] \in Seq(Fates)
  BY TypeParts DEF HistoryTyped
<1>5. Len(fate[r]) \in Nat /\ (Len(fate[r]) = 0 <=> fate[r] = <<>>)
  <2> HIDE DEF Fates
  <2> QED BY <1>4
<1>6. r \in Nat /\ r # 0 /\ submitted \in Nat
  BY TypeParts, PipelineConstants DEF UserTyped, Req
<1>7. Held(r) \in Nat /\ Places(r) = Held(r) + Routed(r)
  BY <1>1, <1>3 DEF Held, Places
<1> QED BY <1>1, <1>2, <1>3, <1>5, <1>6, <1>7

\* A request that is not in the table yet has no other place, no fate and no
\* trace in the table, and was not processed.
LEMMA HeldIsNew ==
  ASSUME TypeOK, PastInv, NothingLostOrDoubled, NEW r \in Req, Held(r) >= 1
  PROVE  /\ Held(r) = 1 /\ r <= submitted
         /\ PendingFor(r) = {} /\ Routed(r) = 0 /\ fate[r] = <<>> /\ Len(fate[r]) = 0
         /\ served[r] = 0 /\ \A p \in Pointer : At(p).req # r
<1>1. Held(r) = 1 /\ r <= submitted /\ Routed(r) = 0 /\ Len(fate[r]) = 0
  BY PlacesAre DEF NothingLostOrDoubled
<1>2. PendingFor(r) = {} /\ fate[r] = <<>>
  BY <1>1, PlacesAre
<1>3. fate[r] # <<"success">>
  BY <1>2
<1>4. served[r] = 0
  BY <1>2, <1>3 DEF PastInv
<1>5. ASSUME NEW p \in Pointer, At(p).req = r PROVE FALSE
  BY <1>2, <1>3, <1>5, PlacesAre DEF PastInv
<1> QED BY <1>1, <1>2, <1>4, <1>5

\* A request in the table has no other place and no fate.
LEMMA PendingIsOpen ==
  ASSUME TypeOK, NothingLostOrDoubled, NEW r \in Req, PendingFor(r) # {}
  PROVE  /\ Held(r) = 0 /\ r <= submitted /\ Routed(r) = 1
         /\ Len(fate[r]) = 0 /\ fate[r] = <<>>
<1>1. Routed(r) \in Nat /\ Routed(r) # 0 /\ Held(r) \in Nat /\ Len(fate[r]) \in Nat
      /\ Places(r) = Held(r) + Routed(r)
  BY PlacesAre
<1>2. Held(r) = 0 /\ r <= submitted /\ Routed(r) = 1 /\ Len(fate[r]) = 0
  BY <1>1, PlacesAre DEF NothingLostOrDoubled
<1> QED BY <1>2, PlacesAre

\* The sum stays exact where its two parts and the fates stay.
LEMMA ExactSame ==
  ASSUME TypeOK, NothingLostOrDoubled, NEW r \in Req,
         Held(r)' + Routed(r)' + Len(fate[r])' = Held(r) + Routed(r) + Len(fate[r]),
         UNCHANGED submitted, Held(r)' \in Nat, Routed(r)' \in Nat
  PROVE  Exact(r)'
<1>1. Places(r)' = Held(r)' + Routed(r)'
  BY DEF Places, Held
<1>2. Places(r) = Held(r) + Routed(r) /\ Exact(r)
  BY PlacesAre DEF NothingLostOrDoubled, Exact
<1> QED BY <1>1, <1>2 DEF Exact

\* One resolution more.
LEMMA FateGrows ==
  ASSUME TypeOK, NEW r \in Req, NEW how \in Fates, Resolve(r, how), NEW x \in Req
  PROVE  /\ x = r => fate'[x] = Append(fate[x], how) /\ Len(fate'[x]) = Len(fate[x]) + 1
         /\ x # r => fate'[x] = fate[x]
<1>1. fate \in [Req -> Seq(Fates)] /\ fate' = [fate EXCEPT ![r] = Append(@, how)]
  BY TypeParts DEF HistoryTyped, Resolve
<1> HIDE DEF Fates
<1>2. fate[x] \in Seq(Fates)
  BY <1>1
<1> QED BY <1>1, <1>2

\* The sum when the request with one of the places before the table, q, is
\* resolved.
LEMMA ExactResolve ==
  ASSUME TypeOK, NothingLostOrDoubled, NEW q \in Req, NEW how \in Fates,
         Resolve(q, how), NEW r \in Req, Routed(r)' = Routed(r),
         Held(r) = Held(r)' + (IF q = r THEN 1 ELSE 0), Held(r)' \in Nat,
         UNCHANGED submitted
  PROVE  Exact(r)'
<1>1. Len(fate[r])' = Len(fate[r]) + (IF q = r THEN 1 ELSE 0)
  <2>1. Len(fate[r]) \in Nat
    BY PlacesAre
  <2>2. (r = q => Len(fate'[r]) = Len(fate[r]) + 1) /\ (r # q => fate'[r] = fate[r])
    BY FateGrows
  <2>3. Len(fate[r])' = Len(fate'[r])
    OBVIOUS
  <2>4. CASE q = r
    BY <2>2, <2>3, <2>4
  <2>5. CASE q # r
    BY <2>1, <2>2, <2>3, <2>5
  <2> QED BY <2>4, <2>5
<1>2. Routed(r) \in Nat /\ Len(fate[r]) \in Nat
  BY PlacesAre
<1>3. Held(r)' + Routed(r)' + Len(fate[r])' = Held(r) + Routed(r) + Len(fate[r])
  <2>1. CASE q = r
    BY <1>1, <1>2, <2>1
  <2>2. CASE q # r
    BY <1>1, <1>2, <2>2
  <2> QED BY <2>1, <2>2
<1> QED BY <1>2, <1>3, ExactSame

LEMMA InitPlaces == Init => PastInv /\ NothingLostOrDoubled
<1> SUFFICES ASSUME Init PROVE PastInv /\ NothingLostOrDoubled
  OBVIOUS
<1>1. ASSUME NEW p \in Pointer PROVE At(p).id = 0 /\ At(p).req = 0
  BY DEF Init, At, FreeEntry, Pointer
<1>2. ASSUME NEW r \in Req PROVE Places(r) + Len(fate[r]) = 0
  <2>1. PendingFor(r) = {}
    BY <1>1 DEF PendingFor
  <2>2. Routed(r) = 0
    BY <2>1, FS_EmptySet DEF Routed, PendingFor
  <2>3. uevent.req # r /\ fate[r] = <<>>
    BY PipelineConstants DEF Init, NoEvent, Req
  <2> QED BY <2>2, <2>3, HoldingNone DEF Init, Places
<1>3. NothingLostOrDoubled
  BY <1>2, PipelineConstants DEF NothingLostOrDoubled, Init, Req
<1>4. PastInv
  BY <1>1 DEF PastInv, Init
<1> QED BY <1>3, <1>4

\* The pending entries while neither the keys nor Execution's hold change.
LEMMA PendingSame ==
  ASSUME SameKeys, \A p \in Pointer : Answered(p)' <=> Answered(p), NEW r
  PROVE  PendingFor(r)' = PendingFor(r) /\ Routed(r)' = Routed(r)
<1>1. PendingFor(r)' = PendingFor(r)
  BY DEF PendingFor, SameKeys
<1> QED BY <1>1 DEF PendingFor, Routed

\* PastInv for a step that resolves nothing, and adds nothing to the table.
LEMMA PastSame ==
  ASSUME PastInv, SameKeys, \A p \in Pointer : Answered(p)' <=> Answered(p),
         UNCHANGED history
  PROVE  PastInv'
<1>1. \A r : PendingFor(r)' = PendingFor(r)
  BY PendingSame
<1> QED BY <1>1 DEF PastInv, SameKeys, history

\* PastInv when a request is resolved that never came into the table.
LEMMA PastResolve ==
  ASSUME TypeOK, PastInv, NothingLostOrDoubled, NEW r \in Req, Held(r) >= 1, NEW how,
         Resolve(r, how), UNCHANGED <<table, exe, served>>
  PROVE  PastInv'
<1>1. served[r] = 0 /\ \A p \in Pointer : At(p).req # r
  BY HeldIsNew
<1>2. \A x \in Req : x # r => fate'[x] = fate[x]
  BY TypeParts DEF Resolve, HistoryTyped
<1>3. SameKeys /\ \A p \in Pointer : Answered(p)' <=> Answered(p)
  BY DEF SameKeys, At, Answered
<1>4. \A x : PendingFor(x)' = PendingFor(x)
  BY <1>3, PendingSame
<1>5. \A p \in Pointer : At(p).req \in {0} \cup Req
  BY TypeParts DEF TableTyped, At, Pointer, Entry
<1> QED BY <1>1, <1>2, <1>3, <1>4, <1>5 DEF PastInv, SameKeys

\* Both invariants for a step that moves requests about before the table.
LEMMA NextPlacesUser ==
  ASSUME CoreInv, User
  PROVE  NothingLostOrDoubled' /\ PastInv'
<1>0. TypeOK /\ PastInv /\ NothingLostOrDoubled /\ UserInv
      /\ uevent \in Event \cup {NoEvent} /\ submitted \in Nat
      /\ userRing \in Seq(Event)
  BY TypeParts DEF CoreInv, KeysInv, UserTyped, UserRingTyped
<1>1. UNCHANGED <<rcv, centerRing, ctr, table, exe, history>>
  BY DEF User, SubmitCall, SubmitPush, PollCall, PollPop, PollEmpty, recvVars, tableVars
<1>2. SameKeys /\ \A p \in Pointer : Answered(p)' <=> Answered(p)
  BY <1>1 DEF SameKeys, At, Answered
<1>3. PastInv'
  BY <1>0, <1>1, <1>2, PastSame
<1>4. \A r \in Req : Routed(r)' = Routed(r) /\ Len(fate[r])' = Len(fate[r])
  BY <1>1, <1>2, PendingSame DEF history
<1>5. ASSUME NEW k \in Kinds, SubmitCall(k), NEW r \in Req PROVE Exact(r)'
  <2>1. /\ submitted' = submitted + 1 /\ userRing' = userRing
        /\ uevent = NoEvent /\ uevent'.req = submitted + 1
    BY <1>0, <1>5 DEF SubmitCall, UserInv
  <2>2. uevent.req # r
    BY <2>1, PlacesAre, <1>0 DEF NoEvent
  <2>3. Held(r)' = Held(r) + (IF r = submitted + 1 THEN 1 ELSE 0)
    BY SMTT(20), <1>0, <1>1, <2>1, <2>2, PlacesAre DEF Held
  <2>4. Places(r)' = Held(r)' + Routed(r)'
    BY DEF Places, Held
  <2>5. /\ Held(r) \in Nat /\ Routed(r) \in Nat /\ Len(fate[r]) \in Nat /\ r \in Nat
        /\ Held(r) + Routed(r) + Len(fate[r]) = IF r <= submitted THEN 1 ELSE 0
    BY <1>0, PlacesAre DEF NothingLostOrDoubled
  <2>6. r <= submitted + 1 <=> r <= submitted \/ r = submitted + 1
    BY <1>0, <2>5
  <2>7. Places(r)' + Len(fate[r])' = IF r <= submitted + 1 THEN 1 ELSE 0
    BY <1>0, <1>4, <2>3, <2>4, <2>5, <2>6
  <2> QED BY <2>1, <2>7 DEF Exact
<1>6. ASSUME SubmitPush, NEW r \in Req PROVE Exact(r)'
  <2>1. /\ uevent \in Event /\ userRing' = Append(userRing, uevent)
        /\ uevent' = NoEvent /\ submitted' = submitted
    BY <1>0, <1>6 DEF SubmitPush, UserInv
  <2>2. Holding(userRing', r) = Holding(userRing, r) + (IF uevent.req = r THEN 1 ELSE 0)
    BY <1>0, <2>1, HoldingAppend
  <2>3. uevent'.req # r
    BY <2>1, PlacesAre, <1>0 DEF NoEvent
  <2>4. Held(r)' = Held(r)
    BY <1>0, <1>1, <2>2, <2>3, PlacesAre DEF Held
  <2> QED BY <1>0, <1>4, <2>1, <2>4, ExactSame, PlacesAre
<1>7. ASSUME (\E id \in PollIds : PollCall(id)) \/ PollPop \/ PollEmpty, NEW r \in Req
      PROVE  Exact(r)'
  <2>1. UNCHANGED <<uevent, userRing, submitted>>
    BY <1>7 DEF PollCall, PollPop, PollEmpty
  <2>2. Held(r)' = Held(r)
    BY <1>1, <2>1 DEF Held
  <2> QED BY <1>0, <1>4, <2>1, <2>2, ExactSame, PlacesAre
<1>8. \A r \in Req : Exact(r)'
  BY <1>5, <1>6, <1>7 DEF User
<1> QED BY <1>3, <1>8 DEF NothingLostOrDoubled, Exact

LEMMA NextPlacesReceiver ==
  ASSUME CoreInv, Receiver
  PROVE  NothingLostOrDoubled' /\ PastInv'
<1>0. TypeOK /\ PastInv /\ NothingLostOrDoubled
      /\ userRing \in Seq(Event) /\ centerRing \in Seq(Event) /\ rcv \in Seq(Event)
      /\ Len(rcv) <= 1
  BY TypeParts DEF CoreInv, ReceiverTyped, UserRingTyped, CenterRingTyped
<1>1. UNCHANGED <<submitted, uevent, ctr, table, exe, served>>
  BY DEF Receiver, ReceiverTake, ReceiverForward, ReceiverTimeout, userVars, tableVars,
         history
<1>2. SameKeys /\ \A p \in Pointer : Answered(p)' <=> Answered(p)
  BY <1>1 DEF SameKeys, At, Answered
<1>3. \A r \in Req : Routed(r)' = Routed(r)
  BY <1>2, PendingSame
<1>4. ASSUME rcv # <<>> PROVE rcv = <<rcv[1]>> /\ rcv[1] \in Event
  BY <1>0, <1>4, OneInHand
\* The numbers of the sum.
<1>8. \A r \in Req : /\ Holding(userRing, r) \in Nat /\ Holding(rcv, r) \in Nat
                     /\ Holding(centerRing, r) \in Nat /\ Holding(ctr, r) \in Nat
  BY <1>0, PlacesAre
<1>9. \A r \in Req : Routed(r) \in Nat /\ Held(r) \in Nat /\ Len(fate[r]) \in Nat
  BY <1>0, PlacesAre
<1>5. CASE ReceiverTake
  <2>1. PICK ev \in Event : ev = Head(userRing)
    BY <1>0, <1>5, RingHead DEF ReceiverTake
  <2>2. /\ userRing # <<>> /\ userRing' = Tail(userRing) /\ UNCHANGED centerRing
        /\ rcv = <<>>
    BY <1>5 DEF ReceiverTake
  <2>3. \A r \in Req : /\ Holding(userRing, r) = Holding(userRing', r)
                                      + (IF ev.req = r THEN 1 ELSE 0)
                       /\ Holding(userRing', r) \in Nat
    <3>1. userRing' \in Seq(Event)
      BY <1>0, <2>2, RingHead
    <3> QED BY <1>0, <2>1, <2>2, <3>1, HoldingHead, HoldingIsNumber
  <2>4. \A r \in Req : Holding(rcv, r) = 0
    BY <2>2, HoldingNone
  <2>5. CASE rcv' = << [ev EXCEPT !.id = nextId'] >> /\ UNCHANGED fate
    <3>1. [ev EXCEPT !.id = nextId'].req = ev.req
      BY DEF Event
    <3>2. \A r \in Req : Holding(rcv', r) = IF ev.req = r THEN 1 ELSE 0
      BY <2>5, <3>1, HoldingOne
    <3>3. \A r \in Req : Held(r)' = Held(r)
      BY <1>1, <1>8, <2>2, <2>3, <2>4, <3>2 DEF Held
    <3>4. \A r \in Req : Exact(r)'
      BY <1>0, <1>1, <1>3, <1>9, <2>5, <3>3, ExactSame
    <3>5. PastInv'
      BY <1>0, <1>1, <1>2, <2>5, PastSame DEF history
    <3> QED BY <3>4, <3>5 DEF NothingLostOrDoubled, Exact
  <2>6. CASE Resolve(ev.req, "rejected") /\ UNCHANGED rcv
    <3>1. ev.req \in Req /\ "rejected" \in Fates
      BY DEF Event, Fates
    <3>2. Held(ev.req) >= 1
      <4>1. /\ Holding(userRing, ev.req) \in Nat /\ Holding(rcv, ev.req) \in Nat
            /\ Holding(centerRing, ev.req) \in Nat /\ Holding(ctr, ev.req) \in Nat
        BY <1>0, <3>1, PlacesAre
      <4>2. Holding(userRing, ev.req) >= 1
        BY <2>3, <3>1
      <4> QED BY <4>1, <4>2 DEF Held
    <3>3. ASSUME NEW r \in Req PROVE Exact(r)'
      <4>1. Held(r) = Held(r)' + (IF ev.req = r THEN 1 ELSE 0) /\ Held(r)' \in Nat
        <5>1. UNCHANGED <<uevent, rcv, centerRing, ctr>>
          BY <1>1, <2>2, <2>6
        <5>2. Held(r)' = (IF uevent.req = r THEN 1 ELSE 0) + Holding(userRing', r)
                + Holding(rcv, r) + Holding(centerRing, r) + Holding(ctr, r)
          BY <5>1 DEF Held
        <5> QED BY <1>8, <2>3, <5>2 DEF Held
      <4> QED BY <1>0, <1>1, <1>3, <2>6, <3>1, <4>1, ExactResolve
    <3>4. PastInv'
      BY <1>0, <1>1, <2>6, <3>1, <3>2, PastResolve
    <3> QED BY <3>3, <3>4 DEF NothingLostOrDoubled, Exact
  <2>7. \/ rcv' = << [ev EXCEPT !.id = nextId'] >> /\ UNCHANGED fate
        \/ Resolve(ev.req, "rejected") /\ UNCHANGED rcv
    BY <1>5, <2>1 DEF ReceiverTake, recvVars
  <2> QED BY <2>5, <2>6, <2>7
<1>6. CASE ReceiverForward
  <2>1. /\ rcv # <<>> /\ rcv' = <<>> /\ centerRing' = Append(centerRing, rcv[1])
        /\ UNCHANGED <<userRing, history>>
    BY <1>6 DEF ReceiverForward, history
  <2>2. \A r \in Req : /\ Holding(rcv, r) = IF rcv[1].req = r THEN 1 ELSE 0
                       /\ Holding(rcv', r) = 0
                       /\ Holding(centerRing', r) = Holding(centerRing, r)
                            + (IF rcv[1].req = r THEN 1 ELSE 0)
    BY <1>0, <1>4, <2>1, HoldingOne, HoldingNone, HoldingAppend
  <2>3. \A r \in Req : Held(r)' = Held(r)
    BY <1>1, <1>8, <2>1, <2>2 DEF Held
  <2>4. \A r \in Req : Exact(r)'
    BY <1>0, <1>1, <1>3, <1>9, <2>1, <2>3, ExactSame DEF history
  <2>5. PastInv'
    BY <1>0, <1>2, <2>1, PastSame
  <2> QED BY <2>4, <2>5 DEF NothingLostOrDoubled, Exact
<1>7. CASE ReceiverTimeout
  <2>1. /\ rcv # <<>> /\ rcv' = <<>> /\ Resolve(rcv[1].req, "timeout")
        /\ UNCHANGED <<userRing, centerRing>>
    BY <1>7 DEF ReceiverTimeout
  <2>2. PICK q \in Req : q = rcv[1].req
    BY <1>4, <2>1 DEF Event
  <2>3. \A r \in Req : /\ Holding(rcv, r) = IF q = r THEN 1 ELSE 0
                       /\ Holding(rcv', r) = 0
    BY <1>4, <2>1, <2>2, HoldingOne, HoldingNone
  <2>4. Held(q) >= 1 /\ "timeout" \in Fates
    BY SMTT(20), <1>0, <2>3, PlacesAre DEF Held, Fates
  <2>5. ASSUME NEW r \in Req PROVE Exact(r)'
    <3>1. Held(r) = Held(r)' + (IF q = r THEN 1 ELSE 0) /\ Held(r)' \in Nat
      BY SMTT(20), <1>1, <1>8, <2>1, <2>3 DEF Held
    <3> QED BY <1>0, <1>1, <1>3, <2>1, <2>2, <2>4, <3>1, ExactResolve
  <2>6. PastInv'
    BY <1>0, <1>1, <2>1, <2>2, <2>4, PastResolve
  <2> QED BY <2>5, <2>6 DEF NothingLostOrDoubled, Exact
<1> QED BY <1>5, <1>6, <1>7 DEF Receiver

\* The event Center puts into a slot p becomes a pending entry.
LEMMA PendingInserted ==
  ASSUME TypeOK, KeysInv, NEW ev \in Event, ev.id \in EventId, NEW p \in Pointer,
         Inserted(ev, p), UNCHANGED exe, NEW r \in Req
  PROVE  /\ PendingFor(r)' = IF r = ev.req THEN PendingFor(r) \cup {p} ELSE PendingFor(r)
         /\ Routed(r)' = Routed(r) + (IF r = ev.req THEN 1 ELSE 0)
<1>1. /\ At(p).id = 0 /\ At(p)' = NewEntry(ev)
      /\ \A q \in Pointer : q # p => At(q)' = At(q)
  BY DEF Inserted, OnlyAt
<1>2. \A q \in Pointer : Answered(q)' <=> Answered(q)
  BY DEF Answered
<1>3. ~ Answered(p)
  BY <1>1 DEF Answered, KeysInv, ExecInv, Out, Used
<1>4. At(p)'.id # 0 /\ At(p)'.req = ev.req /\ p \notin PendingFor(r)
  BY <1>1, NewEntryIs DEF PendingFor
<1>5. ASSUME NEW q \in Pointer
      PROVE  q \in PendingFor(r)' <=> q \in PendingFor(r) \/ (q = p /\ r = ev.req)
  <2>1. q \in PendingFor(r)' <=> At(q)'.id # 0 /\ At(q)'.req = r /\ ~ Answered(q)'
    BY DEF PendingFor
  <2>2. q \in PendingFor(r) <=> At(q).id # 0 /\ At(q).req = r /\ ~ Answered(q)
    BY DEF PendingFor
  <2>3. CASE q = p
    BY <1>2, <1>3, <1>4, <2>1, <2>3
  <2>4. CASE q # p
    BY <1>1, <1>2, <2>1, <2>2, <2>4
  <2> QED BY <2>3, <2>4
<1>6. PendingFor(r)' \subseteq Pointer /\ PendingFor(r) \subseteq Pointer
  BY DEF PendingFor
<1>7. PendingFor(r)' = IF r = ev.req THEN PendingFor(r) \cup {p} ELSE PendingFor(r)
  BY <1>5, <1>6
<1>8. Routed(r)' = Cardinality(PendingFor(r)')
  BY DEF Routed, PendingFor
<1>9. /\ IsFiniteSet(PendingFor(r)) /\ Routed(r) = Cardinality(PendingFor(r))
      /\ Routed(r) \in Nat
  BY PlacesAre
<1>10. Cardinality(PendingFor(r) \cup {p}) = Cardinality(PendingFor(r)) + 1
  BY <1>4, <1>9, FS_AddElement
<1> QED BY <1>7, <1>8, <1>9, <1>10

LEMMA NextPlacesCenterTake ==
  ASSUME CoreInv, CenterTake
  PROVE  NothingLostOrDoubled' /\ PastInv'
<1>0. TypeOK /\ KeysInv /\ PastInv /\ NothingLostOrDoubled /\ centerRing \in Seq(Event)
  BY TypeParts DEF CoreInv, CenterRingTyped
<1>1. /\ UNCHANGED <<submitted, uevent, userRing, rcv, exe, served>>
      /\ ctr = <<>> /\ centerRing # <<>> /\ centerRing' = Tail(centerRing)
  BY DEF CenterTake, userVars, recvVars
<1>2. PICK ev \in Event : ev = Head(centerRing) /\ ev.id \in EventId
  <2>1. PICK x \in Event : x = Head(centerRing) /\ x = centerRing[1]
          /\ 1 \in 1 .. Len(centerRing)
    BY <1>0, <1>1, RingHead
  <2>2. x.id \in FirstId .. nextId
    BY <1>0, <2>1 DEF KeysInv, IdInv
  <2> QED BY SMTT(20), <1>0, <2>1, <2>2, TypeParts, PipelineConstants
          DEF ReceiverTyped, EventId, FirstId
<1>3. \A r \in Req : /\ Holding(userRing, r) \in Nat /\ Holding(rcv, r) \in Nat
                     /\ Holding(centerRing, r) \in Nat /\ Holding(ctr, r) \in Nat
  BY <1>0, PlacesAre
<1>4. \A r \in Req : Routed(r) \in Nat /\ Held(r) \in Nat /\ Len(fate[r]) \in Nat
  BY <1>0, PlacesAre
<1>5. \A r \in Req : /\ Holding(centerRing, r) = Holding(centerRing', r)
                                    + (IF ev.req = r THEN 1 ELSE 0)
                     /\ Holding(centerRing', r) \in Nat
                     /\ Holding(ctr, r) = 0
  <2>1. centerRing' \in Seq(Event)
    BY <1>0, <1>1, RingHead
  <2> QED BY <1>0, <1>1, <1>2, <2>1, HoldingHead, HoldingIsNumber, HoldingNone
<1>6. ev.req \in Req /\ Held(ev.req) >= 1
  BY <1>3, <1>5 DEF Held, Event
\* What the step does to the places before the table while Center holds nothing.
<1>7. ASSUME UNCHANGED ctr, NEW r \in Req
      PROVE  Held(r) = Held(r)' + (IF ev.req = r THEN 1 ELSE 0) /\ Held(r)' \in Nat
  BY SMTT(20), <1>1, <1>3, <1>5, <1>7 DEF Held
<1>8. CASE ~ ev.kind.allowed
  <2>1. /\ ctr' = << [id |-> ev.id, req |-> ev.req, status |-> "denied", result |-> 0] >>
        /\ UNCHANGED <<table, fate>>
    BY <1>2, <1>8 DEF CenterTake, tableVars
  <2>2. \A r \in Req : Holding(ctr', r) = IF ev.req = r THEN 1 ELSE 0
    BY <2>1, HoldingOne
  <2>3. \A r \in Req : Held(r)' = Held(r)
    BY <1>1, <1>3, <1>5, <2>2 DEF Held
  <2>4. SameKeys /\ \A p \in Pointer : Answered(p)' <=> Answered(p)
    BY <1>1, <2>1 DEF SameKeys, At, Answered
  <2>5. \A r \in Req : Exact(r)'
    BY <1>0, <1>1, <1>4, <2>1, <2>3, <2>4, PendingSame, ExactSame
  <2>6. PastInv'
    BY <1>0, <1>1, <2>1, <2>4, PastSame DEF history
  <2> QED BY <2>5, <2>6 DEF NothingLostOrDoubled, Exact
<1>9. CASE ev.kind.allowed
  <2>1. Insert(ev) /\ UNCHANGED ctr
    BY <1>2, <1>9 DEF CenterTake
  <2>2. ASSUME NEW p \in Pointer, Inserted(ev, p)
        PROVE  NothingLostOrDoubled' /\ PastInv'
    <3>1. UNCHANGED fate
      BY <2>2 DEF Inserted
    <3>2. \A r \in Req :
            /\ PendingFor(r)' = IF r = ev.req THEN PendingFor(r) \cup {p} ELSE PendingFor(r)
            /\ Routed(r)' = Routed(r) + (IF r = ev.req THEN 1 ELSE 0)
      BY <1>0, <1>1, <1>2, <2>2, PendingInserted
    <3>3. ASSUME NEW r \in Req PROVE Exact(r)'
      <4>1. Held(r) = Held(r)' + (IF ev.req = r THEN 1 ELSE 0) /\ Held(r)' \in Nat
        BY <1>7, <2>1
      <4>2. Held(r)' + Routed(r)' + Len(fate[r])' = Held(r) + Routed(r) + Len(fate[r])
        BY <1>4, <3>1, <3>2, <4>1
      <4> QED BY <1>0, <1>1, <1>4, <3>2, <4>1, <4>2, ExactSame
    <3>4. \A r \in Req : PendingFor(r) # {} => PendingFor(r)' # {}
      BY <3>2
    <3>5. ASSUME NEW q \in Pointer, NEW x, x = At(q)'.req, x # 0
          PROVE  PendingFor(x)' # {} \/ fate'[x] = <<"success">>
      <4>1. CASE q = p
        <5>1. x = ev.req
          BY <1>2, <2>2, <3>5, <4>1, NewEntryIs DEF Inserted
        <5> QED BY <1>6, <3>2, <5>1
      <4>2. CASE q # p
        <5>1. x = At(q).req /\ x \in Req
          <6>1. At(q).req \in {0} \cup Req
            BY ZenonT(30), <1>0, TypeParts DEF TableTyped, At, Pointer, Entry
          <6> QED BY <2>2, <3>5, <4>2, <6>1 DEF Inserted, OnlyAt
        <5>2. PendingFor(x) # {} \/ fate[x] = <<"success">>
          BY <1>0, <3>5, <5>1 DEF PastInv
        <5> QED BY <3>1, <3>4, <5>1, <5>2
      <4> QED BY <4>1, <4>2
    <3>6. PastInv'
      BY <1>0, <1>1, <3>1, <3>4, <3>5 DEF PastInv
    <3> QED BY <3>3, <3>6 DEF NothingLostOrDoubled, Exact
  <2>3. CASE Resolve(ev.req, "bucket full") /\ UNCHANGED tableVars
    <3>1. "bucket full" \in Fates /\ UNCHANGED table
      BY <2>3 DEF Fates, tableVars
    <3>2. SameKeys /\ \A p \in Pointer : Answered(p)' <=> Answered(p)
      BY <1>1, <3>1 DEF SameKeys, At, Answered
    <3>3. ASSUME NEW r \in Req PROVE Exact(r)'
      <4>1. Held(r) = Held(r)' + (IF ev.req = r THEN 1 ELSE 0) /\ Held(r)' \in Nat
        BY <1>7, <2>1
      <4>2. Routed(r)' = Routed(r)
        BY <3>2, PendingSame
      <4> QED BY <1>0, <1>1, <1>6, <2>3, <3>1, <4>1, <4>2, ExactResolve
    <3>4. PastInv'
      BY <1>0, <1>1, <1>6, <2>3, <3>1, PastResolve
    <3> QED BY <3>3, <3>4 DEF NothingLostOrDoubled, Exact
  <2> QED BY <1>0, <1>2, <2>1, <2>2, <2>3, InsertGives
<1> QED BY <1>8, <1>9

LEMMA NextPlacesCenterAnswer ==
  ASSUME CoreInv, CenterRespond \/ CenterTimeout
  PROVE  NothingLostOrDoubled' /\ PastInv'
<1>0. TypeOK /\ PastInv /\ NothingLostOrDoubled /\ ctr \in Seq(Response) /\ Len(ctr) <= 1
  BY TypeParts DEF CoreInv, CenterTyped
<1>1. /\ UNCHANGED <<submitted, uevent, userRing, rcv, centerRing, table, exe, served>>
      /\ ctr # <<>> /\ ctr' = <<>>
  BY DEF CenterRespond, CenterTimeout, userVars, recvVars, tableVars
<1>2. PICK q \in Req : q = ctr[1].req
  BY <1>0, <1>1, OneInHand DEF Response
<1>3. PICK how \in Fates : Resolve(q, how)
  <2>1. "denied" \in Fates /\ "denial lost" \in Fates
    BY DEF Fates
  <2> QED BY <1>2, <2>1 DEF CenterRespond, CenterTimeout
<1>4. SameKeys /\ \A p \in Pointer : Answered(p)' <=> Answered(p)
  BY <1>1 DEF SameKeys, At, Answered
<1>5. \A r \in Req : /\ Holding(ctr, r) = IF q = r THEN 1 ELSE 0
                     /\ Holding(ctr', r) = 0
  <2>1. ctr = <<ctr[1]>>
    BY <1>0, <1>1, OneInHand
  <2> QED BY <1>1, <1>2, <2>1, HoldingOne, HoldingNone
<1>6. \A r \in Req : /\ Holding(userRing, r) \in Nat /\ Holding(rcv, r) \in Nat
                     /\ Holding(centerRing, r) \in Nat
  BY <1>0, PlacesAre
<1>7. Held(q) >= 1
  BY <1>5, <1>6 DEF Held
<1>8. ASSUME NEW r \in Req PROVE Exact(r)'
  <2>1. Held(r) = Held(r)' + (IF q = r THEN 1 ELSE 0) /\ Held(r)' \in Nat
    BY <1>1, <1>5, <1>6 DEF Held
  <2>2. Routed(r)' = Routed(r)
    BY <1>4, PendingSame
  <2> QED BY <1>0, <1>1, <1>3, <2>1, <2>2, ExactResolve
<1>9. PastInv'
  BY <1>0, <1>1, <1>3, <1>7, PastResolve
<1> QED BY <1>8, <1>9 DEF NothingLostOrDoubled, Exact

LEMMA NextPlacesRouting ==
  ASSUME CoreInv, GuideScan \/ (\E d \in Deck : DeckRun(d)) \/ ExecTake
  PROVE  NothingLostOrDoubled' /\ PastInv'
<1>0. TypeOK /\ PastInv /\ NothingLostOrDoubled /\ served \in [Req -> 0 .. 2]
  BY TypeParts DEF CoreInv, HistoryTyped
<1>1. UNCHANGED <<submitted, uevent, userRing, rcv, centerRing, ctr, fate>>
  BY DEF GuideScan, DeckRun, DeckTake, DeckServe, DeckStore, DeckClear, ExecTake,
         userVars, recvVars, history
<1>2. SameKeys
  BY <1>0, ScanGives, DeckKeeps, QuietSteps DEF Deck
<1>3. \A p \in Pointer : Answered(p)' <=> Answered(p)
  <2>1. CASE ExecTake
    <3>1. exe = <<>> /\ exe'[1].sent = FALSE
      BY <2>1 DEF ExecTake
    <3> QED BY <3>1 DEF Answered
  <2>2. CASE GuideScan \/ \E d \in Deck : DeckRun(d)
    BY <2>2 DEF GuideScan, DeckRun, DeckTake, DeckServe, DeckStore, DeckClear, Answered
  <2> QED BY <2>1, <2>2
<1>4. \A r \in Req : PendingFor(r)' = PendingFor(r) /\ Routed(r)' = Routed(r)
  BY <1>2, <1>3, PendingSame
<1>5. \A r \in Req : Held(r)' = Held(r) /\ Held(r) \in Nat /\ Routed(r) \in Nat
  BY <1>0, <1>1, PlacesAre DEF Held
<1>6. \A r \in Req : Exact(r)'
  BY <1>0, <1>1, <1>4, <1>5, ExactSame
<1>7. ASSUME UNCHANGED served PROVE PastInv'
  BY <1>0, <1>1, <1>2, <1>3, <1>7, PastSame DEF history
\* A request that is processed now is the one of an entry.
<1>8. ASSUME NEW d \in Deck, NEW o, DeckServe(d, o) PROVE PastInv'
  <2>1. PICK p \in Pointer : p = deck[d].at
    BY <1>0, TypeParts DEF DecksTyped
  <2>2. PICK q \in {0} \cup Req : q = At(p).req
    BY <1>0, TypeParts DEF TableTyped, At, Pointer, Entry
  <2>3. \A r \in Req : r # q => served'[r] = served[r]
    <3>1. served' = [served EXCEPT ![q] = IF @ = 0 THEN 1 ELSE 2]
      BY <1>8, <2>1, <2>2 DEF DeckServe, Served
    <3> QED BY <1>0, <3>1
  <2>4. q # 0 => PendingFor(q) # {} \/ fate[q] = <<"success">>
    BY <1>0, <2>2 DEF PastInv
  <2>5. \A r \in Req : served'[r] # 0 => PendingFor(r)' # {} \/ fate'[r] = <<"success">>
    <3>1. ASSUME NEW r \in Req, served'[r] # 0
          PROVE  PendingFor(r)' # {} \/ fate'[r] = <<"success">>
      <4>1. r # 0
        BY PipelineConstants DEF Req
      <4>2. CASE r = q
        BY <1>1, <1>4, <2>4, <4>1, <4>2
      <4>3. CASE r # q
        BY <1>0, <1>1, <1>4, <2>3, <3>1, <4>3 DEF PastInv
      <4> QED BY <4>2, <4>3
    <3> QED BY <3>1
  <2>6. \A r : PendingFor(r)' = PendingFor(r)
    BY <1>2, <1>3, PendingSame
  <2>7. \A x \in Pointer : At(x)'.req = At(x).req
    BY <1>2 DEF SameKeys
  <2> QED BY <1>0, <1>1, <2>5, <2>6, <2>7 DEF PastInv
<1>9. PastInv'
  <2>1. CASE GuideScan \/ ExecTake
    BY <1>7, <2>1 DEF GuideScan, ExecTake, history
  <2>2. ASSUME NEW d \in Deck, DeckTake(d) \/ DeckStore(d) \/ DeckClear(d) PROVE PastInv'
    BY <1>7, <2>2 DEF DeckTake, DeckStore, DeckClear, history
  <2> QED BY <1>8, <2>1, <2>2 DEF DeckRun
<1> QED BY <1>6, <1>9 DEF NothingLostOrDoubled, Exact

LEMMA NextPlacesExecRespond ==
  ASSUME CoreInv, ExecRespond
  PROVE  NothingLostOrDoubled' /\ PastInv'
<1>0. TypeOK /\ KeysInv /\ PastInv /\ NothingLostOrDoubled /\ ExecTyped
  BY TypeParts DEF CoreInv
<1>1. /\ UNCHANGED <<submitted, uevent, userRing, rcv, centerRing, ctr, table, served>>
      /\ exe # <<>> /\ ~ exe[1].sent /\ exe' = << [exe[1] EXCEPT !.sent = TRUE] >>
  BY DEF ExecRespond, userVars, recvVars, tableVars
<1>2. PICK p \in Pointer : p = exe[1].at /\ exe'[1].sent /\ exe'[1].at = p
  <2>1. exe[1] \in Job
    BY <1>0, <1>1, OneInHand DEF ExecTyped
  <2> QED BY <1>1, <2>1 DEF Job
<1>3. PICK q \in Req : /\ q = At(p).req /\ At(p).id # 0 /\ Resolve(q, "success")
                       /\ "success" \in Fates
  <2>1. Used(p) /\ exe[1].response.req = At(p).req
    BY <1>0, <1>1, <1>2 DEF KeysInv, ExecInv, Out
  <2>2. At(p).req \in Req
    BY <1>0, <2>1 DEF KeysInv, IdInv
  <2>3. Resolve(exe[1].response.req, "success")
    BY DEF ExecRespond
  <2> QED BY <2>1, <2>2, <2>3 DEF Used, Fates
<1>4. \A x \in Pointer : At(x)' = At(x) /\ ~ Answered(x) /\ (Answered(x)' <=> x = p)
  BY <1>1, <1>2 DEF At, Answered
<1>5. \A r \in Req : PendingFor(r)' = IF r = q THEN PendingFor(r) \ {p} ELSE PendingFor(r)
  BY <1>3, <1>4 DEF PendingFor
<1>6. p \in PendingFor(q)
  BY <1>3, <1>4 DEF PendingFor
<1>7. Routed(q) = 1 /\ fate[q] = <<>> /\ Len(fate[q]) = 0
  BY <1>0, <1>6, PendingIsOpen
<1>8. \A r \in Req : /\ IsFiniteSet(PendingFor(r)) /\ Routed(r) = Cardinality(PendingFor(r))
                     /\ Routed(r) \in Nat /\ Held(r)' = Held(r) /\ Held(r) \in Nat
                     /\ Len(fate[r]) \in Nat
  BY <1>0, <1>1, PlacesAre DEF Held
<1>9. \A r \in Req : Routed(r)' = IF r = q THEN 0 ELSE Routed(r)
  <2>1. \A r \in Req : Routed(r)' = Cardinality(PendingFor(r)')
    BY DEF Routed, PendingFor
  <2>2. Cardinality(PendingFor(q) \ {p}) = 0
    <3>1. Cardinality(PendingFor(q) \ {p}) = Cardinality(PendingFor(q)) - 1
      BY <1>6, <1>8, FS_RemoveElement
    <3> QED BY <1>7, <1>8, <3>1
  <2> QED BY <1>5, <1>8, <2>1, <2>2
<1>10. \A r \in Req : IF r = q THEN fate'[r] = <<"success">> /\ Len(fate'[r]) = 1
                               ELSE fate'[r] = fate[r]
  <2>1. /\ fate'[q] = Append(fate[q], "success") /\ Len(fate'[q]) = Len(fate[q]) + 1
        /\ \A r \in Req : r # q => fate'[r] = fate[r]
    BY <1>0, <1>3, FateGrows
  <2>2. Append(<<>>, "success") = <<"success">>
    OBVIOUS
  <2>3. fate'[q] = <<"success">>
    BY <1>7, <2>1, <2>2
  <2>4. Len(fate'[q]) = 1
    BY <1>7, <2>1
  <2> QED BY <2>1, <2>3, <2>4
<1>11. ASSUME NEW r \in Req PROVE Exact(r)'
  <2>1. Len(fate[r])' = Len(fate'[r])
    OBVIOUS
  <2>2. CASE r = q
    <3>1. Held(r)' + Routed(r)' + Len(fate[r])' = Held(r) + Routed(r) + Len(fate[r])
      <4>1. Held(r)' = Held(r) /\ Held(r) \in Nat /\ Routed(r)' = 0 /\ Len(fate[r])' = 1
        BY <1>8, <1>9, <1>10, <2>1, <2>2
      <4>2. Routed(r) = 1 /\ Len(fate[r]) = 0
        BY <1>7, <2>2
      <4> QED BY <4>1, <4>2
    <3> QED BY <1>0, <1>1, <1>8, <1>9, <2>2, <3>1, ExactSame
  <2>3. CASE r # q
    <3>1. Held(r)' + Routed(r)' + Len(fate[r])' = Held(r) + Routed(r) + Len(fate[r])
      BY <1>8, <1>9, <1>10, <2>1, <2>3
    <3> QED BY <1>0, <1>1, <1>8, <1>9, <2>3, <3>1, ExactSame
  <2> QED BY <2>2, <2>3
<1>12. \A r \in Req : (PendingFor(r) # {} \/ fate[r] = <<"success">>)
                        => (PendingFor(r)' # {} \/ fate'[r] = <<"success">>)
  BY <1>5, <1>10
<1>13. \A x \in Pointer : At(x).req \in {0} \cup Req
  BY ZenonT(30), <1>0, TypeParts DEF TableTyped, At, Pointer, Entry
<1>14. PastInv'
  BY <1>0, <1>1, <1>4, <1>12, <1>13 DEF PastInv
<1> QED BY <1>11, <1>14 DEF NothingLostOrDoubled, Exact

LEMMA NextPlacesExecRemove ==
  ASSUME CoreInv, ExecRemove
  PROVE  NothingLostOrDoubled' /\ PastInv'
<1>0. TypeOK /\ KeysInv /\ PastInv /\ NothingLostOrDoubled
  BY DEF CoreInv
<1>1. /\ UNCHANGED <<submitted, uevent, userRing, rcv, centerRing, ctr, history>>
      /\ exe # <<>> /\ exe[1].sent /\ exe' = <<>>
  BY DEF ExecRemove, userVars, recvVars
<1>2. PICK p \in Pointer : p = exe[1].at /\ Removed(p)
  BY <1>0, RemoveGives
<1>3. At(p)'.id = 0 /\ \A x \in Pointer : x # p => At(x)' = At(x)
  BY <1>2 DEF Removed, OnlyAt
<1>4. \A x \in Pointer : At(x)'.req = At(x).req
  BY <1>2 DEF Removed, OnlyAt
<1>5. \A x \in Pointer : ~ Answered(x)' /\ (Answered(x) <=> x = p)
  BY <1>1, <1>2 DEF Answered
<1>6. ASSUME NEW r PROVE PendingFor(r)' = PendingFor(r)
  <2>1. ASSUME NEW x \in Pointer
        PROVE  At(x)'.id # 0 /\ At(x)'.req = r /\ ~ Answered(x)'
                 <=> At(x).id # 0 /\ At(x).req = r /\ ~ Answered(x)
    BY <1>3, <1>5
  <2> QED BY <2>1 DEF PendingFor
<1>7. \A r \in Req : Routed(r)' = Routed(r)
  BY <1>6 DEF Routed, PendingFor
<1>8. \A r \in Req : Held(r)' = Held(r) /\ Held(r) \in Nat /\ Routed(r) \in Nat
                     /\ Len(fate[r])' = Len(fate[r])
  BY <1>0, <1>1, PlacesAre DEF Held, history
<1>9. \A r \in Req : Exact(r)'
  BY <1>0, <1>1, <1>7, <1>8, ExactSame
<1>10. PastInv'
  BY <1>0, <1>1, <1>4, <1>6 DEF PastInv, history
<1> QED BY <1>9, <1>10 DEF NothingLostOrDoubled, Exact

-------------------------------------------------------------------------------
(***************************************************************************)
(* Every interleaving of the components.                                   *)
(***************************************************************************)
LEMMA InitCore == Init => CoreInv
BY InitType, InitKeys, InitPlaces DEF CoreInv

LEMMA NextCore ==
  ASSUME CoreInv, CoreNext
  PROVE  CoreInv'
<1>1. TypeOK' /\ KeysInv'
  BY NextType, NextKeys DEF CoreInv
<1>2. NothingLostOrDoubled' /\ PastInv'
  BY NextPlacesUser, NextPlacesReceiver, NextPlacesCenterTake, NextPlacesCenterAnswer,
     NextPlacesRouting, NextPlacesExecRespond, NextPlacesExecRemove
     DEF CoreNext, Center, Execution
<1> QED BY <1>1, <1>2 DEF CoreInv

LEMMA StutterCore ==
  ASSUME CoreInv, UNCHANGED pipeVars
  PROVE  CoreInv'
<1>1. /\ UNCHANGED <<user, uevent, want, cache, submitted, userRing, nextId, rcv, centerRing>>
      /\ UNCHANGED <<ctr, table, count, deckQueue, execQueue, scanPos, deck, exe, respRing>>
      /\ UNCHANGED <<served, fate>>
  BY DEF pipeVars, userVars, recvVars, tableVars, guideVars, history
<1>2. TypeOK' <=> TypeOK
  BY <1>1 DEF TypeOK
<1>3. KeysInv' <=> KeysInv
  BY <1>1 DEF KeysInv, UserInv, IdInv, CountInv, ExecInv, UsedSlots, Used, Out, At
<1>4. PastInv' <=> PastInv
  BY <1>1 DEF PastInv, PendingFor, Answered, At
<1>5. NothingLostOrDoubled' <=> NothingLostOrDoubled
  BY <1>1 DEF NothingLostOrDoubled, Places, Holding, Routed, Answered, At
<1> QED BY <1>2, <1>3, <1>4, <1>5 DEF CoreInv

LEMMA CoreAlways == CoreSpec => []CoreInv
<1>1. CoreInv /\ [CoreNext]_pipeVars => CoreInv'
  BY NextCore, StutterCore
<1> QED BY <1>1, InitCore, PTL DEF CoreSpec

\* Every variable keeps its type: no ring, queue or bucket holds more than it
\* has room for, whatever the interleaving.
THEOREM PipelineTypes == CoreSpec => []TypeOK
<1>1. CoreInv => TypeOK
  BY DEF CoreInv
<1> QED BY <1>1, CoreAlways, PTL

\* No hand-over between Receiver, Center, table and Execution loses or doubles
\* a request: it is in one place, or was resolved in one way.
THEOREM RequestsNeitherLostNorDoubled == CoreSpec => []NothingLostOrDoubled
<1>1. CoreInv => NothingLostOrDoubled
  BY DEF CoreInv
<1> QED BY <1>1, CoreAlways, PTL

\* A request that was dropped or denied was not processed by a deck before, and
\* none does after.
THEOREM LossesAreUnserved == CoreSpec => []LossesUnserved
<1>1. ASSUME CoreInv PROVE LossesUnserved
  <2>1. ASSUME NEW r \in Req, fate[r] # <<>>, fate[r][1] # "success", served[r] # 0
        PROVE  FALSE
    <3>1. PendingFor(r) # {} \/ fate[r] = <<"success">>
      BY <1>1, <2>1 DEF CoreInv, PastInv
    <3>2. CASE PendingFor(r) # {}
      BY <1>1, <2>1, <3>2, PendingIsOpen DEF CoreInv
    <3>3. CASE fate[r] = <<"success">>
      BY <2>1, <3>3
    <3> QED BY <3>1, <3>2, <3>3
  <2> QED BY <2>1 DEF LossesUnserved
<1> QED BY <1>1, CoreAlways, PTL

-------------------------------------------------------------------------------
(***************************************************************************)
(* Iterations and buckets.  In one iteration the Guide scans BATCH buckets, *)
(* every deck takes one pointer, and at most one event gets into the table. *)
(***************************************************************************)

\* The iterations in which the Guide goes round the table once.
Scans == CHOOSE k \in 1 .. BUCKETS : BUCKETS = k * BATCH

\* The buckets scanned in n iterations.
Span(n) == n * BATCH

\* A product is not less for a greater factor.
LEMMA ProductsOrdered ==
  ASSUME NEW b \in Nat, b > 0, NEW x \in Int, NEW y \in Int
  PROVE  x <= y <=> x * b <= y * b
<1>1. ASSUME x <= y PROVE x * b <= y * b
  <2>1. (y - x) * b >= 0
    BY <1>1
  <2> QED BY <2>1
<1>2. ASSUME ~ (x <= y) PROVE ~ (x * b <= y * b)
  <2>1. (x - y) * b > 0
    BY <1>2
  <2> QED BY <2>1
<1> QED BY <1>1, <1>2

LEMMA SpanIs ==
  /\ \A n \in Int : Span(n) \in Int /\ Span(n + 1) = Span(n) + BATCH
                    /\ Span(n - 1) = Span(n) - BATCH
  /\ \A m, n \in Int : m <= n <=> Span(m) <= Span(n)
  /\ Span(0) = 0 /\ Span(1) = BATCH /\ Span(Scans) = BUCKETS
  /\ Scans \in Nat /\ Scans > 0 /\ Scans <= QUEUE
<1>1. BATCH \in Nat /\ BATCH > 0 /\ BUCKETS \in Nat /\ BUCKETS > 0 /\ QUEUE \in Nat
  BY PipelineConstants
<1>2. \A n \in Int : Span(n) \in Int /\ Span(n + 1) = Span(n) + BATCH
                     /\ Span(n - 1) = Span(n) - BATCH
  BY <1>1 DEF Span
<1>3. \A m, n \in Int : m <= n <=> Span(m) <= Span(n)
  BY <1>1, ProductsOrdered DEF Span
<1>4. Span(0) = 0 /\ Span(1) = BATCH
  BY <1>1 DEF Span
<1>5. Scans \in 1 .. BUCKETS /\ BUCKETS = Scans * BATCH
  BY PipelineAssumption DEF Scans
<1>6. Scans <= QUEUE
  BY <1>1, <1>5, SyncAssumption, ProductsOrdered
<1> QED BY <1>1, <1>2, <1>3, <1>4, <1>5, <1>6 DEF Span

\* How many buckets of the current iteration are scanned.
Offset == scanPos % BATCH

\* A number has one quotient and one remainder.
LEMMA Remainder ==
  ASSUME NEW b \in Nat, b > 0, NEW q \in Int, NEW r \in 0 .. b - 1
  PROVE  (q * b + r) % b = r
<1> DEFINE x == q * b + r
<1>1. x \in Int /\ x % b \in 0 .. b - 1 /\ x \div b \in Int
  OBVIOUS
<1>2. x = b * (x \div b) + (x % b)
  OBVIOUS
<1>3. PICK n \in Int : n = x \div b - q
  BY <1>1
<1>4. PICK m \in 0 .. b - 1 : m = x % b
  BY <1>1
<1>5. n * b = r - m
  <2>1. x = b * (n + q) + m
    BY <1>1, <1>2, <1>3, <1>4
  <2> QED BY <2>1
<1>6. n < 1
  <2>1. ~ (1 * b <= n * b)
    BY <1>5
  <2> QED BY <2>1, ProductsOrdered
<1>7. n > -1
  <2>1. ~ (n * b <= (-1) * b)
    BY <1>5
  <2> QED BY <2>1, ProductsOrdered
<1>8. n = 0
  BY <1>6, <1>7
<1>9. m = r
  BY <1>5, <1>8
<1> QED BY <1>4, <1>9

\* The Guide moves on by one bucket, and begins again with a new iteration.
LEMMA OffsetIs ==
  ASSUME scanPos \in Bucket
  PROVE  /\ Offset \in 0 .. BATCH - 1
         /\ NextScan = IF scanPos + 1 = BUCKETS THEN 0 ELSE scanPos + 1
         /\ NextScan % BATCH = IF Offset + 1 = BATCH THEN 0 ELSE Offset + 1
         /\ scanPos + 1 = BUCKETS => Offset + 1 = BATCH
         /\ 0 % BATCH = 0
<1>1. /\ BATCH \in Nat /\ BATCH > 0 /\ BUCKETS \in Nat /\ BUCKETS > 0
      /\ scanPos \in 0 .. BUCKETS - 1
  BY PipelineConstants DEF Bucket
<1>2. PICK k \in 1 .. BUCKETS : BUCKETS = k * BATCH
  BY PipelineAssumption
<1>3. PICK o \in 0 .. BATCH - 1 : o = Offset
  BY <1>1 DEF Offset
<1>4. PICK q \in Int : scanPos = q * BATCH + o
  <2>1. scanPos = BATCH * (scanPos \div BATCH) + (scanPos % BATCH)
    BY <1>1
  <2>2. scanPos \div BATCH \in Int
    BY <1>1
  <2> QED BY <2>1, <2>2, <1>1, <1>3 DEF Offset
<1>5. NextScan = IF scanPos + 1 = BUCKETS THEN 0 ELSE scanPos + 1
  <2>1. CASE scanPos + 1 = BUCKETS
    <3>1. (1 * BUCKETS + 0) % BUCKETS = 0
      BY <1>1, Remainder
    <3> QED BY <1>1, <2>1, <3>1 DEF NextScan
  <2>2. CASE scanPos + 1 # BUCKETS
    <3>1. (0 * BUCKETS + (scanPos + 1)) % BUCKETS = scanPos + 1
      BY <1>1, <2>2, Remainder
    <3> QED BY <1>1, <2>2, <3>1 DEF NextScan
  <2> QED BY <2>1, <2>2
<1>6. 0 % BATCH = 0
  <2>1. (0 * BATCH + 0) % BATCH = 0
    BY <1>1, Remainder
  <2> QED BY <1>1, <2>1
<1>7. (scanPos + 1) % BATCH = IF o + 1 = BATCH THEN 0 ELSE o + 1
  <2>1. CASE o + 1 = BATCH
    <3>1. ((q + 1) * BATCH + 0) % BATCH = 0
      BY <1>1, Remainder
    <3>2. (q + 1) * BATCH + 0 = scanPos + 1
      BY <1>1, <1>4, <2>1
    <3> QED BY <2>1, <3>1, <3>2
  <2>2. CASE o + 1 # BATCH
    <3>1. o + 1 \in 0 .. BATCH - 1
      BY <1>1, <2>2
    <3>2. (q * BATCH + (o + 1)) % BATCH = o + 1
      BY <1>1, <3>1, Remainder
    <3>3. q * BATCH + (o + 1) = scanPos + 1
      BY <1>1, <1>4
    <3> QED BY <2>2, <3>2, <3>3
  <2> QED BY <2>1, <2>2
<1>8. ASSUME scanPos + 1 = BUCKETS PROVE o + 1 = BATCH
  <2>1. (k * BATCH + 0) % BATCH = 0
    BY <1>1, Remainder
  <2>2. (scanPos + 1) % BATCH = 0
    BY <1>1, <1>2, <1>8, <2>1
  <2> QED BY <1>7, <2>2
<1> QED BY <1>3, <1>5, <1>6, <1>7, <1>8

-------------------------------------------------------------------------------
(***************************************************************************)
(* The inductive invariant.                                                *)
(***************************************************************************)
Busy(d) == deck[d].step # "idle"

\* The deck has its turn still to come in this iteration, after the scan.
TurnToCome(d) == ~ Busy(d) /\ \E c \in Deck : c <= d /\ stage = DeckStage[c]

\* How many buckets the Guide scans before it is the turn of the iteration that
\* scans b, and one iteration more for a deck that has its turn to come.
Left(b) == Offset + b - scanPos + (IF b < scanPos THEN BUCKETS ELSE 0)
Late(d) == IF TurnToCome(d) THEN BATCH ELSE 0

\* The id that the event of the scan to come has, if there is one; the age of an
\* entry is the number of scans since it was put into the table.
Tick == IF stage \in {"center", "guide"} \/ rcv # <<>> THEN nextId ELSE nextId + 1
Age(p) == Tick - At(p).id

\* The entries a deck still has to take, and how many there may be.
Waiting(d) == {p \in Pointer : ReadyFor(p, d) /\ ~ (Busy(d) /\ deck[d].at = p)}
Most(d) ==
  IF stage = "guide" \/ (stage = "center" /\ centerRing = <<>>) \/ TurnToCome(d)
  THEN Scans ELSE Scans - 1

\* A component has something in hand, and a ring between two of them something
\* in it, only in its turn.
StageInv ==
  /\ stage # "guide" => Offset = 0
  /\ rcv # <<>> => stage = "receiver"
  /\ ctr # <<>> => stage = "center" /\ centerRing = <<>>
  /\ centerRing # <<>> =>
       stage = "center" /\ Len(centerRing) = 1 /\ centerRing[1].id = nextId
  /\ exe # <<>> => stage = "execution"
  /\ \A d \in Deck : IF Busy(d) THEN stage = DeckStage[d] ELSE deck[d] = Idle

\* An entry is routed to one deck; the pointer a deck has names an entry that is
\* routed to it, and nobody else's.
EntryInv ==
  /\ \A p \in Pointer : \A i \in 2 .. STEPS : At(p).prefixes[i] = NONE
  /\ \A p \in Pointer : Out(p) => At(p).prefixes[1] = NONE
  /\ \A p \in Pointer : Live(p) /\ At(p).abort /\ At(p).prefixes[1] # NONE =>
       \E d \in Deck : deck[d].step = "clear" /\ deck[d].at = p
  /\ \A d \in Deck : Busy(d) => Live(deck[d].at) /\ At(deck[d].at).prefixes[1] = d
  /\ \A d \in Deck : deck[d].step = "serve" => ~ At(deck[d].at).abort
  /\ \A d \in Deck : deck[d].step \in {"store", "clear"} =>
       deck[d].req = At(deck[d].at).req

\* The k-th pointer of a queue is taken before the bucket it points into is
\* scanned again: the deck has k turns until then.
QueueInv ==
  \A d \in Deck :
    /\ \A k \in 1 .. Len(deckQueue[d]) :
         /\ deckQueue[d][k] \in Waiting(d)
         /\ Span(k) <= Left(deckQueue[d][k][1]) + Late(d)
    /\ \A k, m \in 1 .. Len(deckQueue[d]) : k # m => deckQueue[d][k] # deckQueue[d][m]

\* An entry that waits and is not queued came in after the last scan of its
\* bucket.
QueuedFor(d, p) == \E k \in 1 .. Len(deckQueue[d]) : deckQueue[d][k] = p
PendingInv ==
  \A d \in Deck : \A p \in Waiting(d) :
    ~ QueuedFor(d, p) => Left(p[1]) + Span(Age(p)) < BUCKETS

\* No more entries wait for a deck than events come in during a round.
WaitingInv == \A d \in Deck : Cardinality(Waiting(d)) <= Most(d)

RoutingInv == EntryInv /\ QueueInv /\ PendingInv /\ WaitingInv
SyncInv == CoreInv /\ StageInv /\ RoutingInv

-------------------------------------------------------------------------------
(***************************************************************************)
(* Entries, turns and numbers.                                             *)
(***************************************************************************)

\* The turns of the decks have names of their own.
LEMMA DeckStages ==
  /\ DeckStage[1] = "operations" /\ DeckStage[2] = "storage"
  /\ DeckStage[3] = "hardware" /\ DeckStage[4] = "network"
  /\ \A c, d \in Deck : DeckStage[c] = DeckStage[d] => c = d
  /\ \A d \in Deck : DeckStage[d] \notin {"user", "receiver", "center", "guide", "execution"}
<1>1. /\ DeckStage[1] = "operations" /\ DeckStage[2] = "storage"
      /\ DeckStage[3] = "hardware" /\ DeckStage[4] = "network"
  BY DEF DeckStage
<1>2. \A d \in Deck : d = 1 \/ d = 2 \/ d = 3 \/ d = 4
  BY DEF Deck
<1>3. "operations" # "storage" /\ "operations" # "hardware" /\ "operations" # "network"
      /\ "storage" # "hardware" /\ "storage" # "network" /\ "hardware" # "network"
  OBVIOUS
<1>4. \A c, d \in Deck : DeckStage[c] = DeckStage[d] => c = d
  BY <1>1, <1>2, <1>3
<1>5. \A d \in Deck : DeckStage[d] \notin {"user", "receiver", "center", "guide", "execution"}
  BY <1>1, <1>2
<1> QED BY <1>1, <1>4, <1>5

\* What the entry of a pointer is made of.
LEMMA EntryParts ==
  ASSUME TypeOK, NEW p \in Pointer
  PROVE  /\ At(p) \in Entry /\ p[1] \in Bucket /\ p[2] \in 1 .. CAPACITY
         /\ At(p).id \in {0} \cup EventId /\ At(p).req \in {0} \cup Req
         /\ At(p).prefixes \in [1 .. STEPS -> {NONE} \cup Deck]
         /\ At(p).abort \in BOOLEAN
         /\ At(p).results \in [Deck -> {0} \cup Req]
         /\ At(p).id \in Int
<1>1. table \in [Bucket -> [1 .. CAPACITY -> Entry]] /\ p[1] \in Bucket
      /\ p[2] \in 1 .. CAPACITY
  BY TypeParts DEF TableTyped, Pointer
<1>2. At(p) \in Entry
  BY <1>1 DEF At
<1>3. At(p).id \in Int
  BY <1>2 DEF Entry, EventId, FirstId
<1> QED BY <1>1, <1>2, <1>3 DEF Entry, Routes

\* With one route, the next prefix is the first, and clearing it clears that.
LEMMA OneRoute ==
  ASSUME NEW e \in Entry, \A i \in 2 .. STEPS : e.prefixes[i] = NONE
  PROVE  /\ NextPrefix(e) = e.prefixes[1]
         /\ \A d \in Deck : ClearPrefix(e, d) =
              IF e.prefixes[1] = d THEN [e EXCEPT !.prefixes[1] = NONE] ELSE e
<1>0. /\ STEPS \in Nat /\ 1 \in 1 .. STEPS
      /\ \A i \in 1 .. STEPS : i = 1 \/ i \in 2 .. STEPS
  BY PipelineConstants
<1>1. Min({1}) = 1
  <2>1. {1} \subseteq Nat /\ {1} # {}
    OBVIOUS
  <2>2. Min({1}) \in {1}
    BY <2>1, LeastMember
  <2> QED BY <2>2
<1>2. \A d \in Deck : d # NONE
  BY DEF Deck, NONE
<1>3. NextPrefix(e) = e.prefixes[1]
  <2> DEFINE left == {i \in 1 .. STEPS : e.prefixes[i] # NONE}
  <2>1. CASE e.prefixes[1] = NONE
    <3>1. left = {}
      BY <1>0, <2>1
    <3> QED BY <2>1, <3>1 DEF NextPrefix
  <2>2. CASE e.prefixes[1] # NONE
    <3>1. left = {1}
      BY <1>0, <2>2
    <3> QED BY <1>1, <3>1 DEF NextPrefix
  <2> QED BY <2>1, <2>2
<1>4. ASSUME NEW d \in Deck
      PROVE  ClearPrefix(e, d) =
               IF e.prefixes[1] = d THEN [e EXCEPT !.prefixes[1] = NONE] ELSE e
  <2> DEFINE mine == {i \in 1 .. STEPS : e.prefixes[i] = d}
  <2>1. CASE e.prefixes[1] = d
    <3>1. mine = {1}
      BY <1>0, <1>2, <2>1
    <3> QED BY <1>1, <2>1, <3>1 DEF ClearPrefix
  <2>2. CASE e.prefixes[1] # d
    <3>1. mine = {}
      BY <1>0, <1>2, <2>2
    <3> QED BY <2>2, <3>1 DEF ClearPrefix
  <2> QED BY <2>1, <2>2
<1> QED BY <1>3, <1>4

\* Which deck an entry waits for.
LEMMA ReadyIs ==
  ASSUME TypeOK, EntryInv, NEW p \in Pointer, NEW d
  PROVE  ReadyFor(p, d) <=>
           /\ At(p).id # 0 /\ At(p).state = "processing"
           /\ At(p).prefixes[1] = d /\ ~ At(p).abort
<1>1. NextPrefix(At(p)) = At(p).prefixes[1]
  BY EntryParts, OneRoute DEF EntryInv
<1> QED BY <1>1 DEF ReadyFor, Live

\* The distances are numbers.
LEMMA DistancesAre ==
  ASSUME TypeOK, NEW b \in Bucket, NEW d \in Deck
  PROVE  /\ Offset \in 0 .. BATCH - 1 /\ scanPos \in 0 .. BUCKETS - 1
         /\ b \in 0 .. BUCKETS - 1 /\ Left(b) \in Nat
         /\ Late(d) \in {0, BATCH} /\ Late(d) \in Nat
<1>1. scanPos \in Bucket /\ BATCH \in Nat /\ BATCH > 0 /\ BUCKETS \in Nat /\ BUCKETS > 0
  BY TypeParts, PipelineConstants DEF QueuesTyped
<1>2. Offset \in 0 .. BATCH - 1
  BY <1>1, OffsetIs
<1>3. Left(b) \in Nat
  BY <1>1, <1>2 DEF Left, Bucket
<1> QED BY <1>1, <1>2, <1>3 DEF Late, Bucket

\* The ages of entries are numbers.
LEMMA AgesAre ==
  ASSUME TypeOK, IdInv, NEW p \in Pointer
  PROVE  /\ Age(p) \in Int /\ Tick \in Nat /\ nextId \in Nat
         /\ Used(p) => Age(p) >= 0
<1>1. nextId \in Nat /\ Tick \in Nat /\ Tick >= nextId
  <2>1. nextId \in 1 .. MaxEvents + 1
    BY TypeParts DEF ReceiverTyped
  <2> QED BY <2>1, PipelineConstants DEF Tick
<1>2. At(p).id \in Int
  BY EntryParts
<1>3. Used(p) => At(p).id <= nextId
  BY <1>1, PipelineConstants DEF IdInv, FirstId
<1> QED BY <1>1, <1>2, <1>3 DEF Age

\* The entries that wait are finitely many.
LEMMA WaitingFinite ==
  ASSUME NEW d PROVE IsFiniteSet(Waiting(d)) /\ Cardinality(Waiting(d)) \in Nat
<1>1. IsFiniteSet(Waiting(d))
  BY FinitelyManyPointers, FS_Subset DEF Waiting
<1> QED BY <1>1, FS_CardinalityType

-------------------------------------------------------------------------------
(***************************************************************************)
(* One turn after the other.                                               *)
(***************************************************************************)

\* A turn that is over at once.
Pass(here, next) == stage = here /\ stage' = next /\ UNCHANGED pipeVars

AfterDeck(d) == IF d = 4 THEN "execution" ELSE DeckStage[d + 1]

\* What a step of the schedule is: a component's step in its turn, or a turn
\* that is over at once.
LEMMA SyncSteps ==
  ASSUME SyncNext
  PROVE  \/ stage = "user" /\ User /\ UNCHANGED stage
         \/ Pass("user", "receiver")
         \/ Pass("receiver", "center") /\ rcv = <<>>
         \/ /\ stage = "receiver" /\ Receiver
            /\ stage' = IF rcv' = <<>> THEN "center" ELSE "receiver"
         \/ Pass("center", "guide") /\ ctr = <<>> /\ centerRing = <<>>
         \/ /\ stage = "center" /\ Center
            /\ stage' = IF ctr' = <<>> THEN "guide" ELSE "center"
         \/ GuideTurn
         \/ \E d \in Deck :
              Pass(DeckStage[d], AfterDeck(d)) /\ deck[d] = Idle /\ deckQueue[d] = <<>>
         \/ \E d \in Deck :
              /\ stage = DeckStage[d] /\ DeckRun(d)
              /\ stage' = IF deck'[d] = Idle THEN AfterDeck(d) ELSE DeckStage[d]
         \/ Pass("execution", "user") /\ exe = <<>>
         \/ /\ stage = "execution" /\ Execution
            /\ stage' = IF exe' = <<>> THEN "user" ELSE "execution"
<1>1. CASE UserTurn \/ ProcessOneIteration
  BY <1>1 DEF UserTurn, ProcessOneIteration, Pass
<1>2. CASE ReceiverTurn
  BY <1>2 DEF ReceiverTurn, Turn, Pass
<1>3. CASE CenterTurn
  BY <1>3 DEF CenterTurn, Turn, Pass
<1>4. ASSUME NEW d \in Deck, DeckTurn(d)
      PROVE  \/ Pass(DeckStage[d], AfterDeck(d)) /\ deck[d] = Idle /\ deckQueue[d] = <<>>
             \/ /\ stage = DeckStage[d] /\ DeckRun(d)
                /\ stage' = IF deck'[d] = Idle THEN AfterDeck(d) ELSE DeckStage[d]
  BY <1>4 DEF DeckTurn, Turn, Pass, AfterDeck
<1>5. CASE ExecutionTurn
  BY <1>5 DEF ExecutionTurn, Turn, Pass
<1> QED BY <1>1, <1>2, <1>3, <1>4, <1>5 DEF SyncNext, Kernel

\* The schedule is one of those in which every component has its own core.
LEMMA SyncIsCore ==
  ASSUME [SyncNext]_vars PROVE [CoreNext]_pipeVars
<1>1. CASE SyncNext
  BY <1>1, SyncSteps DEF Pass, GuideTurn, CoreNext
<1>2. CASE UNCHANGED vars
  BY <1>2 DEF vars
<1> QED BY <1>1, <1>2

\* Until its last step a deck stays busy.
LEMMA DeckGoesOn ==
  ASSUME deck \in [Deck -> [step : {"idle", "serve", "store", "clear"}, at : Pointer,
                            req : {0} \cup Req, outcome : {"result", "empty", "error"}]],
         NEW d \in Deck, DeckRun(d), ~ DeckClear(d)
  PROVE  deck'[d].step # "idle"
<1>1. CASE DeckTake(d)
  <2>1. deck' = [deck EXCEPT ![d].step = "serve", ![d].at = Head(deckQueue[d])]
    BY <1>1 DEF DeckTake
  <2>2. deck'[d].step = "serve"
    BY <2>1
  <2> QED BY <2>2
<1>2. ASSUME NEW o \in Outcomes, DeckServe(d, o) PROVE deck'[d].step # "idle"
  <2>1. PICK r : deck' = [deck EXCEPT ![d].step = "store", ![d].req = r, ![d].outcome = o]
    BY <1>2 DEF DeckServe
  <2>2. deck'[d].step = "store"
    BY <2>1
  <2> QED BY <2>2
<1>3. CASE DeckStore(d)
  <2>1. deck' = [deck EXCEPT ![d].step = "clear"]
    BY <1>3 DEF DeckStore
  <2>2. deck'[d].step = "clear"
    BY <2>1
  <2> QED BY <2>2
<1> QED BY <1>1, <1>2, <1>3 DEF DeckRun

\* The variables of the other components stay where one takes a step.
LEMMA OthersKeep ==
  /\ User => UNCHANGED <<rcv, ctr, centerRing, nextId, exe, deck, deckQueue, scanPos, table>>
  /\ Receiver => UNCHANGED <<ctr, exe, deck, deckQueue, scanPos, table>>
  /\ Center => UNCHANGED <<rcv, nextId, exe, deck, deckQueue, scanPos>>
  /\ CenterRespond \/ CenterTimeout => UNCHANGED table
  /\ GuideScan => UNCHANGED <<rcv, ctr, centerRing, nextId, exe, deck>>
  /\ \A d \in Deck : DeckRun(d) =>
       UNCHANGED <<rcv, ctr, centerRing, nextId, exe, scanPos>>
  /\ Execution => UNCHANGED <<rcv, ctr, centerRing, nextId, deck, deckQueue, scanPos>>
  /\ ExecTake \/ ExecRespond => UNCHANGED table
  /\ UNCHANGED pipeVars =>
       UNCHANGED <<rcv, ctr, centerRing, nextId, exe, deck, deckQueue, scanPos, table>>
<1>1. User => UNCHANGED <<rcv, ctr, centerRing, nextId, exe, deck, deckQueue, scanPos, table>>
  BY DEF User, SubmitCall, SubmitPush, PollCall, PollPop, PollEmpty, recvVars, guideVars,
         tableVars
<1>2. Receiver => UNCHANGED <<ctr, exe, deck, deckQueue, scanPos, table>>
  BY DEF Receiver, ReceiverTake, ReceiverForward, ReceiverTimeout, recvVars, guideVars,
         tableVars
<1>3. Center => UNCHANGED <<rcv, nextId, exe, deck, deckQueue, scanPos>>
  BY DEF Center, CenterTake, CenterRespond, CenterTimeout, recvVars, guideVars
<1>4. CenterRespond \/ CenterTimeout => UNCHANGED table
  BY DEF CenterRespond, CenterTimeout, tableVars
<1>5. GuideScan => UNCHANGED <<rcv, ctr, centerRing, nextId, exe, deck>>
  BY DEF GuideScan, recvVars
<1>6. \A d \in Deck : DeckRun(d) =>
        UNCHANGED <<rcv, ctr, centerRing, nextId, exe, scanPos>>
  BY DEF DeckRun, DeckTake, DeckServe, DeckStore, DeckClear, recvVars, guideVars
<1>7. Execution => UNCHANGED <<rcv, ctr, centerRing, nextId, deck, deckQueue, scanPos>>
  BY DEF Execution, ExecTake, ExecRespond, ExecRemove, recvVars, guideVars
<1>8. ExecTake \/ ExecRespond => UNCHANGED table
  BY DEF ExecTake, ExecRespond, tableVars
<1>9. UNCHANGED pipeVars =>
        UNCHANGED <<rcv, ctr, centerRing, nextId, exe, deck, deckQueue, scanPos, table>>
  BY DEF pipeVars, recvVars, guideVars, tableVars
<1> QED BY <1>1, <1>2, <1>3, <1>4, <1>5, <1>6, <1>7, <1>8, <1>9

\* In its turn a deck is the only one that may be at work; in the others' none is.
LEMMA DecksAtRest ==
  ASSUME StageInv, NEW d \in Deck, stage # DeckStage[d]
  PROVE  ~ Busy(d) /\ deck[d] = Idle
BY DEF StageInv

LEMMA NextStageInv ==
  ASSUME TypeOK, IdInv, StageInv, SyncNext
  PROVE  StageInv'
<1>0. deck \in [Deck -> [step : {"idle", "serve", "store", "clear"}, at : Pointer,
                  req : {0} \cup Req, outcome : {"result", "empty", "error"}]]
  BY TypeParts DEF DecksTyped
<1>1. /\ stage # "guide" => Offset = 0
      /\ rcv # <<>> => stage = "receiver"
      /\ ctr # <<>> => stage = "center" /\ centerRing = <<>>
      /\ centerRing # <<>> =>
           stage = "center" /\ Len(centerRing) = 1 /\ centerRing[1].id = nextId
      /\ exe # <<>> => stage = "execution"
      /\ \A d \in Deck : IF Busy(d) THEN stage = DeckStage[d] ELSE deck[d] = Idle
  BY DEF StageInv
<1>2. Idle.step = "idle"
  BY DEF Idle
<1>3. UNCHANGED scanPos => Offset' = Offset
  BY DEF Offset
<1>4. UNCHANGED deck => \A d \in Deck : Busy(d)' = Busy(d) /\ deck'[d] = deck[d]
  BY DEF Busy
<1>5. UNCHANGED deck /\ (\A d \in Deck : deck[d] = Idle)
        => \A d \in Deck : IF Busy(d)' THEN stage' = DeckStage[d] ELSE deck'[d] = Idle
  BY <1>2, <1>4 DEF Busy
\* Outside the decks' turns they are all idle.
<1>6. stage \in {"user", "receiver", "center", "guide", "execution"}
        => \A d \in Deck : deck[d] = Idle
  BY DeckStages, DecksAtRest
<1>7. CASE stage = "user" /\ User /\ UNCHANGED stage
  <2>1. UNCHANGED <<rcv, ctr, centerRing, nextId, exe, deck, scanPos>>
    BY <1>7, OthersKeep
  <2> QED BY <1>1, <1>3, <1>4, <1>7, <2>1 DEF StageInv
<1>8. ASSUME NEW here, NEW next, Pass(here, next), here # "guide",
             rcv = <<>>, ctr = <<>>, centerRing = <<>>, exe = <<>>,
             \A d \in Deck : deck[d] = Idle
      PROVE  StageInv'
  <2>1. UNCHANGED <<rcv, ctr, centerRing, exe, deck, scanPos>>
    BY <1>8, OthersKeep DEF Pass
  <2>2. Offset' = 0
    BY <1>1, <1>3, <1>8, <2>1 DEF Pass
  <2> QED BY <1>5, <1>8, <2>1, <2>2 DEF StageInv
<1>9. CASE \/ Pass("user", "receiver")
           \/ Pass("receiver", "center") /\ rcv = <<>>
           \/ Pass("center", "guide") /\ ctr = <<>> /\ centerRing = <<>>
           \/ Pass("execution", "user") /\ exe = <<>>
  <2>1. \/ Pass("user", "receiver") /\ stage = "user"
        \/ Pass("receiver", "center") /\ stage = "receiver" /\ rcv = <<>>
        \/ Pass("center", "guide") /\ stage = "center" /\ ctr = <<>> /\ centerRing = <<>>
        \/ Pass("execution", "user") /\ stage = "execution" /\ exe = <<>>
    BY <1>9 DEF Pass
  <2>2. rcv = <<>> /\ ctr = <<>> /\ centerRing = <<>> /\ exe = <<>>
    BY <1>1, <2>1
  <2>3. \A d \in Deck : deck[d] = Idle
    BY <1>6, <2>1
  <2> QED BY <1>8, <2>1, <2>2, <2>3
<1>10. ASSUME NEW d \in Deck, Pass(DeckStage[d], AfterDeck(d)), deck[d] = Idle
       PROVE  StageInv'
  <2>1. stage = DeckStage[d]
    BY <1>10 DEF Pass
  <2>2. rcv = <<>> /\ ctr = <<>> /\ centerRing = <<>> /\ exe = <<>> /\ stage # "guide"
    BY <1>1, <2>1, DeckStages
  <2>3. \A c \in Deck : deck[c] = Idle
    BY <1>10, <2>1, DeckStages, DecksAtRest
  <2> QED BY <1>8, <1>10, <2>1, <2>2, <2>3
<1>11. CASE /\ stage = "receiver" /\ Receiver
            /\ stage' = IF rcv' = <<>> THEN "center" ELSE "receiver"
  <2>1. ctr = <<>> /\ centerRing = <<>> /\ exe = <<>>
    BY <1>1, <1>11
  <2>2. UNCHANGED <<ctr, exe, deck, scanPos>>
    BY <1>11, OthersKeep
  <2>3. ASSUME centerRing' # <<>>
        PROVE  stage' = "center" /\ Len(centerRing') = 1 /\ centerRing'[1].id = nextId'
    <3>1. rcv # <<>> /\ rcv' = <<>> /\ centerRing' = Append(centerRing, rcv[1])
          /\ nextId' = nextId
      BY <1>11, <2>1, <2>3 DEF Receiver, ReceiverTake, ReceiverForward, ReceiverTimeout
    <3>2. rcv[1].id = nextId
      BY <3>1 DEF IdInv
    <3> QED BY <1>11, <2>1, <3>1, <3>2
  <2>4. Offset' = 0
    BY <1>1, <1>3, <1>11, <2>2
  <2>5. rcv' # <<>> => stage' = "receiver"
    BY <1>11
  <2> QED BY <1>5, <1>6, <1>11, <2>1, <2>2, <2>3, <2>4, <2>5 DEF StageInv
<1>12. CASE /\ stage = "center" /\ Center
            /\ stage' = IF ctr' = <<>> THEN "guide" ELSE "center"
  <2>1. rcv = <<>> /\ exe = <<>>
    BY <1>1, <1>12
  <2>2. UNCHANGED <<rcv, nextId, exe, deck, scanPos>>
    BY <1>12, OthersKeep
  <2>3. centerRing' = <<>>
    <3>1. CASE CenterTake
      <4>1. centerRing # <<>> /\ centerRing' = Tail(centerRing) /\ Len(centerRing) = 1
        BY <1>1, <3>1 DEF CenterTake
      <4>2. centerRing \in Seq(Event)
        BY TypeParts DEF CenterRingTyped
      <4> QED BY <4>1, <4>2
    <3>2. CASE CenterRespond \/ CenterTimeout
      BY <1>1, <3>2 DEF CenterRespond, CenterTimeout
    <3> QED BY <1>12, <3>1, <3>2 DEF Center
  <2>4. Offset' = 0
    BY <1>1, <1>3, <1>12, <2>2
  <2>5. ctr' # <<>> => stage' = "center"
    BY <1>12
  <2> QED BY <1>5, <1>6, <1>12, <2>1, <2>2, <2>3, <2>4, <2>5 DEF StageInv
<1>13. CASE GuideTurn
  <2>1. /\ stage = "guide" /\ GuideScan
        /\ stage' = IF scanPos' % BATCH = 0 THEN DeckStage[1] ELSE "guide"
    BY <1>13 DEF GuideTurn
  <2>2. UNCHANGED <<rcv, ctr, centerRing, nextId, exe, deck>>
    BY <2>1, OthersKeep
  <2>3. rcv = <<>> /\ ctr = <<>> /\ centerRing = <<>> /\ exe = <<>>
    BY <1>1, <2>1
  <2>4. stage' # "guide" => Offset' = 0
    BY <2>1 DEF Offset
  <2> QED BY <1>5, <1>6, <2>1, <2>2, <2>3, <2>4 DEF StageInv
<1>14. ASSUME NEW d \in Deck, stage = DeckStage[d], DeckRun(d),
              stage' = IF deck'[d] = Idle THEN AfterDeck(d) ELSE DeckStage[d]
       PROVE  StageInv'
  <2>1. UNCHANGED <<rcv, ctr, centerRing, nextId, exe, scanPos>>
    BY <1>14, OthersKeep
  <2>2. rcv = <<>> /\ ctr = <<>> /\ centerRing = <<>> /\ exe = <<>> /\ stage # "guide"
    BY <1>1, <1>14, DeckStages
  <2>3. Offset' = 0
    BY <1>1, <1>3, <2>1, <2>2
  <2>4. \A c \in Deck : c # d => deck[c] = Idle /\ deck'[c] = deck[c]
    <3>1. ASSUME NEW c \in Deck, c # d PROVE deck'[c] = deck[c]
      BY <1>0, <1>14, <3>1 DEF DeckRun, DeckTake, DeckServe, DeckStore, DeckClear
    <3> QED BY <1>14, <3>1, DeckStages, DecksAtRest
  <2>5. IF Busy(d)' THEN stage' = DeckStage[d] ELSE deck'[d] = Idle
    <3>1. CASE DeckClear(d)
      <4>1. deck'[d] = Idle
        BY <1>0, <3>1 DEF DeckClear
      <4> QED BY <1>2, <4>1 DEF Busy
    <3>2. CASE ~ DeckClear(d)
      <4>1. deck'[d].step # "idle"
        BY <1>0, <1>14, <3>2, DeckGoesOn
      <4>2. deck'[d] # Idle
        BY <1>2, <4>1
      <4> QED BY <1>14, <4>1, <4>2 DEF Busy
    <3> QED BY <3>1, <3>2
  <2>6. \A c \in Deck : IF Busy(c)' THEN stage' = DeckStage[c] ELSE deck'[c] = Idle
    BY <1>2, <2>4, <2>5 DEF Busy
  <2> QED BY <2>1, <2>2, <2>3, <2>6 DEF StageInv
<1>15. CASE /\ stage = "execution" /\ Execution
            /\ stage' = IF exe' = <<>> THEN "user" ELSE "execution"
  <2>1. rcv = <<>> /\ ctr = <<>> /\ centerRing = <<>>
    BY <1>1, <1>15
  <2>2. UNCHANGED <<rcv, ctr, centerRing, nextId, deck, scanPos>>
    BY <1>15, OthersKeep
  <2>3. Offset' = 0
    BY <1>1, <1>3, <1>15, <2>2
  <2>4. exe' # <<>> => stage' = "execution"
    BY <1>15
  <2> QED BY <1>5, <1>6, <1>15, <2>1, <2>2, <2>3, <2>4 DEF StageInv
<1> QED BY <1>7, <1>9, <1>10, <1>11, <1>12, <1>13, <1>14, <1>15, SyncSteps

-------------------------------------------------------------------------------
(***************************************************************************)
(* Steps that leave the entries, or those that wait, as they are.          *)
(***************************************************************************)

\* Outside the decks' turns none has its turn to come.
LEMMA NoneLate ==
  ASSUME stage \in {"user", "receiver", "center", "guide", "execution"}, NEW d \in Deck
  PROVE  ~ TurnToCome(d) /\ Late(d) = 0
BY DeckStages DEF TurnToCome, Late

\* The bound on the entries that wait.
LEMMA MostIs ==
  ASSUME NEW d
  PROVE  Most(d) \in {Scans - 1, Scans} /\ Most(d) \in Int /\ Scans \in Int
BY SpanIs DEF Most

\* The queues of a step that does not change who waits.
LEMMA SameWaiting ==
  ASSUME TypeOK, IdInv, QueueInv, PendingInv, UNCHANGED <<deckQueue, scanPos>>,
         \A d \in Deck : Waiting(d)' = Waiting(d),
         \A d \in Deck : \A p \in Waiting(d) : At(p)'.id = At(p).id,
         Tick' \in Int, Tick' <= Tick,
         \A d \in Deck : deckQueue[d] = <<>> \/ Late(d)' = Late(d),
         \A d \in Deck : Cardinality(Waiting(d)) <= Most(d)'
  PROVE  QueueInv' /\ PendingInv' /\ WaitingInv'
<1>1. \A b : Left(b)' = Left(b)
  BY DEF Left, Offset
<1>2. QueueInv'
  <2>1. ASSUME NEW d \in Deck, NEW k \in 1 .. Len(deckQueue'[d]),
               NEW p, p = deckQueue'[d][k]
        PROVE  p \in Waiting(d)' /\ Span(k) <= Left(p[1])' + Late(d)'
    <3>1. k \in 1 .. Len(deckQueue[d]) /\ p = deckQueue[d][k]
      BY <2>1
    <3>2. deckQueue[d] # <<>>
      BY <3>1
    <3>3. p \in Waiting(d) /\ Span(k) <= Left(p[1]) + Late(d)
      BY <3>1 DEF QueueInv
    <3>4. Late(d)' = Late(d) /\ Waiting(d)' = Waiting(d) /\ Left(p[1])' = Left(p[1])
      BY <1>1, <3>2
    <3> QED BY <3>3, <3>4
  <2>2. \A d \in Deck : \A k, m \in 1 .. Len(deckQueue'[d]) :
          k # m => deckQueue'[d][k] # deckQueue'[d][m]
    BY DEF QueueInv
  <2> QED BY <2>1, <2>2 DEF QueueInv
<1>3. PendingInv'
  <2>1. ASSUME NEW d \in Deck, NEW p \in Waiting(d)', ~ QueuedFor(d, p)'
        PROVE  Left(p[1])' + Span(Age(p)') < BUCKETS
    <3>1. p \in Waiting(d) /\ ~ QueuedFor(d, p) /\ p \in Pointer /\ Used(p)
      BY <2>1 DEF QueuedFor, Waiting, ReadyFor, Live, Used
    <3>2. Left(p[1]) + Span(Age(p)) < BUCKETS
      BY <3>1 DEF PendingInv
    <3>3. Age(p)' <= Age(p) /\ Age(p)' \in Int /\ Age(p) \in Int
      <4>1. At(p)'.id = At(p).id /\ At(p).id \in Int
        BY <3>1, EntryParts
      <4>2. Tick \in Int
        BY <3>1, AgesAre
      <4> QED BY <4>1, <4>2 DEF Age
    <3>4. Span(Age(p)') <= Span(Age(p)) /\ Span(Age(p)') \in Int /\ Span(Age(p)) \in Int
      BY <3>3, SpanIs
    <3>5. Left(p[1]) \in Nat /\ BUCKETS \in Nat
      BY <3>1, EntryParts, DistancesAre, PipelineConstants DEF Deck
    <3> QED BY <1>1, <3>2, <3>4, <3>5
  <2> QED BY <2>1 DEF PendingInv, Span
<1>4. WaitingInv'
  BY DEF WaitingInv
<1> QED BY <1>2, <1>3, <1>4

\* The entries and the decks do not change.
LEMMA SameEntries ==
  ASSUME EntryInv, UNCHANGED <<table, deck>>
  PROVE  /\ EntryInv' /\ \A d : Waiting(d)' = Waiting(d)
         /\ \A p : At(p)' = At(p)
         /\ \A d : Busy(d)' = Busy(d)
<1>1. \A p : At(p)' = At(p)
  BY DEF At
<1>2. \A d : Busy(d)' = Busy(d)
  BY DEF Busy
<1>3. EntryInv'
  BY <1>1, <1>2 DEF EntryInv, Out, Used, Live
<1>4. \A d : Waiting(d)' = Waiting(d)
  BY <1>1, <1>2 DEF Waiting, ReadyFor, Live
<1> QED BY <1>1, <1>2, <1>3, <1>4

\* Steps between the user program, Receiver and Center, and those of Execution
\* before it removes the entry.
LEMMA RoutingQuiet ==
  ASSUME SyncInv, TypeOK', UNCHANGED <<table, deck, deckQueue, scanPos>>,
         stage \in {"user", "receiver", "center", "execution"},
         stage' \in {"user", "receiver", "center", "guide", "execution"},
         Tick' <= Tick,
         stage = "center" /\ centerRing = <<>> =>
           stage' = "guide" \/ (stage' = "center" /\ centerRing' = <<>>)
  PROVE  RoutingInv'
<1>0. TypeOK /\ IdInv /\ EntryInv /\ QueueInv /\ PendingInv /\ WaitingInv
  BY DEF SyncInv, CoreInv, KeysInv, RoutingInv
<1>1. /\ EntryInv' /\ \A d : Waiting(d)' = Waiting(d)
      /\ \A p : At(p)' = At(p)
  BY <1>0, SameEntries
<1>2. \A d \in Deck : /\ ~ TurnToCome(d) /\ Late(d) = 0
                      /\ TurnToCome(d)' = FALSE /\ Late(d)' = 0
  <2>1. \A d \in Deck : ~ TurnToCome(d) /\ Late(d) = 0
    BY NoneLate
  <2>2. \A d \in Deck : ~ TurnToCome(d)'
    BY DeckStages DEF TurnToCome
  <2> QED BY <2>1, <2>2 DEF Late
<1>3. \A d \in Deck : Cardinality(Waiting(d)) <= Most(d)'
  <2>1. ASSUME NEW d \in Deck PROVE Most(d) <= Most(d)' /\ Most(d)' \in Int
    <3>1. Scans \in Nat /\ Scans > 0
      BY SpanIs
    <3>2. CASE stage = "center" /\ centerRing = <<>>
      <4>1. Most(d)' = Scans
        BY <3>2 DEF Most
      <4> QED BY <3>1, <4>1, MostIs
    <3>3. CASE ~ (stage = "center" /\ centerRing = <<>>)
      <4>1. Most(d) = Scans - 1
        BY <1>2, <3>3 DEF Most
      <4>2. Most(d)' \in {Scans - 1, Scans}
        BY DEF Most
      <4> QED BY <3>1, <4>1, <4>2
    <3> QED BY <3>2, <3>3
  <2>2. \A d \in Deck : /\ Cardinality(Waiting(d)) \in Nat
                        /\ Cardinality(Waiting(d)) <= Most(d) /\ Most(d) \in Int
    BY <1>0, WaitingFinite, MostIs DEF WaitingInv
  <2> QED BY <2>1, <2>2
<1>4. Tick' \in Int
  <2>1. nextId' \in 1 .. MaxEvents + 1
    BY TypePartsNext DEF ReceiverTyped
  <2> QED BY <2>1, PipelineConstants DEF Tick
<1>5. QueueInv' /\ PendingInv' /\ WaitingInv'
  BY <1>0, <1>1, <1>2, <1>3, <1>4, SameWaiting
<1> QED BY <1>1, <1>5 DEF RoutingInv

-------------------------------------------------------------------------------
(***************************************************************************)
(* Center's insertion and Execution's removal.                             *)
(***************************************************************************)

\* What EntryInv says when no deck is at work.
LEMMA EntryAtRest ==
  ASSUME \A d \in Deck : ~ Busy(d)
  PROVE  EntryInv <=>
           /\ \A p \in Pointer : \A i \in 2 .. STEPS : At(p).prefixes[i] = NONE
           /\ \A p \in Pointer : Out(p) => At(p).prefixes[1] = NONE
           /\ \A p \in Pointer : Live(p) /\ At(p).abort => At(p).prefixes[1] = NONE
<1>1. \A d \in Deck : deck[d].step = "idle"
  BY DEF Busy
<1> QED BY <1>1 DEF EntryInv, Busy

\* A new entry waits for the deck Center has determined, and has one route.
LEMMA NewEntryRoute ==
  ASSUME NEW ev \in Event, ev.id \in EventId
  PROVE  /\ NewEntry(ev).prefixes[1] = ev.kind.deck /\ ~ NewEntry(ev).abort
         /\ \A i \in 2 .. STEPS : NewEntry(ev).prefixes[i] = NONE
         /\ NewEntry(ev).results = [d \in Deck |-> 0]
         /\ NewEntry(ev) \in Entry /\ ev.kind.deck \in Deck
<1>1. 1 \in 1 .. STEPS /\ \A i \in 2 .. STEPS : i \in 1 .. STEPS /\ i # 1
  BY PipelineConstants
<1>2. ev.kind.deck \in Deck /\ ev.id \in EventId /\ ev.req \in Req
  BY DEF Event, Kind
<1>3. /\ NewEntry(ev).prefixes[1] = ev.kind.deck /\ ~ NewEntry(ev).abort
      /\ \A i \in 2 .. STEPS : NewEntry(ev).prefixes[i] = NONE
      /\ NewEntry(ev).results = [d \in Deck |-> 0]
  BY <1>1 DEF NewEntry, FreeEntry, Cleared
<1>4. NewEntry(ev) \in Entry
  BY <1>1, <1>2 DEF NewEntry, FreeEntry, Cleared, Entry, Routes
<1> QED BY <1>2, <1>3, <1>4

LEMMA RoutingInsert ==
  ASSUME SyncInv, TypeOK', NEW ev \in Event, ev = Head(centerRing), ev.id \in EventId,
         NEW p \in Pointer, Inserted(ev, p), CenterTake,
         stage = "center", stage' = "guide"
  PROVE  RoutingInv'
<1>0. /\ TypeOK /\ IdInv /\ EntryInv /\ QueueInv /\ PendingInv /\ WaitingInv /\ StageInv
      /\ centerRing \in Seq(Event)
  BY TypeParts DEF SyncInv, CoreInv, KeysInv, RoutingInv, CenterRingTyped
<1>1. /\ centerRing # <<>> /\ Len(centerRing) = 1 /\ centerRing[1] = ev
      /\ ev.id = nextId /\ rcv = <<>> /\ Offset = 0
  BY <1>0 DEF CenterTake, StageInv
<1>2. /\ UNCHANGED <<rcv, nextId, deck, deckQueue, scanPos>>
      /\ \A d \in Deck : ~ Busy(d) /\ ~ Busy(d)'
  <2>1. UNCHANGED <<rcv, nextId, deck, deckQueue, scanPos>>
    BY OthersKeep DEF Center
  <2>2. \A d \in Deck : ~ Busy(d)
    BY <1>0, DeckStages, DecksAtRest
  <2> QED BY <2>1, <2>2 DEF Busy
<1>3. /\ At(p).id = 0 /\ At(p)' = NewEntry(ev) /\ p[1] \in Bucket
      /\ \A q \in Pointer : q # p => At(q)' = At(q)
  BY DEF Inserted, OnlyAt, Pointer
<1>4. EntryInv'
  <2>1. \A q \in Pointer : \A i \in 2 .. STEPS : At(q)'.prefixes[i] = NONE
    BY <1>0, <1>3, NewEntryRoute DEF EntryInv
  <2>2. ASSUME NEW q \in Pointer
        PROVE  /\ Out(q)' => At(q)'.prefixes[1] = NONE
               /\ Live(q)' /\ At(q)'.abort => At(q)'.prefixes[1] = NONE
    <3>1. CASE q = p
      BY <1>3, <3>1, NewEntryIs, NewEntryRoute DEF Out, Live
    <3>2. CASE q # p
      BY <1>0, <1>2, <1>3, <3>2, EntryAtRest DEF Out, Live, Used
    <3> QED BY <3>1, <3>2
  <2>3. \A d \in Deck : deck'[d].step = "idle"
    BY <1>2 DEF Busy
  <2> QED BY <2>1, <2>2, <2>3 DEF EntryInv, Busy
<1>5. ASSUME NEW d \in Deck
      PROVE  /\ Waiting(d)' = IF ev.kind.deck = d THEN Waiting(d) \cup {p} ELSE Waiting(d)
             /\ p \notin Waiting(d)
  <2>1. p \notin Waiting(d)
    BY <1>3 DEF Waiting, ReadyFor, Live
  <2>2. \A q \in Pointer : q # p => (q \in Waiting(d)' <=> q \in Waiting(d))
    BY <1>2, <1>3 DEF Waiting, ReadyFor, Live
  <2>3. p \in Waiting(d)' <=> ev.kind.deck = d
    <3>1. NextPrefix(NewEntry(ev)) = NewEntry(ev).prefixes[1]
      BY NewEntryRoute, OneRoute
    <3> QED BY <1>2, <1>3, <3>1, NewEntryIs, NewEntryRoute DEF Waiting, ReadyFor, Live
  <2>4. Waiting(d)' \subseteq Pointer /\ Waiting(d) \subseteq Pointer
    BY DEF Waiting
  <2> QED BY <2>1, <2>2, <2>3, <2>4
<1>6. /\ \A d \in Deck : Late(d) = 0 /\ Late(d)' = 0
      /\ \A b : Left(b)' = Left(b)
      /\ Tick' = nextId /\ Tick = nextId
  <2>1. \A d \in Deck : ~ TurnToCome(d)'
    BY DeckStages DEF TurnToCome
  <2>2. \A d \in Deck : Late(d)' = 0
    BY <2>1 DEF Late
  <2> QED BY <1>2, <2>2, NoneLate DEF Left, Offset, Tick
<1>7. QueueInv'
  <2>1. ASSUME NEW d \in Deck, NEW k \in 1 .. Len(deckQueue'[d]),
               NEW q, q = deckQueue'[d][k]
        PROVE  q \in Waiting(d)' /\ Span(k) <= Left(q[1])' + Late(d)'
    <3>1. q \in Waiting(d) /\ Span(k) <= Left(q[1]) + Late(d)
      BY <1>0, <1>2, <2>1 DEF QueueInv
    <3>2. q \in Waiting(d)'
      BY <1>5, <3>1
    <3> QED BY <1>6, <3>1, <3>2
  <2>2. \A d \in Deck : \A k, m \in 1 .. Len(deckQueue'[d]) :
          k # m => deckQueue'[d][k] # deckQueue'[d][m]
    BY <1>0, <1>2 DEF QueueInv
  <2> QED BY <2>1, <2>2 DEF QueueInv
<1>8. PendingInv'
  <2>1. ASSUME NEW d \in Deck, NEW q \in Waiting(d)', ~ QueuedFor(d, q)'
        PROVE  Left(q[1])' + Span(Age(q)') < BUCKETS
    <3>1. CASE q = p
      <4>1. Age(p)' = 0
        <5>1. At(p)'.id = nextId /\ nextId \in Int
          BY <1>0, <1>1, <1>3, NewEntryIs, AgesAre
        <5> QED BY <1>6, <5>1 DEF Age
      <4>2. Left(p[1]) < BUCKETS
        <5>1. scanPos \in 0 .. BUCKETS - 1 /\ p[1] \in 0 .. BUCKETS - 1 /\ BUCKETS \in Nat
          BY <1>0, <1>3, DistancesAre, PipelineConstants DEF Deck
        <5> QED BY <1>1, <5>1 DEF Left
      <4>3. Left(p[1]) \in Nat /\ Span(0) = 0
        BY <1>0, <1>3, <2>1, DistancesAre, SpanIs
      <4> QED BY <1>6, <3>1, <4>1, <4>2, <4>3
    <3>2. CASE q # p
      <4>1. q \in Waiting(d) /\ ~ QueuedFor(d, q) /\ q \in Pointer
        BY <1>2, <1>5, <2>1, <3>2 DEF QueuedFor, Waiting
      <4>2. Left(q[1]) + Span(Age(q)) < BUCKETS
        BY <1>0, <4>1 DEF PendingInv
      <4>3. Age(q)' = Age(q)
        BY <1>3, <1>6, <3>2, <4>1 DEF Age
      <4> QED BY <1>6, <4>2, <4>3
    <3> QED BY <3>1, <3>2
  <2> QED BY <2>1 DEF PendingInv, Span
<1>9. WaitingInv'
  <2>1. ASSUME NEW d \in Deck PROVE Cardinality(Waiting(d)') <= Scans
    <3>1. Most(d) = Scans - 1
      BY <1>1, NoneLate DEF Most
    <3>2. Cardinality(Waiting(d)) <= Scans - 1 /\ Cardinality(Waiting(d)) \in Nat
          /\ IsFiniteSet(Waiting(d)) /\ Scans \in Nat
      BY <1>0, <3>1, WaitingFinite, SpanIs DEF WaitingInv
    <3>3. Cardinality(Waiting(d) \cup {p}) = Cardinality(Waiting(d)) + 1
      BY <1>5, <3>2, FS_AddElement
    <3>4. CASE ev.kind.deck = d
      BY <1>5, <3>2, <3>3, <3>4
    <3>5. CASE ev.kind.deck # d
      BY <1>5, <3>2, <3>5
    <3> QED BY <3>4, <3>5
  <2>2. \A d : Most(d)' = Scans
    BY DEF Most
  <2> QED BY <2>1, <2>2 DEF WaitingInv
<1> QED BY <1>4, <1>7, <1>8, <1>9 DEF RoutingInv

LEMMA RoutingRemove ==
  ASSUME SyncInv, TypeOK', ExecRemove, stage = "execution", stage' = "user"
  PROVE  RoutingInv'
<1>0. /\ TypeOK /\ KeysInv /\ IdInv /\ EntryInv /\ QueueInv /\ PendingInv /\ WaitingInv
      /\ StageInv
  BY DEF SyncInv, CoreInv, KeysInv, RoutingInv
<1>1. /\ UNCHANGED <<rcv, nextId, deck, deckQueue, scanPos>>
      /\ \A d \in Deck : ~ Busy(d) /\ ~ Busy(d)'
  <2>1. UNCHANGED <<rcv, nextId, deck, deckQueue, scanPos>>
    BY OthersKeep DEF Execution
  <2>2. \A d \in Deck : ~ Busy(d)
    BY <1>0, DeckStages, DecksAtRest
  <2> QED BY <2>1, <2>2 DEF Busy
<1>2. PICK p \in Pointer : p = exe[1].at /\ Removed(p)
  BY <1>0, RemoveGives
<1>3. /\ Out(p) /\ At(p)'.id = 0 /\ At(p)'.prefixes = At(p).prefixes
      /\ \A q \in Pointer : q # p => At(q)' = At(q)
  BY <1>0, <1>2 DEF Removed, OnlyAt, KeysInv, ExecInv, ExecRemove
<1>4. EntryInv'
  <2>1. \A q \in Pointer : \A i \in 2 .. STEPS : At(q)'.prefixes[i] = NONE
    BY <1>0, <1>3 DEF EntryInv
  <2>2. ASSUME NEW q \in Pointer
        PROVE  /\ Out(q)' => At(q)'.prefixes[1] = NONE
               /\ Live(q)' /\ At(q)'.abort => At(q)'.prefixes[1] = NONE
    BY <1>0, <1>1, <1>3, EntryAtRest DEF Out, Live, Used
  <2>3. \A d \in Deck : deck'[d].step = "idle"
    BY <1>1 DEF Busy
  <2> QED BY <2>1, <2>2, <2>3 DEF EntryInv, Busy
<1>5. ASSUME NEW d \in Deck
      PROVE  Waiting(d)' = Waiting(d) /\ \A q \in Waiting(d) : At(q)'.id = At(q).id
  <2>1. p \notin Waiting(d) /\ p \notin Waiting(d)'
    BY <1>3 DEF Waiting, ReadyFor, Live, Out
  <2>2. \A q \in Pointer : q # p => (q \in Waiting(d)' <=> q \in Waiting(d))
    BY <1>1, <1>3 DEF Waiting, ReadyFor, Live
  <2>3. Waiting(d)' \subseteq Pointer /\ Waiting(d) \subseteq Pointer
    BY DEF Waiting
  <2> QED BY <1>3, <2>1, <2>2, <2>3
<1>6. /\ \A d \in Deck : Late(d)' = Late(d)
      /\ \A d \in Deck : Cardinality(Waiting(d)) <= Most(d)'
      /\ Tick' = Tick /\ Tick \in Int
  <2>1. \A d \in Deck : ~ TurnToCome(d)' /\ ~ TurnToCome(d) /\ Late(d) = 0
    BY DeckStages, NoneLate DEF TurnToCome
  <2>2. \A d \in Deck : Most(d) = Most(d)' /\ Late(d)' = 0
    BY <2>1 DEF Most, Late
  <2>3. Tick' = Tick /\ Tick \in Int
    BY <1>0, <1>1, <1>2, AgesAre DEF Tick
  <2> QED BY <1>0, <2>1, <2>2, <2>3 DEF WaitingInv
<1>7. QueueInv' /\ PendingInv' /\ WaitingInv'
  BY <1>0, <1>1, <1>5, <1>6, SameWaiting
<1> QED BY <1>4, <1>7 DEF RoutingInv

-------------------------------------------------------------------------------
(***************************************************************************)
(* The Guide's scan.                                                       *)
(***************************************************************************)

\* InOrder lists all of the slots.
LEMMA InOrderCovers ==
  ASSUME NEW slots \in SUBSET (1 .. CAPACITY), NEW i \in slots
  PROVE  \E k \in 1 .. Cardinality(slots) : InOrder(slots)[k] = i
<1> DEFINE n == Cardinality(slots)
<1>1. n \in Nat /\ IsFiniteSet(slots)
  BY InOrderLists
<1>2. InOrder(slots) \in Injection(1 .. n, slots)
  BY InOrderLists DEF Injection, IsInjective
<1>3. Cardinality(1 .. n) = n
  BY <1>1, FS_Interval
<1>4. InOrder(slots) \in Surjection(1 .. n, slots)
  BY <1>1, <1>2, <1>3, FS_Injection
<1> QED BY <1>4 DEF Surjection

\* Only a finished entry changes, and only its state.
LEMMA ScanEntries ==
  ASSUME TypeOK, EntryInv, \A d \in Deck : ~ Busy(d), GuideScan, NEW p \in Pointer
  PROVE  /\ At(p)'.id = At(p).id /\ At(p)'.req = At(p).req
         /\ At(p)'.prefixes = At(p).prefixes /\ At(p)'.abort = At(p).abort
         /\ At(p)'.results = At(p).results
         /\ At(p)'.state = "processing" => At(p).state = "processing"
         /\ ~ Finished(p) => At(p)' = At(p)
         /\ Finished(p) => At(p).prefixes[1] = NONE /\ At(p).state = "processing"
<1> DEFINE b == scanPos
<1> DEFINE finished == {i \in 1 .. CAPACITY : Finished(<<b, i>>)}
<1> DEFINE taken == {<<b, InOrder(finished)[k]>> : k \in Pushed(execQueue, finished)}
<1>1. /\ At(p) \in Entry /\ p[1] \in Bucket /\ p[2] \in 1 .. CAPACITY
      /\ table \in [Bucket -> [1 .. CAPACITY -> Entry]] /\ b \in Bucket
      /\ execQueue \in Seq(Pointer) /\ Len(execQueue) <= QUEUE
  BY EntryParts, TypeParts DEF TableTyped, QueuesTyped
<1>2. NextPrefix(At(p)) = At(p).prefixes[1]
  BY <1>1, OneRoute DEF EntryInv
<1>3. Finished(p) => At(p).prefixes[1] = NONE /\ At(p).state = "processing"
  BY <1>2, EntryAtRest DEF Finished, Live
<1>4. table' = [table EXCEPT ![b] =
                  [i \in 1 .. CAPACITY |-> Scanned(<<b, i>>, taken)]]
  BY DEF GuideScan
<1>5. \A x \in taken : Finished(x)
  <2>1. \A k \in Pushed(execQueue, finished) : InOrder(finished)[k] \in finished
    <3>1. finished \in SUBSET (1 .. CAPACITY)
      OBVIOUS
    <3> HIDE DEF finished, b
    <3> QED BY <1>1, <3>1, PushAllGives
  <2> QED BY <2>1
<1> HIDE DEF taken
<1>6. CASE p[1] # b
  <2>1. At(p)' = At(p)
    BY <1>1, <1>4, <1>6 DEF At
  <2> QED BY <1>3, <2>1
<1>7. CASE p[1] = b
  <2>1. p = <<b, p[2]>>
    BY <1>7 DEF Pointer
  <2>2. At(p)' = Scanned(p, taken)
    <3> HIDE DEF b
    <3> QED BY <1>1, <1>4, <1>7, <2>1 DEF At
  <2>3. ~ (Finished(p) /\ NextPrefix(At(p)) # NONE)
    BY <1>2, <1>3
  <2>4. Scanned(p, taken) = [At(p) EXCEPT !.prefixes = At(p).prefixes,
                               !.state = IF p \notin taken THEN At(p).state ELSE "success"]
    BY <2>3 DEF Scanned
  <2>5. ~ Finished(p) => p \notin taken
    BY <1>5
  <2> QED BY <1>1, <1>3, <2>2, <2>4, <2>5 DEF Entry
<1> QED BY <1>6, <1>7

\* How far the buckets are after a scan: the scanned one is a round away.
LEMMA ScanDistances ==
  ASSUME TypeOK, \A d \in Deck : ~ Busy(d), GuideTurn, rcv = <<>>
  PROVE  \/ /\ \A b \in Bucket : Left(b)' = Left(b) + (IF b = scanPos THEN BUCKETS ELSE 0)
            /\ \A d \in Deck : Late(d)' = 0
            /\ Tick' = nextId
         \/ /\ \A b \in Bucket : Left(b)' + BATCH
                                   = Left(b) + (IF b = scanPos THEN BUCKETS ELSE 0)
            /\ \A d \in Deck : Late(d)' = BATCH
            /\ Tick' = nextId + 1
<1>1. /\ scanPos \in 0 .. BUCKETS - 1 /\ Offset \in 0 .. BATCH - 1
      /\ BATCH \in Nat /\ BATCH > 0 /\ BUCKETS \in Nat /\ BUCKETS > 0
      /\ NextScan = IF scanPos + 1 = BUCKETS THEN 0 ELSE scanPos + 1
      /\ NextScan % BATCH = IF Offset + 1 = BATCH THEN 0 ELSE Offset + 1
      /\ scanPos + 1 = BUCKETS => Offset + 1 = BATCH
  BY TypeParts, OffsetIs, PipelineConstants DEF QueuesTyped, Bucket
<1>2. /\ scanPos' = NextScan /\ Offset' = NextScan % BATCH
      /\ stage' = IF Offset' = 0 THEN DeckStage[1] ELSE "guide"
      /\ UNCHANGED <<rcv, nextId, deck>>
  BY OthersKeep DEF GuideTurn, GuideScan, Offset
<1>3. ASSUME NEW b \in Bucket
      PROVE  Left(b)' = Offset' + b - scanPos' + (IF b < scanPos' THEN BUCKETS ELSE 0)
  BY DEF Left
<1>4. CASE Offset + 1 # BATCH
  <2>1. scanPos' = scanPos + 1 /\ Offset' = Offset + 1 /\ stage' = "guide"
    BY <1>1, <1>2, <1>4
  <2>2. \A b \in Bucket : Left(b)' = Left(b) + (IF b = scanPos THEN BUCKETS ELSE 0)
    BY <1>1, <1>3, <2>1 DEF Left, Bucket
  <2>3. \A d \in Deck : Late(d)' = 0
    <3>1. \A d \in Deck : ~ TurnToCome(d)'
      BY <2>1, DeckStages DEF TurnToCome
    <3> QED BY <3>1 DEF Late
  <2>4. Tick' = nextId
    BY <1>2, <2>1 DEF Tick
  <2> QED BY <2>2, <2>3, <2>4
<1>5. CASE Offset + 1 = BATCH
  <2>1. Offset' = 0 /\ stage' = DeckStage[1]
    BY <1>1, <1>2, <1>5
  <2>2. \A b \in Bucket : Left(b)' + BATCH
                            = Left(b) + (IF b = scanPos THEN BUCKETS ELSE 0)
    <3>1. CASE scanPos + 1 = BUCKETS
      BY <1>1, <1>2, <1>3, <1>5, <2>1, <3>1 DEF Left, Bucket
    <3>2. CASE scanPos + 1 # BUCKETS
      BY <1>1, <1>2, <1>3, <1>5, <2>1, <3>2 DEF Left, Bucket
    <3> QED BY <3>1, <3>2
  <2>3. \A d \in Deck : Late(d)' = BATCH
    <3>1. 1 \in Deck /\ \A d \in Deck : 1 <= d
      BY DEF Deck
    <3>2. \A d \in Deck : ~ Busy(d)'
      BY <1>2 DEF Busy
    <3>3. \A d \in Deck : TurnToCome(d)'
      BY <2>1, <3>1, <3>2 DEF TurnToCome
    <3> QED BY <3>3 DEF Late
  <2>4. Tick' = nextId + 1
    BY <1>2, <2>1, DeckStages DEF Tick
  <2> QED BY <2>2, <2>3, <2>4
<1> QED BY <1>4, <1>5

\* A queue has room for all that wait in a bucket of which it holds none.
LEMMA RoomForAll ==
  ASSUME NEW S, IsFiniteSet(S), Cardinality(S) <= Scans,
         NEW q \in Seq(Pointer), Len(q) <= QUEUE, NEW b \in Bucket,
         NEW slots \in SUBSET (1 .. CAPACITY),
         \A k \in 1 .. Len(q) : q[k] \in S /\ q[k][1] # b,
         \A k, m \in 1 .. Len(q) : k # m => q[k] # q[m],
         \A i \in slots : <<b, i>> \in S
  PROVE  /\ Fit(q, slots) = Cardinality(slots)
         /\ Len(q) + Cardinality(slots) <= Scans
<1> DEFINE n == Len(q)
<1> DEFINE m == Cardinality(slots)
<1> DEFINE f == [j \in 1 .. n + m |-> IF j <= n THEN q[j] ELSE <<b, InOrder(slots)[j - n]>>]
<1>1. n \in Nat /\ m \in Nat /\ QUEUE \in Nat /\ Scans \in Nat /\ Scans <= QUEUE
  <2>1. n \in Nat
    OBVIOUS
  <2>2. m \in Nat
    BY InOrderLists
  <2> QED BY <2>1, <2>2, PipelineConstants, SpanIs
<1>2. /\ \A j \in 1 .. m : InOrder(slots)[j] \in slots
      /\ \A i, j \in 1 .. m : i # j => InOrder(slots)[i] # InOrder(slots)[j]
  BY InOrderLists
<1> HIDE DEF m
<1>3. ASSUME NEW j \in 1 .. n + m
      PROVE  f[j] \in S
  <2>1. CASE j <= n
    BY <1>1, <1>3, <2>1
  <2>2. CASE ~ (j <= n)
    <3>1. j - n \in 1 .. m
      BY <1>1, <2>2
    <3> QED BY <1>2, <2>2, <3>1
  <2> QED BY <2>1, <2>2
<1>4. ASSUME NEW i \in 1 .. n + m, NEW j \in 1 .. n + m, i # j
      PROVE  f[i] # f[j]
  <2>1. CASE i <= n /\ j <= n
    BY <1>1, <1>4, <2>1
  <2>2. CASE ~ (i <= n) /\ ~ (j <= n)
    <3>1. i - n \in 1 .. m /\ j - n \in 1 .. m /\ i - n # j - n
      BY <1>1, <1>4, <2>2
    <3>2. InOrder(slots)[i - n] # InOrder(slots)[j - n]
      BY <1>2, <3>1
    <3> QED BY <2>2, <3>2
  <2>3. CASE i <= n /\ ~ (j <= n)
    <3>1. f[i] = q[i] /\ q[i][1] # b /\ f[j] = <<b, InOrder(slots)[j - n]>>
      BY <1>1, <2>3
    <3> QED BY <3>1
  <2>4. CASE ~ (i <= n) /\ j <= n
    <3>1. f[j] = q[j] /\ q[j][1] # b /\ f[i] = <<b, InOrder(slots)[i - n]>>
      BY <1>1, <2>4
    <3> QED BY <3>1
  <2> QED BY <2>1, <2>2, <2>3, <2>4
<1>5. f \in Injection(1 .. n + m, S)
  BY <1>3, <1>4 DEF Injection, IsInjective
<1>6. Cardinality(1 .. n + m) = n + m /\ IsFiniteSet(1 .. n + m)
  <2>1. \A x \in Nat : Cardinality(1 .. x) = x /\ IsFiniteSet(1 .. x)
    <3>1. ASSUME NEW x \in Nat PROVE Cardinality(1 .. x) = x /\ IsFiniteSet(1 .. x)
      <4>1. 1 \in Int /\ x \in Int /\ (1 > x => x = 0)
        OBVIOUS
      <4>2. IsFiniteSet(1 .. x) /\ Cardinality(1 .. x) = IF 1 > x THEN 0 ELSE x - 1 + 1
        BY <4>1, FS_Interval
      <4> QED BY <4>1, <4>2
    <3> QED BY <3>1
  <2>2. n + m \in Nat
    BY <1>1
  <2> HIDE DEF n
  <2> QED BY <2>1, <2>2
<1>7. Cardinality(1 .. n + m) <= Cardinality(S)
  BY <1>5, FS_Injection
<1>8. Cardinality(S) \in Nat
  BY FS_CardinalityType
<1>9. n + m <= Scans
  BY <1>1, <1>6, <1>7, <1>8
<1>10. Fit(q, slots) = m
  BY <1>1, <1>9 DEF Fit, Room, m
<1> QED BY <1>9, <1>10 DEF m

LEMMA RoutingScan ==
  ASSUME SyncInv, TypeOK', GuideTurn
  PROVE  RoutingInv'
<1> DEFINE b == scanPos
<1> DEFINE slots(d) == {i \in 1 .. CAPACITY : ReadyFor(<<b, i>>, d)}
<1>0. /\ TypeOK /\ KeysInv /\ IdInv /\ EntryInv /\ QueueInv /\ PendingInv /\ WaitingInv
      /\ StageInv /\ stage = "guide" /\ GuideScan
  BY DEF SyncInv, CoreInv, KeysInv, RoutingInv, GuideTurn
<1>1. /\ UNCHANGED <<rcv, nextId, deck>>
      /\ \A d \in Deck : ~ Busy(d) /\ ~ Busy(d)' /\ Late(d) = 0
      /\ rcv = <<>> /\ Tick = nextId
  <2>1. UNCHANGED <<rcv, nextId, deck>>
    BY <1>0, OthersKeep
  <2>2. \A d \in Deck : ~ Busy(d)
    BY <1>0, DeckStages, DecksAtRest
  <2>3. rcv = <<>> /\ Tick = nextId
    BY <1>0 DEF StageInv, Tick
  <2> QED BY <1>0, <2>1, <2>2, <2>3, NoneLate DEF Busy
<1>2. /\ b \in Bucket /\ b \in 0 .. BUCKETS - 1 /\ Offset \in 0 .. BATCH - 1
      /\ Left(b) = Offset /\ BUCKETS \in Nat /\ BATCH \in Nat
  <2>1. b \in Bucket /\ BUCKETS \in Nat /\ BATCH \in Nat
    BY <1>0, TypeParts, PipelineConstants DEF QueuesTyped
  <2>2. b \in 0 .. BUCKETS - 1 /\ Offset \in 0 .. BATCH - 1
    BY <1>0, <2>1, DistancesAre DEF Deck
  <2> QED BY <2>1, <2>2 DEF Left
<1>3. ASSUME NEW p \in Pointer
      PROVE  /\ At(p)'.id = At(p).id
             /\ At(p)'.prefixes = At(p).prefixes /\ At(p)'.abort = At(p).abort
             /\ At(p)'.state = "processing" => At(p).state = "processing"
             /\ ~ Finished(p) => At(p)' = At(p)
             /\ Finished(p) => At(p).prefixes[1] = NONE /\ At(p).state = "processing"
  BY <1>0, <1>1, ScanEntries
<1>4. EntryInv'
  <2>1. \A q \in Pointer : \A i \in 2 .. STEPS : At(q)'.prefixes[i] = NONE
    BY <1>0, <1>3 DEF EntryInv
  <2>2. ASSUME NEW q \in Pointer
        PROVE  /\ Out(q)' => At(q)'.prefixes[1] = NONE
               /\ Live(q)' /\ At(q)'.abort => At(q)'.prefixes[1] = NONE
    <3>1. CASE Finished(q)
      BY <1>3, <3>1
    <3>2. CASE ~ Finished(q)
      BY <1>0, <1>1, <1>3, <3>2, EntryAtRest DEF Out, Live, Used
    <3> QED BY <3>1, <3>2
  <2>3. \A d \in Deck : deck'[d].step = "idle"
    BY <1>1 DEF Busy
  <2> QED BY <2>1, <2>2, <2>3 DEF EntryInv, Busy
<1>5. ASSUME NEW d \in Deck PROVE Waiting(d)' = Waiting(d)
  <2>1. ASSUME NEW q \in Pointer PROVE ReadyFor(q, d)' <=> ReadyFor(q, d)
    <3>1. CASE Finished(q)
      <4>1. NextPrefix(At(q)) = NONE /\ NextPrefix(At(q)') = NONE
        <5>1. \A i \in 2 .. STEPS : At(q).prefixes[i] = NONE
          BY <1>0 DEF EntryInv
        <5>2. \A i \in 2 .. STEPS : At(q)'.prefixes[i] = NONE
          BY <1>3, <5>1
        <5>3. At(q) \in Entry /\ At(q)' \in Entry
          <6>1. table' \in [Bucket -> [1 .. CAPACITY -> Entry]]
            BY TypePartsNext DEF TableTyped
          <6>2. q[1] \in Bucket /\ q[2] \in 1 .. CAPACITY
            BY DEF Pointer
          <6> QED BY <1>0, <6>1, <6>2, EntryParts DEF At
        <5>4. NextPrefix(At(q)) = At(q).prefixes[1]
          BY <5>1, <5>3, OneRoute
        <5>5. NextPrefix(At(q)') = At(q)'.prefixes[1]
          <6>1. \A e \in Entry : (\A i \in 2 .. STEPS : e.prefixes[i] = NONE)
                  => NextPrefix(e) = e.prefixes[1]
            BY OneRoute
          <6> QED BY <5>2, <5>3, <6>1
        <5> QED BY <1>3, <3>1, <5>4, <5>5
      <4>2. d # NONE
        BY DEF Deck, NONE
      <4> QED BY <4>1, <4>2 DEF ReadyFor
    <3>2. CASE ~ Finished(q)
      BY <1>3, <3>2 DEF ReadyFor, Live
    <3> QED BY <3>1, <3>2
  <2>2. \A q : ~ (Busy(d) /\ deck[d].at = q) /\ ~ (Busy(d) /\ deck[d].at = q)'
    BY <1>1
  <2> QED BY <2>1, <2>2 DEF Waiting
<1>6. ASSUME NEW d \in Deck, NEW q \in Pointer, q[1] = b
      PROVE  q \in Waiting(d) <=> q[2] \in slots(d)
  <2>1. q = <<b, q[2]>> /\ q[2] \in 1 .. CAPACITY
    BY <1>6 DEF Pointer
  <2> QED BY <1>1, <1>6, <2>1 DEF Waiting
<1>7. ASSUME NEW d \in Deck
      PROVE  /\ \A k \in 1 .. Len(deckQueue[d]) :
                  deckQueue[d][k] \in Waiting(d) /\ deckQueue[d][k][1] # b
             /\ \A i \in slots(d) : <<b, i>> \in Waiting(d)
             /\ deckQueue[d] \in Seq(Pointer) /\ Len(deckQueue[d]) <= QUEUE
             /\ slots(d) \in SUBSET (1 .. CAPACITY)
             /\ IsFiniteSet(Waiting(d)) /\ Cardinality(Waiting(d)) <= Scans
             /\ deckQueue'[d] = PushAll(deckQueue[d], b, slots(d))
  <2>1. ASSUME NEW k \in 1 .. Len(deckQueue[d])
        PROVE  deckQueue[d][k] \in Waiting(d) /\ deckQueue[d][k][1] # b
    <3>1. PICK q : q = deckQueue[d][k]
      OBVIOUS
    <3>2. q \in Waiting(d) /\ Span(k) <= Left(q[1]) + Late(d)
      BY <1>0, <2>1, <3>1 DEF QueueInv
    <3>3. q[1] \in Bucket /\ Left(q[1]) \in Nat
      BY <1>0, <3>2, EntryParts, DistancesAre DEF Waiting
    <3>4. k \in Int /\ 1 \in Int /\ 1 <= k
      BY <2>1
    <3>5. Span(1) <= Span(k) /\ Span(1) = BATCH /\ Span(k) \in Int
      BY <3>4, SpanIs
    <3> QED BY <1>1, <1>2, <3>1, <3>2, <3>3, <3>5
  <2>2. ASSUME NEW i \in slots(d) PROVE <<b, i>> \in Waiting(d)
    <3>1. <<b, i>> \in Pointer /\ <<b, i>>[1] = b /\ <<b, i>>[2] = i
      BY <1>2, <2>2 DEF Pointer
    <3> QED BY <1>6, <2>2, <3>1
  <2>3. deckQueue[d] \in Seq(Pointer) /\ Len(deckQueue[d]) <= QUEUE
    BY <1>0, TypeParts DEF QueuesTyped
  <2>4. Cardinality(Waiting(d)) <= Scans
    BY <1>0 DEF WaitingInv, Most
  <2>5. deckQueue'[d] = PushAll(deckQueue[d], b, slots(d))
    BY <1>0 DEF GuideScan
  <2> QED BY <2>1, <2>2, <2>3, <2>4, <2>5, WaitingFinite
<1> HIDE DEF slots
<1>8. ASSUME NEW d \in Deck
      PROVE  /\ Fit(deckQueue[d], slots(d)) = Cardinality(slots(d))
             /\ Len(deckQueue[d]) + Cardinality(slots(d)) <= Scans
             /\ Cardinality(slots(d)) \in Nat
  <2>1. \A k, m \in 1 .. Len(deckQueue[d]) : k # m => deckQueue[d][k] # deckQueue[d][m]
    BY <1>0 DEF QueueInv
  <2>2. Cardinality(slots(d)) \in Nat
    BY <1>7, InOrderLists
  <2> QED BY <1>2, <1>7, <2>1, <2>2, RoomForAll
<1>9. ASSUME NEW d \in Deck
      PROVE  /\ Len(deckQueue'[d]) = Len(deckQueue[d]) + Cardinality(slots(d))
             /\ \A k \in 1 .. Len(deckQueue[d]) : deckQueue'[d][k] = deckQueue[d][k]
             /\ \A j \in 1 .. Cardinality(slots(d)) :
                  /\ deckQueue'[d][Len(deckQueue[d]) + j] = <<b, InOrder(slots(d))[j]>>
                  /\ InOrder(slots(d))[j] \in slots(d)
             /\ \A i, j \in 1 .. Cardinality(slots(d)) :
                  i # j => InOrder(slots(d))[i] # InOrder(slots(d))[j]
  <2> DEFINE q == deckQueue[d]
  <2> DEFINE s == slots(d)
  <2>1. q \in Seq(Pointer) /\ Len(q) <= QUEUE /\ s \in SUBSET (1 .. CAPACITY)
    BY <1>7
  <2>2. deckQueue'[d] = PushAll(q, b, s) /\ Fit(q, s) = Cardinality(s)
    BY <1>7, <1>8
  <2> HIDE DEF q, s, b
  <2>3. /\ Len(PushAll(q, b, s)) = Len(q) + Cardinality(s)
        /\ \A k \in 1 .. Len(q) : PushAll(q, b, s)[k] = q[k]
        /\ \A j \in 1 .. Cardinality(s) :
             /\ PushAll(q, b, s)[Len(q) + j] = <<b, InOrder(s)[j]>>
             /\ InOrder(s)[j] \in s
        /\ \A i, j \in 1 .. Cardinality(s) : i # j => InOrder(s)[i] # InOrder(s)[j]
    BY <1>2, <2>1, <2>2, PushAllGives
  <2> QED BY <2>2, <2>3 DEF q, s
<1>10. \/ /\ \A x \in Bucket : Left(x)' = Left(x) + (IF x = b THEN BUCKETS ELSE 0)
          /\ \A d \in Deck : Late(d)' = 0
          /\ Tick' = nextId
       \/ /\ \A x \in Bucket : Left(x)' + BATCH = Left(x) + (IF x = b THEN BUCKETS ELSE 0)
          /\ \A d \in Deck : Late(d)' = BATCH
          /\ Tick' = nextId + 1
  BY <1>0, <1>1, ScanDistances
<1> HIDE DEF b
<1>11. QueueInv'
  <2>1. ASSUME NEW d \in Deck, NEW k \in 1 .. Len(deckQueue'[d]),
               NEW q, q = deckQueue'[d][k]
        PROVE  q \in Waiting(d)' /\ Span(k) <= Left(q[1])' + Late(d)'
    <3> DEFINE n == Len(deckQueue[d])
    <3>0. n \in Nat /\ Cardinality(slots(d)) \in Nat
          /\ Len(deckQueue'[d]) = n + Cardinality(slots(d))
      BY <1>7, <1>8, <1>9
    <3>1. CASE k <= n
      <4>1. k \in 1 .. n /\ q = deckQueue[d][k]
        BY <1>9, <2>1, <3>0, <3>1
      <4>2. q \in Waiting(d) /\ q[1] # b /\ Span(k) <= Left(q[1]) + Late(d)
        BY <1>0, <1>7, <4>1 DEF QueueInv
      <4>3. q[1] \in Bucket /\ Left(q[1]) \in Nat /\ Span(k) \in Int
        <5>1. q[1] \in Bucket /\ Left(q[1]) \in Nat
          BY <1>0, <4>2, EntryParts, DistancesAre DEF Waiting
        <5>2. k \in Int
          BY <4>1
        <5> QED BY <5>1, <5>2, SpanIs
      <4>4. Left(q[1])' + Late(d)' = Left(q[1])
        <5>1. \/ Left(q[1])' = Left(q[1]) /\ Late(d)' = 0
              \/ Left(q[1])' + BATCH = Left(q[1]) /\ Late(d)' = BATCH
          <6>1. \/ Left(q[1])' = Left(q[1]) + 0 /\ Late(d)' = 0
                \/ Left(q[1])' + BATCH = Left(q[1]) + 0 /\ Late(d)' = BATCH
            BY <1>10, <4>2, <4>3
          <6> QED BY <4>3, <6>1
        <5> QED BY <4>3, <5>1
      <4> QED BY <1>1, <1>5, <4>2, <4>3, <4>4
    <3>2. CASE ~ (k <= n)
      <4>1. PICK j \in 1 .. Cardinality(slots(d)) : k = n + j
        <5>1. k - n \in 1 .. Cardinality(slots(d)) /\ k = n + (k - n)
          BY <3>0, <3>2
        <5> QED BY <5>1
      <4>2. q = <<b, InOrder(slots(d))[j]>> /\ InOrder(slots(d))[j] \in slots(d)
        BY <1>9, <2>1, <4>1
      <4>3. q \in Waiting(d) /\ q[1] = b
        BY <1>7, <4>2
      <4>4. Left(q[1])' + Late(d)' = Left(b) + BUCKETS /\ Left(b) \in Nat
        BY <1>2, <1>10, <4>3
      <4>5. Span(k) <= BUCKETS /\ Span(k) \in Int
        <5>1. k <= Scans /\ k \in Int /\ Scans \in Int
          <6>1. Scans \in Int
            BY SpanIs
          <6>2. n + Cardinality(slots(d)) <= Scans
            BY <1>8
          <6> HIDE DEF n
          <6> QED BY <3>0, <4>1, <6>1, <6>2
        <5> QED BY <5>1, SpanIs
      <4> QED BY <1>2, <1>5, <4>3, <4>4, <4>5
    <3> QED BY <3>1, <3>2
  <2>2. ASSUME NEW d \in Deck, NEW k \in 1 .. Len(deckQueue'[d]),
               NEW m \in 1 .. Len(deckQueue'[d]), k < m
        PROVE  deckQueue'[d][k] # deckQueue'[d][m]
    <3> DEFINE n == Len(deckQueue[d])
    <3>0. n \in Nat /\ Cardinality(slots(d)) \in Nat
          /\ Len(deckQueue'[d]) = n + Cardinality(slots(d))
      BY <1>7, <1>8, <1>9
    <3>1. ASSUME NEW x \in 1 .. Len(deckQueue'[d])
          PROVE  \/ /\ x \in 1 .. n /\ deckQueue'[d][x] = deckQueue[d][x]
                    /\ deckQueue'[d][x][1] # b
                 \/ /\ x - n \in 1 .. Cardinality(slots(d)) /\ ~ (x <= n)
                    /\ deckQueue'[d][x] = <<b, InOrder(slots(d))[x - n]>>
      <4>1. CASE x <= n
        BY SMTT(20), <1>7, <1>9, <3>0, <4>1
      <4>2. CASE ~ (x <= n)
        <5>1. x - n \in 1 .. Cardinality(slots(d)) /\ x = n + (x - n)
          BY <3>0, <4>2
        <5> QED BY <1>9, <4>2, <5>1
      <4> QED BY <4>1, <4>2
    <3>2. CASE m <= n
      <4>1. k \in 1 .. n /\ m \in 1 .. n /\ k # m
        BY <2>2, <3>0, <3>2
      <4> QED BY <1>0, <1>9, <4>1 DEF QueueInv
    <3>3. CASE k <= n /\ ~ (m <= n)
      BY <3>0, <3>1, <3>3
    <3>4. CASE ~ (k <= n)
      <4>1. k - n \in 1 .. Cardinality(slots(d)) /\ m - n \in 1 .. Cardinality(slots(d))
            /\ k - n # m - n
        BY <2>2, <3>0, <3>4
      <4>2. ~ (m <= n)
        BY <2>2, <3>0, <3>4
      <4>3. InOrder(slots(d))[k - n] # InOrder(slots(d))[m - n]
        BY <1>9, <4>1
      <4> QED BY <3>1, <3>4, <4>2, <4>3
    <3> QED BY <3>2, <3>3, <3>4
  <2>3. \A d \in Deck : \A k, m \in 1 .. Len(deckQueue'[d]) :
          k # m => deckQueue'[d][k] # deckQueue'[d][m]
    <3>1. \A d \in Deck : \A k, m \in 1 .. Len(deckQueue'[d]) : k # m => k < m \/ m < k
      OBVIOUS
    <3> QED BY <2>2, <3>1
  <2> QED BY <2>1, <2>3 DEF QueueInv
<1>12. PendingInv'
  <2>1. ASSUME NEW d \in Deck, NEW p \in Waiting(d)', ~ QueuedFor(d, p)'
        PROVE  Left(p[1])' + Span(Age(p)') < BUCKETS
    <3>1. p \in Waiting(d) /\ p \in Pointer /\ p[1] \in Bucket /\ p[2] \in 1 .. CAPACITY
      BY <1>0, <1>5, <2>1, EntryParts DEF Waiting
    <3>2. \A k \in 1 .. Len(deckQueue'[d]) : deckQueue'[d][k] # p
      BY <2>1 DEF QueuedFor
    <3>3. ~ QueuedFor(d, p)
      <4>1. ASSUME NEW k \in 1 .. Len(deckQueue[d]), deckQueue[d][k] = p PROVE FALSE
        <5>1. k \in 1 .. Len(deckQueue'[d])
          BY <1>7, <1>8, <1>9
        <5> QED BY <1>9, <3>2, <4>1, <5>1
      <4> QED BY <4>1 DEF QueuedFor
    <3>4. p[1] # b
      <4>1. SUFFICES ASSUME p[1] = b PROVE FALSE
        OBVIOUS
      <4>2. p[2] \in slots(d) /\ p = <<b, p[2]>>
        BY <1>6, <3>1, <4>1 DEF Pointer
      <4>3. PICK j \in 1 .. Cardinality(slots(d)) : InOrder(slots(d))[j] = p[2]
        BY <1>7, <4>2, InOrderCovers
      <4>4. deckQueue'[d][Len(deckQueue[d]) + j] = p
        BY ZenonT(30), <1>9, <4>2, <4>3
      <4>5. Len(deckQueue[d]) + j \in 1 .. Len(deckQueue'[d])
        BY <1>7, <1>8, <1>9
      <4> QED BY <3>2, <4>4, <4>5
    <3>5. Left(p[1]) + Span(Age(p)) < BUCKETS
      BY <1>0, <3>1, <3>3 DEF PendingInv
    <3>6. Age(p) \in Int /\ Span(Age(p)) \in Int /\ Left(p[1]) \in Nat
          /\ Span(Age(p) + 1) = Span(Age(p)) + BATCH
      BY <1>0, <2>1, <3>1, AgesAre, SpanIs, DistancesAre
    <3>7. Age(p)' = Tick' - At(p).id /\ Age(p) = nextId - At(p).id
          /\ At(p).id \in Int /\ nextId \in Int
      BY <1>0, <1>1, <1>3, <3>1, EntryParts, AgesAre DEF Age
    <3>8. CASE Tick' = nextId /\ Left(p[1])' = Left(p[1])
      BY <3>5, <3>7, <3>8
    <3>9. CASE Tick' = nextId + 1 /\ Left(p[1])' + BATCH = Left(p[1])
      <4>1. Age(p)' = Age(p) + 1
        BY <3>6, <3>7, <3>9
      <4>2. Left(p[1])' = Left(p[1]) - BATCH
        <5>1. scanPos' \in Bucket
          BY TypePartsNext DEF QueuesTyped
        <5>2. Left(p[1])' \in Int
          BY <1>2, <3>1, <5>1 DEF Left, Offset, Bucket
        <5> QED BY <1>2, <3>6, <3>9, <5>2
      <4> QED BY <1>2, <3>5, <3>6, <4>1, <4>2
    <3>10. \/ Tick' = nextId /\ Left(p[1])' = Left(p[1]) + 0
           \/ Tick' = nextId + 1 /\ Left(p[1])' + BATCH = Left(p[1]) + 0
      BY <1>10, <3>1, <3>4
    <3> QED BY <3>6, <3>8, <3>9, <3>10
  <2> QED BY <2>1 DEF PendingInv, Span
<1>13. WaitingInv'
  <2>1. \A d \in Deck : Most(d)' = Scans
    <3>1. CASE stage' = "guide"
      BY <3>1 DEF Most
    <3>2. CASE stage' = DeckStage[1]
      <4>1. 1 \in Deck /\ \A d \in Deck : 1 <= d
        BY DEF Deck
      <4>2. \A d \in Deck : TurnToCome(d)'
        BY <1>1, <3>2, <4>1 DEF TurnToCome
      <4> QED BY <4>2 DEF Most
    <3> QED BY <3>1, <3>2 DEF GuideTurn
  <2> QED BY <1>5, <1>7, <2>1 DEF WaitingInv
<1> QED BY <1>4, <1>11, <1>12, <1>13 DEF RoutingInv

-------------------------------------------------------------------------------
(***************************************************************************)
(* The turn of a deck.                                                     *)
(***************************************************************************)

\* A turn brings the other decks no nearer to theirs; what is late for the deck
\* is over when it has taken a pointer or its turn is over.
LEMMA TurnOfDeck ==
  ASSUME NEW d \in Deck, stage = DeckStage[d], stage' \in {DeckStage[d], AfterDeck(d)},
         \A c \in Deck : c # d => ~ Busy(c) /\ ~ Busy(c)'
  PROVE  /\ \A c \in Deck : c # d => Late(c)' = Late(c) /\ Most(c)' = Most(c)
         /\ Busy(d)' \/ stage' = AfterDeck(d) => Late(d)' = 0 /\ Most(d)' = Scans - 1
         /\ Busy(d) => Late(d) = 0 /\ Most(d) = Scans - 1
         /\ ~ Busy(d) => Late(d) = BATCH /\ Most(d) = Scans
         /\ stage' \notin {"user", "receiver", "center", "guide"}
<1>1. d \in 1 .. 4 /\ Deck = 1 .. 4
  BY DEF Deck
<1>2. stage \notin {"user", "receiver", "center", "guide", "execution"}
  BY DeckStages
<1>3. \/ stage' = DeckStage[d]
      \/ d = 4 /\ stage' = "execution"
      \/ d # 4 /\ d + 1 \in Deck /\ stage' = DeckStage[d + 1]
  BY <1>1 DEF AfterDeck
<1>4. stage' \notin {"user", "receiver", "center", "guide"}
  BY <1>3, DeckStages
<1>5. ASSUME NEW c \in Deck, c # d PROVE TurnToCome(c)' <=> TurnToCome(c)
  <2>1. TurnToCome(c) <=> d <= c
    BY <1>5, DeckStages DEF TurnToCome
  <2>2. CASE stage' = DeckStage[d]
    BY <1>5, <2>1, <2>2, DeckStages DEF TurnToCome
  <2>3. CASE d = 4 /\ stage' = "execution"
    <3>1. ~ (d <= c)
      BY <1>1, <1>5, <2>3
    <3>2. ~ TurnToCome(c)'
      BY <2>3, DeckStages DEF TurnToCome
    <3> QED BY <2>1, <3>1, <3>2
  <2>4. CASE d # 4 /\ d + 1 \in Deck /\ stage' = DeckStage[d + 1]
    <3>1. TurnToCome(c)' <=> d + 1 <= c
      <4>1. \A x \in Deck : stage' = DeckStage[x] <=> x = d + 1
        BY <2>4, DeckStages
      <4>2. ~ Busy(c)'
        BY <1>5
      <4> QED BY <2>4, <4>1, <4>2 DEF TurnToCome
    <3>2. d <= c <=> d + 1 <= c
      BY <1>1, <1>5
    <3> QED BY <2>1, <3>1, <3>2
  <2> QED BY <1>3, <2>2, <2>3, <2>4
<1>6. \A c \in Deck : c # d => Late(c)' = Late(c) /\ Most(c)' = Most(c)
  <2>1. ASSUME NEW c \in Deck, c # d PROVE Late(c)' = Late(c)
    BY <1>5, <2>1 DEF Late
  <2>2. ASSUME NEW c \in Deck, c # d PROVE Most(c)' = Most(c)
    BY <1>2, <1>4, <1>5, <2>2 DEF Most
  <2> QED BY <2>1, <2>2
<1>7. Busy(d)' \/ stage' = AfterDeck(d) => Late(d)' = 0 /\ Most(d)' = Scans - 1
  <2>1. ASSUME Busy(d)' \/ stage' = AfterDeck(d) PROVE ~ TurnToCome(d)'
    <3>1. CASE Busy(d)'
      BY <3>1 DEF TurnToCome
    <3>2. CASE d = 4 /\ stage' = "execution"
      BY <3>2, DeckStages DEF TurnToCome
    <3>3. CASE d # 4 /\ d + 1 \in Deck /\ stage' = DeckStage[d + 1]
      <4>1. \A x \in Deck : stage' = DeckStage[x] => x = d + 1
        BY <3>3, DeckStages
      <4>2. ~ (d + 1 <= d)
        BY <1>1
      <4> QED BY <4>1, <4>2 DEF TurnToCome
    <3> QED BY <1>1, <2>1, <3>1, <3>2, <3>3 DEF AfterDeck
  <2> QED BY <1>4, <2>1 DEF Late, Most
<1>8. Busy(d) => Late(d) = 0 /\ Most(d) = Scans - 1
  BY <1>2 DEF TurnToCome, Late, Most
<1>9. ~ Busy(d) => Late(d) = BATCH /\ Most(d) = Scans
  <2>1. d <= d
    BY <1>1
  <2>2. ~ Busy(d) => TurnToCome(d)
    BY <2>1 DEF TurnToCome
  <2> QED BY <2>2 DEF Late, Most
<1> QED BY <1>4, <1>6, <1>7, <1>8, <1>9

\* If none of those that wait is queued, they are younger than a round.
LEMMA PendingAreFew ==
  ASSUME TypeOK, IdInv, PendingInv, Tick = nextId + 1, NEW d \in Deck,
         \A p \in Waiting(d) : ~ QueuedFor(d, p)
  PROVE  Cardinality(Waiting(d)) <= Scans - 1
<1> DEFINE f == [p \in Waiting(d) |-> Age(p)]
<1>1. Scans \in Nat /\ Scans > 0 /\ BUCKETS \in Nat /\ nextId \in Nat
  <2>1. nextId \in 1 .. MaxEvents + 1
    BY TypeParts DEF ReceiverTyped
  <2> QED BY <2>1, SpanIs, PipelineConstants
<1>2. ASSUME NEW p \in Waiting(d)
      PROVE  Age(p) \in 1 .. Scans - 1 /\ p \in Pointer /\ Used(p)
  <2>1. p \in Pointer /\ Used(p) /\ p[1] \in Bucket
    BY <1>2, EntryParts DEF Waiting, ReadyFor, Live, Used
  <2>2. Left(p[1]) + Span(Age(p)) < BUCKETS
    BY <1>2 DEF PendingInv
  <2>3. Left(p[1]) \in Nat
    BY <2>1, DistancesAre
  <2>4. Age(p) \in Int /\ Span(Age(p)) \in Int
    BY <2>1, AgesAre, SpanIs
  <2>5. ~ (Span(Scans) <= Span(Age(p)))
    BY <1>1, <2>2, <2>3, <2>4, SpanIs
  <2>6. ~ (Scans <= Age(p))
    BY <1>1, <2>4, <2>5, SpanIs
  <2>7. At(p).id \in FirstId .. nextId
    BY <2>1 DEF IdInv
  <2>8. Age(p) >= 1
    BY <1>1, <2>7 DEF Age, FirstId
  <2> QED BY <1>1, <2>1, <2>4, <2>6, <2>8
<1>3. ASSUME NEW p \in Waiting(d), NEW q \in Waiting(d), p # q PROVE f[p] # f[q]
  <2>1. At(p).id # At(q).id
    BY <1>2, <1>3 DEF IdInv
  <2>2. At(p).id \in Int /\ At(q).id \in Int
    BY <1>2, EntryParts
  <2> QED BY <1>1, <2>1, <2>2 DEF Age
<1>4. f \in Injection(Waiting(d), 1 .. Scans - 1)
  BY <1>2, <1>3 DEF Injection, IsInjective
<1>5. IsFiniteSet(1 .. Scans - 1) /\ Cardinality(1 .. Scans - 1) = Scans - 1
  <2>1. 1 \in Int /\ Scans - 1 \in Int /\ (1 > Scans - 1 => Scans - 1 = 0)
    BY <1>1
  <2>2. /\ IsFiniteSet(1 .. Scans - 1)
        /\ Cardinality(1 .. Scans - 1)
             = IF 1 > Scans - 1 THEN 0 ELSE Scans - 1 - 1 + 1
    BY <2>1, FS_Interval
  <2> QED BY <1>1, <2>1, <2>2
<1>6. Cardinality(Waiting(d)) <= Cardinality(1 .. Scans - 1)
  BY <1>4, <1>5, FS_Injection
<1> QED BY <1>5, <1>6

LEMMA RoutingIdle ==
  ASSUME SyncInv, TypeOK', NEW d \in Deck, Pass(DeckStage[d], AfterDeck(d)),
         deck[d] = Idle, deckQueue[d] = <<>>
  PROVE  RoutingInv'
<1>0. /\ TypeOK /\ IdInv /\ EntryInv /\ QueueInv /\ PendingInv /\ WaitingInv /\ StageInv
      /\ stage = DeckStage[d] /\ stage' = AfterDeck(d)
      /\ UNCHANGED <<rcv, nextId, deck, deckQueue, scanPos, table>>
  BY OthersKeep DEF SyncInv, CoreInv, KeysInv, RoutingInv, Pass
<1>1. \A c \in Deck : ~ Busy(c) /\ ~ Busy(c)'
  <2>1. ~ Busy(d)
    BY DEF Busy, Idle
  <2>2. \A c \in Deck : ~ Busy(c)
    BY <1>0, <2>1, DeckStages, DecksAtRest
  <2> QED BY <1>0, <2>2 DEF Busy
<1>2. /\ EntryInv' /\ \A c : Waiting(c)' = Waiting(c)
      /\ \A p : At(p)' = At(p)
  BY <1>0, SameEntries
<1>3. /\ \A c \in Deck : c # d => Late(c)' = Late(c) /\ Most(c)' = Most(c)
      /\ Most(d)' = Scans - 1
      /\ stage' \notin {"center", "guide"}
  BY <1>0, <1>1, TurnOfDeck
<1>4. rcv = <<>> /\ Tick = nextId + 1 /\ Tick' = Tick /\ Tick \in Int
  <2>1. rcv = <<>> /\ stage \notin {"center", "guide"}
    BY <1>0, DeckStages DEF StageInv
  <2> QED BY <1>0, <1>3, <2>1, TypeParts DEF Tick, ReceiverTyped
<1>5. Cardinality(Waiting(d)) <= Scans - 1
  <2>1. \A p \in Waiting(d) : ~ QueuedFor(d, p)
    <3>1. Len(deckQueue[d]) = 0
      OBVIOUS
    <3> QED BY <3>1 DEF QueuedFor
  <2> QED BY <1>0, <1>4, <2>1, PendingAreFew
<1>6. \A c \in Deck : Cardinality(Waiting(c)) <= Most(c)'
  BY <1>0, <1>3, <1>5 DEF WaitingInv
<1>7. \A c \in Deck : deckQueue[c] = <<>> \/ Late(c)' = Late(c)
  BY <1>3
<1>8. Tick' \in Int /\ Tick' <= Tick
  BY <1>4
<1>9. QueueInv' /\ PendingInv' /\ WaitingInv'
  BY <1>0, <1>2, <1>6, <1>7, <1>8, SameWaiting
<1> QED BY <1>2, <1>9 DEF RoutingInv

\* What the steps of a deck in its turn have in common.
LEMMA DeckTurnKeeps ==
  ASSUME SyncInv, NEW d \in Deck, stage = DeckStage[d], DeckRun(d),
         stage' \in {DeckStage[d], AfterDeck(d)}
  PROVE  /\ TypeOK /\ IdInv /\ EntryInv /\ QueueInv /\ PendingInv /\ WaitingInv
         /\ \A c \in Deck : c # d => /\ deck'[c] = deck[c] /\ deck[c].step = "idle"
                                     /\ deckQueue'[c] = deckQueue[c]
                                     /\ ~ Busy(c) /\ ~ Busy(c)'
                                     /\ Late(c)' = Late(c) /\ Most(c)' = Most(c)
         /\ \A p \in Pointer : At(p)'.id = At(p).id
         /\ Tick' = Tick /\ Tick \in Int /\ UNCHANGED scanPos
<1>0. /\ TypeOK /\ IdInv /\ EntryInv /\ QueueInv /\ PendingInv /\ WaitingInv /\ StageInv
      /\ UNCHANGED <<rcv, nextId, scanPos>>
  BY OthersKeep DEF SyncInv, CoreInv, KeysInv, RoutingInv
<1>1. ASSUME NEW c \in Deck, c # d
      PROVE  /\ deck'[c] = deck[c] /\ deck[c].step = "idle"
             /\ deckQueue'[c] = deckQueue[c] /\ ~ Busy(c) /\ ~ Busy(c)'
  <2>1. /\ deck \in [Deck -> [step : {"idle", "serve", "store", "clear"}, at : Pointer,
                      req : {0} \cup Req, outcome : {"result", "empty", "error"}]]
        /\ deckQueue \in [Deck -> Seq(Pointer)]
    BY <1>0, TypeParts DEF DecksTyped, QueuesTyped
  <2>2. deck'[c] = deck[c]
    BY <1>1, <2>1 DEF DeckRun, DeckTake, DeckServe, DeckStore, DeckClear
  <2>3. deckQueue'[c] = deckQueue[c]
    BY <1>1, <2>1 DEF DeckRun, DeckTake, DeckServe, DeckStore, DeckClear, guideVars
  <2>4. ~ Busy(c)
    BY <1>0, <1>1, DeckStages, DecksAtRest
  <2> QED BY <2>2, <2>3, <2>4 DEF Busy
<1>2. /\ \A c \in Deck : c # d => Late(c)' = Late(c) /\ Most(c)' = Most(c)
      /\ stage' \notin {"center", "guide"}
  BY <1>1, TurnOfDeck
<1>3. \A p \in Pointer : At(p)'.id = At(p).id
  BY <1>0, DeckKeeps DEF SameKeys
<1>4. Tick' = Tick /\ Tick \in Int
  <2>1. stage \notin {"center", "guide"}
    BY DeckStages
  <2> QED BY <1>0, <1>2, <2>1, TypeParts DEF Tick, ReceiverTyped
<1> QED BY <1>0, <1>1, <1>2, <1>3, <1>4

\* A step of a deck that leaves the queue and those that wait as they are.
LEMMA SameWaitingInTurn ==
  ASSUME SyncInv, NEW d \in Deck, stage = DeckStage[d], DeckRun(d),
         stage' \in {DeckStage[d], AfterDeck(d)}, Busy(d),
         Busy(d)' \/ stage' = AfterDeck(d), UNCHANGED deckQueue,
         \A c \in Deck : Waiting(c)' = Waiting(c)
  PROVE  QueueInv' /\ PendingInv' /\ WaitingInv'
<1>0. /\ TypeOK /\ IdInv /\ EntryInv /\ QueueInv /\ PendingInv /\ WaitingInv
      /\ \A c \in Deck : c # d => /\ ~ Busy(c) /\ ~ Busy(c)'
                                  /\ Late(c)' = Late(c) /\ Most(c)' = Most(c)
      /\ \A p \in Pointer : At(p)'.id = At(p).id
      /\ Tick' = Tick /\ Tick \in Int /\ UNCHANGED scanPos
  BY DeckTurnKeeps
<1>1. Late(d)' = 0 /\ Most(d)' = Scans - 1 /\ Late(d) = 0 /\ Most(d) = Scans - 1
  BY <1>0, TurnOfDeck
<1>2. \A c \in Deck : deckQueue[c] = <<>> \/ Late(c)' = Late(c)
  BY <1>0, <1>1
<1>3. \A c \in Deck : Cardinality(Waiting(c)) <= Most(c)'
  BY <1>0, <1>1 DEF WaitingInv
<1>4. Tick' \in Int /\ Tick' <= Tick
  BY <1>0
<1>5. \A c \in Deck : \A p \in Waiting(c) : At(p)'.id = At(p).id
  BY <1>0 DEF Waiting
<1> QED BY <1>0, <1>2, <1>3, <1>4, <1>5, SameWaiting

LEMMA RoutingServe ==
  ASSUME SyncInv, TypeOK', NEW d \in Deck, stage = DeckStage[d],
         NEW o \in Outcomes, DeckServe(d, o), stage' = DeckStage[d]
  PROVE  RoutingInv'
<1>0. DeckRun(d) /\ EntryInv /\ UNCHANGED <<table, deckQueue>>
  BY DEF DeckRun, DeckServe, SyncInv, RoutingInv, tableVars, guideVars
<1>1. /\ TypeOK
      /\ \A c \in Deck : c # d => deck'[c] = deck[c] /\ deck[c].step = "idle"
  BY <1>0, DeckTurnKeeps
<1>2. /\ deck[d].step = "serve" /\ deck'[d].step = "store" /\ deck'[d].at = deck[d].at
      /\ deck'[d].req = At(deck[d].at).req
  BY <1>1, TypeParts DEF DeckServe, DecksTyped
<1>3. \A p : At(p)' = At(p)
  BY <1>0 DEF At
<1>4. Busy(d) /\ Busy(d)' /\ \A c \in Deck : Busy(c)' <=> Busy(c)
  BY <1>1, <1>2 DEF Busy
<1>5. \A c \in Deck : deck'[c].step = (IF c = d THEN "store" ELSE "idle")
                      /\ deck[c].step = (IF c = d THEN "serve" ELSE "idle")
  BY <1>1, <1>2
<1>6. EntryInv'
  <2>1. /\ \A p \in Pointer : \A i \in 2 .. STEPS : At(p)'.prefixes[i] = NONE
        /\ \A p \in Pointer : Out(p)' => At(p)'.prefixes[1] = NONE
    BY <1>0, <1>3 DEF EntryInv, Out, Used
  <2>2. \A p \in Pointer : ~ (Live(p)' /\ At(p)'.abort /\ At(p)'.prefixes[1] # NONE)
    <3>1. \A p \in Pointer : ~ (Live(p) /\ At(p).abort /\ At(p).prefixes[1] # NONE)
      BY <1>0, <1>5 DEF EntryInv
    <3> QED BY <1>3, <3>1 DEF Live
  <2>3. Live(deck[d].at) /\ At(deck[d].at).prefixes[1] = d
    BY <1>0, <1>4 DEF EntryInv
  <2>4. ASSUME NEW p, p = deck'[d].at
        PROVE  Live(p)' /\ At(p)'.prefixes[1] = d /\ deck'[d].req = At(p)'.req
    BY <1>2, <1>3, <2>3, <2>4 DEF Live
  <2> QED BY <1>5, <2>1, <2>2, <2>4 DEF EntryInv, Busy, Live, At
<1>7. \A c \in Deck : Waiting(c)' = Waiting(c)
  <2>1. \A c \in Deck : \A p : Busy(c)' /\ deck'[c].at = p <=> Busy(c) /\ deck[c].at = p
    BY <1>1, <1>2, <1>4
  <2> QED BY <1>3, <2>1 DEF Waiting, ReadyFor, Live
<1>8. QueueInv' /\ PendingInv' /\ WaitingInv'
  BY <1>0, <1>4, <1>7, SameWaitingInTurn
<1> QED BY <1>6, <1>8 DEF RoutingInv

\* What a deck writes into the entry it is at.
LEMMA StoreEntry ==
  ASSUME TypeOK, NEW d \in Deck, DeckStore(d), NEW p, p = deck[d].at
  PROVE  /\ p \in Pointer /\ OnlyAt(p)
         /\ deck'[d].step = "clear" /\ deck'[d].at = p /\ deck'[d].req = deck[d].req
         /\ At(p)'.prefixes = At(p).prefixes /\ At(p)'.state = At(p).state
         /\ At(p)'.id = At(p).id /\ At(p)'.req = At(p).req
         /\ \A c \in Deck : \/ At(p)'.results[c] = At(p).results[c]
                            \/ At(p)'.results[c] \in {0, deck[d].req}
<1> DEFINE result == IF deck[d].outcome = "result" THEN deck[d].req ELSE 0
<1>1. p \in Pointer /\ At(p) \in Entry
  BY TypeParts, EntryParts DEF DecksTyped
<1>2. PICK e : e = IF deck[d].outcome = "error"
                   THEN [At(p) EXCEPT !.abort = TRUE]
                   ELSE [At(p) EXCEPT !.results[d] = result]
  OBVIOUS
<1>3. /\ e.id = At(p).id /\ e.req = At(p).req /\ e.state = At(p).state
      /\ e.prefixes = At(p).prefixes
  BY <1>1, <1>2 DEF Entry
<1>4. \A c \in Deck : e.results[c] = At(p).results[c] \/ e.results[c] \in {0, deck[d].req}
  BY <1>1, <1>2 DEF Entry
<1>5. table' = [table EXCEPT ![p[1]][p[2]] = e]
  BY <1>1, <1>2 DEF DeckStore, At
<1>6. At(p)' = e /\ OnlyAt(p)
  BY <1>1, <1>5, OneSlot
<1>7. deck'[d].step = "clear" /\ deck'[d].at = p /\ deck'[d].req = deck[d].req
  BY TypeParts DEF DeckStore, DecksTyped
<1> QED BY <1>1, <1>3, <1>4, <1>6, <1>7

LEMMA ClearEntry ==
  ASSUME TypeOK, EntryInv, NEW d \in Deck, DeckClear(d), NEW p, p = deck[d].at
  PROVE  /\ p \in Pointer /\ OnlyAt(p) /\ deck'[d] = Idle
         /\ At(p)'.prefixes = [At(p).prefixes EXCEPT ![1] = NONE]
         /\ At(p)'.state = At(p).state /\ At(p)'.abort = At(p).abort
         /\ At(p)'.id = At(p).id /\ At(p)'.req = At(p).req
         /\ At(p)'.results = At(p).results
         /\ Live(p) /\ At(p).prefixes[1] = d
<1>1. p \in Pointer /\ At(p) \in Entry
  BY TypeParts, EntryParts DEF DecksTyped
<1>2. Live(p) /\ At(p).prefixes[1] = d
  BY DEF DeckClear, EntryInv, Busy
<1>3. PICK e : e = ClearPrefix(At(p), d)
  OBVIOUS
<1>4. e = [At(p) EXCEPT !.prefixes[1] = NONE]
  BY <1>1, <1>2, <1>3, OneRoute DEF EntryInv
<1>5. /\ e.prefixes = [At(p).prefixes EXCEPT ![1] = NONE]
      /\ e.state = At(p).state /\ e.abort = At(p).abort
      /\ e.id = At(p).id /\ e.req = At(p).req /\ e.results = At(p).results
  BY <1>1, <1>4 DEF Entry
<1>6. table' = [table EXCEPT ![p[1]][p[2]] = e]
  BY <1>1, <1>3 DEF DeckClear, At
<1>7. At(p)' = e /\ OnlyAt(p)
  BY <1>1, <1>6, OneSlot
<1>8. deck'[d] = Idle
  BY TypeParts DEF DeckClear, DecksTyped
<1> QED BY <1>1, <1>2, <1>5, <1>7, <1>8

LEMMA RoutingStore ==
  ASSUME SyncInv, TypeOK', NEW d \in Deck, stage = DeckStage[d],
         DeckStore(d), stage' = DeckStage[d]
  PROVE  RoutingInv'
<1>0. DeckRun(d) /\ EntryInv /\ UNCHANGED deckQueue
  BY DEF DeckRun, DeckStore, SyncInv, RoutingInv, guideVars
<1>1. /\ TypeOK
      /\ \A c \in Deck : c # d => deck'[c] = deck[c] /\ deck[c].step = "idle"
  BY <1>0, DeckTurnKeeps
<1>2. PICK p : p = deck[d].at
  OBVIOUS
<1>3. /\ p \in Pointer
      /\ \A q \in Pointer : q # p => At(q)' = At(q)
      /\ deck[d].step = "store" /\ deck'[d].step = "clear" /\ deck'[d].at = p
      /\ deck'[d].req = deck[d].req
      /\ At(p)'.prefixes = At(p).prefixes /\ At(p)'.state = At(p).state
      /\ At(p)'.id = At(p).id /\ At(p)'.req = At(p).req
  <2>1. /\ p \in Pointer /\ OnlyAt(p)
        /\ deck'[d].step = "clear" /\ deck'[d].at = p /\ deck'[d].req = deck[d].req
        /\ At(p)'.prefixes = At(p).prefixes /\ At(p)'.state = At(p).state
        /\ At(p)'.id = At(p).id /\ At(p)'.req = At(p).req
    BY <1>1, <1>2, StoreEntry
  <2>2. deck[d].step = "store"
    BY DEF DeckStore
  <2> QED BY <2>1, <2>2 DEF OnlyAt
<1>4. Busy(d) /\ Busy(d)' /\ \A c \in Deck : Busy(c)' <=> Busy(c)
  BY <1>1, <1>3 DEF Busy
<1>5. \A c \in Deck : deck'[c].step = (IF c = d THEN "clear" ELSE "idle")
                      /\ deck[c].step = (IF c = d THEN "store" ELSE "idle")
  BY <1>1, <1>3
<1>6. Live(p) /\ At(p).prefixes[1] = d /\ deck[d].req = At(p).req
  BY <1>0, <1>2, <1>3, <1>4 DEF EntryInv
<1>7. Live(p)' /\ At(p)'.prefixes[1] = d /\ deck'[d].req = At(p)'.req
  BY <1>3, <1>6 DEF Live
<1>8. EntryInv'
  <2>1. \A q \in Pointer : \A i \in 2 .. STEPS : At(q)'.prefixes[i] = NONE
    BY <1>0, <1>3 DEF EntryInv
  <2>2. \A q \in Pointer : Out(q)' => At(q)'.prefixes[1] = NONE
    BY <1>0, <1>3 DEF EntryInv, Out, Used
  <2>3. \A q \in Pointer : Live(q)' /\ At(q)'.abort /\ At(q)'.prefixes[1] # NONE => q = p
    <3>1. \A q \in Pointer : ~ (Live(q) /\ At(q).abort /\ At(q).prefixes[1] # NONE)
      BY <1>0, <1>5 DEF EntryInv
    <3> QED BY <1>3, <3>1 DEF Live
  <2>4. \A q \in Pointer : Live(q)' /\ At(q)'.abort /\ At(q)'.prefixes[1] # NONE
          => deck'[d].step = "clear" /\ deck'[d].at = q
    BY <1>3, <2>3
  <2>5. \A q : q = deck'[d].at => Live(q)' /\ At(q)'.prefixes[1] = d
                                 /\ deck'[d].req = At(q)'.req
    BY <1>3, <1>7
  <2> QED BY SMTT(20), <1>5, <2>1, <2>2, <2>4, <2>5 DEF EntryInv, Busy, Live, At
<1>9. ASSUME NEW c \in Deck PROVE Waiting(c)' = Waiting(c)
  <2>1. \A q \in Pointer : Busy(c)' /\ deck'[c].at = q <=> Busy(c) /\ deck[c].at = q
    BY <1>1, <1>2, <1>3, <1>4
  <2>2. ASSUME NEW q \in Pointer PROVE q \in Waiting(c)' <=> q \in Waiting(c)
    <3>1. CASE q # p
      BY <1>3, <2>1, <3>1 DEF Waiting, ReadyFor, Live
    <3>2. CASE q = p /\ c = d
      BY <1>2, <1>3, <1>4, <3>2 DEF Waiting
    <3>3. CASE q = p /\ c # d
      <4>1. At(p) \in Entry /\ At(p)' \in Entry
        <5>1. table' \in [Bucket -> [1 .. CAPACITY -> Entry]]
          BY TypePartsNext DEF TableTyped
        <5>2. p[1] \in Bucket /\ p[2] \in 1 .. CAPACITY
          BY <1>3 DEF Pointer
        <5>3. At(p) \in Entry
          BY <1>1, <1>3, EntryParts
        <5>4. table'[p[1]][p[2]] \in Entry
          BY <5>1, <5>2
        <5> QED BY <5>3, <5>4 DEF At
      <4>2. NextPrefix(At(p)) = d /\ NextPrefix(At(p)') = d
        <5>1. \A e \in Entry : (\A i \in 2 .. STEPS : e.prefixes[i] = NONE)
                => NextPrefix(e) = e.prefixes[1]
          BY OneRoute
        <5>2. \A i \in 2 .. STEPS : At(p).prefixes[i] = NONE /\ At(p)'.prefixes[i] = NONE
          BY <1>0, <1>3 DEF EntryInv
        <5> QED BY <1>6, <1>7, <4>1, <5>1, <5>2
      <4> QED BY <3>3, <4>2 DEF Waiting, ReadyFor
    <3> QED BY <3>1, <3>2, <3>3
  <2>3. Waiting(c) \subseteq Pointer /\ Waiting(c)' \subseteq Pointer
    BY DEF Waiting
  <2> QED BY <2>2, <2>3
<1>10. QueueInv' /\ PendingInv' /\ WaitingInv'
  BY <1>0, <1>4, <1>9, SameWaitingInTurn
<1> QED BY <1>8, <1>10 DEF RoutingInv

LEMMA RoutingClear ==
  ASSUME SyncInv, TypeOK', NEW d \in Deck, stage = DeckStage[d],
         DeckClear(d), stage' = AfterDeck(d)
  PROVE  RoutingInv'
<1>0. DeckRun(d) /\ EntryInv /\ UNCHANGED deckQueue
  BY DEF DeckRun, DeckClear, SyncInv, RoutingInv, guideVars
<1>1. /\ TypeOK
      /\ \A c \in Deck : c # d => deck'[c] = deck[c] /\ deck[c].step = "idle"
  BY <1>0, DeckTurnKeeps
<1>2. PICK p : p = deck[d].at
  OBVIOUS
<1>3. /\ p \in Pointer
      /\ \A q \in Pointer : q # p => At(q)' = At(q)
      /\ deck[d].step = "clear" /\ deck'[d] = Idle
      /\ At(p)'.prefixes = [At(p).prefixes EXCEPT ![1] = NONE]
      /\ At(p)'.state = At(p).state
      /\ At(p)'.id = At(p).id /\ Live(p) /\ At(p).prefixes[1] = d
  <2>1. /\ p \in Pointer /\ OnlyAt(p) /\ deck'[d] = Idle
        /\ At(p)'.prefixes = [At(p).prefixes EXCEPT ![1] = NONE]
        /\ At(p)'.state = At(p).state
        /\ At(p)'.id = At(p).id /\ Live(p) /\ At(p).prefixes[1] = d
    BY <1>0, <1>1, <1>2, ClearEntry
  <2>2. deck[d].step = "clear"
    BY DEF DeckClear
  <2> QED BY <2>1, <2>2 DEF OnlyAt
<1>4. /\ Busy(d) /\ ~ Busy(d)'
      /\ \A c \in Deck : deck'[c].step = "idle"
      /\ \A c \in Deck : c # d => ~ Busy(c)
  BY <1>1, <1>3 DEF Busy, Idle
<1>5. At(p)'.prefixes[1] = NONE /\ \A i \in 2 .. STEPS : At(p)'.prefixes[i] = NONE
  <2>1. At(p).prefixes \in [1 .. STEPS -> {NONE} \cup Deck] /\ 1 \in 1 .. STEPS
    BY <1>1, <1>3, EntryParts, PipelineConstants
  <2>2. \A i \in 2 .. STEPS : At(p).prefixes[i] = NONE /\ i \in 1 .. STEPS
    BY <1>0, <1>3, PipelineConstants DEF EntryInv
  <2> QED BY <1>3, <2>1, <2>2
<1>6. EntryInv'
  <2>1. \A q \in Pointer : \A i \in 2 .. STEPS : At(q)'.prefixes[i] = NONE
    <3>1. ASSUME NEW q \in Pointer, q # p
          PROVE  \A i \in 2 .. STEPS : At(q)'.prefixes[i] = NONE
      BY <1>0, <1>3, <3>1 DEF EntryInv
    <3> QED BY <1>5, <3>1
  <2>2. \A q \in Pointer : Out(q)' => At(q)'.prefixes[1] = NONE
    <3>1. ASSUME NEW q \in Pointer, q # p, Out(q)' PROVE At(q)'.prefixes[1] = NONE
      BY <1>0, <1>3, <3>1 DEF EntryInv, Out, Used
    <3> QED BY <1>5, <3>1
  <2>3. \A q \in Pointer : ~ (Live(q)' /\ At(q)'.abort /\ At(q)'.prefixes[1] # NONE)
    <3>1. ASSUME NEW q \in Pointer, q # p
          PROVE  ~ (Live(q) /\ At(q).abort /\ At(q).prefixes[1] # NONE)
      <4>1. \A c \in Deck : ~ (deck[c].step = "clear" /\ deck[c].at = q)
        BY <1>1, <1>2, <3>1
      <4> QED BY <1>0, <4>1 DEF EntryInv
    <3> QED BY <1>3, <1>5, <3>1 DEF Live
  <2> QED BY <1>4, <2>1, <2>2, <2>3 DEF EntryInv, Busy, Live, At
<1>7. ASSUME NEW c \in Deck PROVE Waiting(c)' = Waiting(c)
  <2>1. ~ Busy(c)' /\ (Busy(c) => c = d)
    BY <1>4 DEF Busy
  <2>2. ASSUME NEW q \in Pointer PROVE q \in Waiting(c)' <=> q \in Waiting(c)
    <3>1. CASE q # p
      BY <1>2, <1>3, <2>1, <3>1 DEF Waiting, ReadyFor, Live
    <3>2. CASE q = p
      <4>1. At(p) \in Entry /\ At(p)' \in Entry
        <5>1. table' \in [Bucket -> [1 .. CAPACITY -> Entry]]
          BY TypePartsNext DEF TableTyped
        <5>2. p[1] \in Bucket /\ p[2] \in 1 .. CAPACITY
          BY <1>3 DEF Pointer
        <5>3. At(p) \in Entry
          BY <1>1, <1>3, EntryParts
        <5>4. table'[p[1]][p[2]] \in Entry
          BY <5>1, <5>2
        <5> QED BY <5>3, <5>4 DEF At
      <4>2. NextPrefix(At(p)) = d /\ NextPrefix(At(p)') = NONE
        <5>1. \A e \in Entry : (\A i \in 2 .. STEPS : e.prefixes[i] = NONE)
                => NextPrefix(e) = e.prefixes[1]
          BY OneRoute
        <5>2. \A i \in 2 .. STEPS : At(p).prefixes[i] = NONE
          BY <1>0, <1>3 DEF EntryInv
        <5> QED BY <1>3, <1>5, <4>1, <5>1, <5>2
      <4>3. NONE # c
        BY DEF NONE, Deck
      <4>4. p \notin Waiting(c)'
        BY <4>2, <4>3 DEF Waiting, ReadyFor
      <4>5. p \notin Waiting(c)
        BY <1>2, <1>4, <4>2 DEF Waiting, ReadyFor
      <4> QED BY <3>2, <4>4, <4>5
    <3> QED BY <3>1, <3>2
  <2>3. Waiting(c) \subseteq Pointer /\ Waiting(c)' \subseteq Pointer
    BY DEF Waiting
  <2> QED BY <2>2, <2>3
<1>8. QueueInv' /\ PendingInv' /\ WaitingInv'
  BY <1>0, <1>4, <1>7, SameWaitingInTurn
<1> QED BY <1>6, <1>8 DEF RoutingInv

LEMMA RoutingTake ==
  ASSUME SyncInv, TypeOK', NEW d \in Deck, stage = DeckStage[d],
         DeckTake(d), stage' = DeckStage[d]
  PROVE  RoutingInv'
<1>0. DeckRun(d) /\ UNCHANGED table
  BY DEF DeckRun, DeckTake, tableVars
<1>1. /\ TypeOK /\ IdInv /\ EntryInv /\ QueueInv /\ PendingInv /\ WaitingInv
      /\ \A c \in Deck : c # d => /\ deck'[c] = deck[c] /\ deck[c].step = "idle"
                                  /\ deckQueue'[c] = deckQueue[c]
                                  /\ ~ Busy(c) /\ ~ Busy(c)'
                                  /\ Late(c)' = Late(c) /\ Most(c)' = Most(c)
      /\ Tick' = Tick /\ UNCHANGED scanPos
  BY <1>0, DeckTurnKeeps
<1>2. PICK p : p = Head(deckQueue[d])
  OBVIOUS
<1>3. PICK q : q = deckQueue[d]
  OBVIOUS
<1>4. /\ q \in Seq(Pointer) /\ q # <<>> /\ deckQueue'[d] = Tail(q)
      /\ deck[d].step = "idle" /\ deck'[d].step = "serve" /\ deck'[d].at = p
  <2>1. /\ deck \in [Deck -> [step : {"idle", "serve", "store", "clear"}, at : Pointer,
                      req : {0} \cup Req, outcome : {"result", "empty", "error"}]]
        /\ deckQueue \in [Deck -> Seq(Pointer)]
    BY <1>1, TypeParts DEF DecksTyped, QueuesTyped
  <2> QED BY <1>2, <1>3, <2>1 DEF DeckTake
<1>5. /\ p = q[1] /\ Len(q) \in Nat /\ Len(q) > 0 /\ Len(Tail(q)) = Len(q) - 1
      /\ \A k \in 1 .. Len(q) - 1 : Tail(q)[k] = q[k + 1]
      /\ p \in Pointer
  BY <1>2, <1>3, <1>4, RingHead
<1>6. /\ ~ Busy(d) /\ Busy(d)'
      /\ \A c \in Deck : deck[c].step = "idle"
      /\ \A c \in Deck : deck'[c].step = (IF c = d THEN "serve" ELSE "idle")
  BY <1>1, <1>4 DEF Busy
<1>7. /\ Late(d) = BATCH /\ Most(d) = Scans
      /\ Late(d)' = 0 /\ Most(d)' = Scans - 1
  BY <1>1, <1>6, TurnOfDeck
<1>8. /\ \A k \in 1 .. Len(q) : q[k] \in Waiting(d) /\ Span(k) <= Left(q[k][1]) + BATCH
      /\ \A k, m \in 1 .. Len(q) : k # m => q[k] # q[m]
  BY <1>1, <1>3, <1>7 DEF QueueInv
<1>9. \A x : At(x)' = At(x) /\ Live(x)' = Live(x)
  BY <1>0 DEF At, Live
<1>10. p \in Waiting(d) /\ Live(p) /\ At(p).prefixes[1] = d /\ ~ At(p).abort
  <2>1. p \in Waiting(d)
    BY <1>5, <1>8
  <2> QED BY <1>1, <1>5, <2>1, ReadyIs DEF Waiting, Live
<1>11. EntryInv'
  <2>1. /\ \A x \in Pointer : \A i \in 2 .. STEPS : At(x)'.prefixes[i] = NONE
        /\ \A x \in Pointer : Out(x)' => At(x)'.prefixes[1] = NONE
    BY <1>1, <1>9 DEF EntryInv, Out, Used
  <2>2. \A x \in Pointer : ~ (Live(x)' /\ At(x)'.abort /\ At(x)'.prefixes[1] # NONE)
    <3>1. \A x \in Pointer : ~ (Live(x) /\ At(x).abort /\ At(x).prefixes[1] # NONE)
      BY <1>1, <1>6 DEF EntryInv
    <3> QED BY <1>9, <3>1
  <2>3. \A x : x = deck'[d].at => Live(x)' /\ At(x)'.prefixes[1] = d /\ ~ At(x)'.abort
    BY <1>4, <1>9, <1>10
  <2> QED BY <1>6, <2>1, <2>2, <2>3 DEF EntryInv, Busy, Live, At
<1>12. Waiting(d)' = Waiting(d) \ {p}
  <2>1. \A x \in Pointer : ReadyFor(x, d)' <=> ReadyFor(x, d)
    BY <1>9 DEF ReadyFor
  <2>2. \A x : (Busy(d)' /\ deck'[d].at = x) <=> x = p
    BY <1>4, <1>6
  <2> QED BY <1>6, <2>1, <2>2 DEF Waiting
<1>13. ASSUME NEW c \in Deck, c # d PROVE Waiting(c)' = Waiting(c)
  <2>1. \A x \in Pointer : ReadyFor(x, c)' <=> ReadyFor(x, c)
    BY <1>9 DEF ReadyFor
  <2>2. ~ Busy(c) /\ ~ Busy(c)'
    BY <1>1, <1>13
  <2> QED BY <2>1, <2>2 DEF Waiting
<1>14. \A b : Left(b)' = Left(b)
  BY <1>1 DEF Left, Offset
<1>15. QueueInv'
  <2>1. ASSUME NEW c \in Deck, NEW k \in 1 .. Len(deckQueue'[c]),
               NEW x, x = deckQueue'[c][k]
        PROVE  x \in Waiting(c)' /\ Span(k) <= Left(x[1])' + Late(c)'
    <3>1. CASE c = d
      <4>1. k \in 1 .. Len(q) - 1 /\ x = q[k + 1] /\ k + 1 \in 1 .. Len(q)
        BY <1>4, <1>5, <2>1, <3>1
      <4>2. x \in Waiting(d) /\ Span(k + 1) <= Left(x[1]) + BATCH /\ x # p
        <5>1. 1 \in 1 .. Len(q) /\ k + 1 # 1
          BY <1>5, <4>1
        <5> QED BY <1>5, <1>8, <4>1, <5>1
      <4>3. Left(x[1]) \in Nat /\ BATCH \in Nat
        BY <1>1, <4>2, EntryParts, DistancesAre, PipelineConstants DEF Waiting
      <4>4. Span(k + 1) = Span(k) + BATCH /\ Span(k) \in Int
        <5>1. k \in Int
          BY <4>1
        <5> QED BY <5>1, SpanIs
      <4> QED BY <1>7, <1>12, <1>14, <3>1, <4>2, <4>3, <4>4
    <3>2. CASE c # d
      <4>1. k \in 1 .. Len(deckQueue[c]) /\ x = deckQueue[c][k]
        BY <1>1, <2>1, <3>2
      <4>2. x \in Waiting(c) /\ Span(k) <= Left(x[1]) + Late(c)
        BY <1>1, <4>1 DEF QueueInv
      <4>3. Waiting(c)' = Waiting(c) /\ Late(c)' = Late(c) /\ Left(x[1])' = Left(x[1])
        BY <1>1, <1>13, <1>14, <3>2
      <4> QED BY <4>2, <4>3
    <3> QED BY <3>1, <3>2
  <2>2. ASSUME NEW c \in Deck, NEW k \in 1 .. Len(deckQueue'[c]),
               NEW m \in 1 .. Len(deckQueue'[c]), k # m
        PROVE  deckQueue'[c][k] # deckQueue'[c][m]
    <3>1. CASE c = d
      <4>1. /\ k \in 1 .. Len(q) - 1 /\ m \in 1 .. Len(q) - 1 /\ deckQueue'[c] = Tail(q)
            /\ k + 1 \in 1 .. Len(q) /\ m + 1 \in 1 .. Len(q) /\ k + 1 # m + 1
        BY <1>4, <1>5, <2>2, <3>1
      <4> QED BY <1>5, <1>8, <4>1
    <3>2. CASE c # d
      BY <1>1, <2>2, <3>2 DEF QueueInv
    <3> QED BY <3>1, <3>2
  <2> QED BY <2>1, <2>2 DEF QueueInv
<1>16. PendingInv'
  <2>1. ASSUME NEW c \in Deck, NEW x \in Waiting(c)', ~ QueuedFor(c, x)'
        PROVE  Left(x[1])' + Span(Age(x)') < BUCKETS
    <3>1. x \in Waiting(c)
      BY <1>12, <1>13, <2>1
    <3>2. ~ QueuedFor(c, x)
      <4>1. CASE c = d
        <5>1. x # p
          BY <1>12, <2>1, <4>1
        <5>2. ASSUME NEW k \in 1 .. Len(q), q[k] = x PROVE FALSE
          <6>1. k # 1
            BY <1>5, <5>1, <5>2
          <6>2. k - 1 \in 1 .. Len(q) - 1 /\ (k - 1) + 1 = k
            BY <1>5, <5>2, <6>1
          <6>3. Tail(q)[k - 1] = x /\ k - 1 \in 1 .. Len(Tail(q))
            BY <1>5, <5>2, <6>2
          <6> QED BY <1>4, <2>1, <4>1, <6>3 DEF QueuedFor
        <5> QED BY <1>3, <4>1, <5>2 DEF QueuedFor
      <4>2. CASE c # d
        BY <1>1, <2>1, <4>2 DEF QueuedFor
      <4> QED BY <4>1, <4>2
    <3>3. Left(x[1]) + Span(Age(x)) < BUCKETS
      BY <1>1, <3>1, <3>2 DEF PendingInv
    <3>4. Age(x)' = Age(x) /\ Left(x[1])' = Left(x[1])
      BY <1>1, <1>9, <1>14 DEF Age
    <3> QED BY <3>3, <3>4
  <2> QED BY <2>1 DEF PendingInv, Span
<1>17. WaitingInv'
  <2>1. ASSUME NEW c \in Deck PROVE Cardinality(Waiting(c)') <= Most(c)'
    <3>1. CASE c = d
      <4>1. Cardinality(Waiting(d)) <= Scans /\ Scans \in Nat
        BY <1>1, <1>7, SpanIs DEF WaitingInv
      <4>2. /\ Cardinality(Waiting(d) \ {p}) = Cardinality(Waiting(d)) - 1
            /\ Cardinality(Waiting(d)) \in Nat
        <5>1. IsFiniteSet(Waiting(d)) /\ Cardinality(Waiting(d)) \in Nat
          BY WaitingFinite
        <5>2. Cardinality(Waiting(d) \ {p}) = Cardinality(Waiting(d)) - 1
          BY <1>10, <5>1, FS_RemoveElement
        <5> QED BY <5>1, <5>2
      <4> QED BY <1>7, <1>12, <3>1, <4>1, <4>2
    <3>2. CASE c # d
      <4>1. Cardinality(Waiting(c)) <= Most(c)
        BY <1>1 DEF WaitingInv
      <4> QED BY <1>1, <1>13, <3>2, <4>1
    <3> QED BY <3>1, <3>2
  <2> QED BY <2>1 DEF WaitingInv
<1> QED BY <1>11, <1>15, <1>16, <1>17 DEF RoutingInv

-------------------------------------------------------------------------------
(***************************************************************************)
(* The invariant holds in every state.                                     *)
(***************************************************************************)
LEMMA NextRouting ==
  ASSUME SyncInv, TypeOK', SyncNext
  PROVE  RoutingInv'
<1>0. TypeOK /\ KeysInv /\ IdInv /\ StageInv
  BY DEF SyncInv, CoreInv, KeysInv
<1>1. nextId \in Int
  <2>1. nextId \in 1 .. MaxEvents + 1
    BY <1>0, TypeParts DEF ReceiverTyped
  <2> QED BY <2>1, PipelineConstants
\* The steps that do not touch the table.
<1>2. CASE stage = "user" /\ User /\ UNCHANGED stage
  <2>1. UNCHANGED <<rcv, nextId, deck, deckQueue, scanPos, table>>
    BY <1>2, OthersKeep
  <2>2. Tick' <= Tick
    BY <1>1, <1>2, <2>1 DEF Tick
  <2> QED BY <1>2, <2>1, <2>2, RoutingQuiet
<1>3. CASE \/ Pass("user", "receiver")
           \/ Pass("receiver", "center") /\ rcv = <<>>
           \/ Pass("center", "guide") /\ ctr = <<>> /\ centerRing = <<>>
           \/ Pass("execution", "user") /\ exe = <<>>
  <2>1. UNCHANGED <<rcv, nextId, deck, deckQueue, scanPos, table, centerRing>>
    BY <1>3, OthersKeep DEF Pass
  <2>2. \/ stage = "user" /\ stage' = "receiver"
        \/ stage = "receiver" /\ stage' = "center"
        \/ stage = "center" /\ stage' = "guide"
        \/ stage = "execution" /\ stage' = "user"
    BY <1>3 DEF Pass
  <2>3. Tick' <= Tick
    BY <1>1, <2>1, <2>2 DEF Tick
  <2> QED BY <2>1, <2>2, <2>3, RoutingQuiet
<1>4. CASE /\ stage = "receiver" /\ Receiver
           /\ stage' = IF rcv' = <<>> THEN "center" ELSE "receiver"
  <2>1. UNCHANGED <<deck, deckQueue, scanPos, table>>
    BY <1>4, OthersKeep
  <2>2. Tick' <= Tick
    <3>1. CASE ReceiverTake
      <4>1. \/ nextId' = nextId + 1 /\ rcv' # <<>> /\ rcv = <<>>
            \/ UNCHANGED <<nextId, rcv>> /\ rcv = <<>>
        BY <3>1 DEF ReceiverTake, recvVars
      <4> QED BY <1>1, <1>4, <4>1 DEF Tick
    <3>2. CASE ReceiverForward \/ ReceiverTimeout
      <4>1. nextId' = nextId /\ rcv' = <<>> /\ rcv # <<>>
        BY <3>2 DEF ReceiverForward, ReceiverTimeout
      <4> QED BY <1>1, <1>4, <4>1 DEF Tick
    <3> QED BY <1>4, <3>1, <3>2 DEF Receiver
  <2> QED BY <1>4, <2>1, <2>2, RoutingQuiet
<1>5. CASE /\ stage = "center" /\ Center
           /\ stage' = IF ctr' = <<>> THEN "guide" ELSE "center"
  <2>1. UNCHANGED <<rcv, nextId, deck, deckQueue, scanPos>>
    BY <1>5, OthersKeep
  <2>2. Tick' <= Tick
    BY <1>1, <1>5, <2>1 DEF Tick
  <2>3. CASE UNCHANGED table /\ (centerRing = <<>> => centerRing' = <<>>)
    BY <1>5, <2>1, <2>2, <2>3, RoutingQuiet
  <2>4. CASE CenterTake /\ ~ UNCHANGED table
    <3>1. PICK ev : ev = Head(centerRing)
      OBVIOUS
    <3>2. centerRing # <<>> /\ centerRing \in Seq(Event)
      BY <1>0, <2>4, TypeParts DEF CenterTake, CenterRingTyped
    <3>3. ev \in Event /\ ev = centerRing[1] /\ 1 \in 1 .. Len(centerRing)
      BY <3>1, <3>2, RingHead
    <3>4. ev.id \in EventId
      <4>1. ev.id \in FirstId .. nextId /\ nextId \in 1 .. MaxEvents + 1
        BY <1>0, <3>3, TypeParts DEF IdInv, ReceiverTyped
      <4> QED BY <4>1, PipelineConstants DEF EventId, FirstId
    <3>5. Insert(ev) /\ UNCHANGED ctr
      BY <2>4, <3>1 DEF CenterTake, tableVars
    <3>6. PICK p \in Pointer : Inserted(ev, p)
      <4>1. ~ UNCHANGED tableVars
        BY <2>4 DEF tableVars
      <4> QED BY <1>0, <3>3, <3>4, <3>5, <4>1, InsertGives
    <3>7. stage' = "guide"
      BY <1>5, <2>4, <3>5 DEF CenterTake
    <3> QED BY <1>5, <2>4, <3>1, <3>3, <3>4, <3>6, <3>7, RoutingInsert
  <2>5. ASSUME CenterTake, UNCHANGED table
        PROVE  centerRing = <<>> => centerRing' = <<>>
    BY <2>5 DEF CenterTake
  <2>6. ASSUME CenterRespond \/ CenterTimeout
        PROVE  UNCHANGED table /\ (centerRing = <<>> => centerRing' = <<>>)
    BY <2>6, OthersKeep DEF CenterRespond, CenterTimeout
  <2> QED BY <1>5, <2>3, <2>4, <2>5, <2>6 DEF Center
<1>6. ASSUME NEW d \in Deck, stage = DeckStage[d], DeckRun(d),
             stage' = IF deck'[d] = Idle THEN AfterDeck(d) ELSE DeckStage[d]
      PROVE  RoutingInv'
  <2>1. deck \in [Deck -> [step : {"idle", "serve", "store", "clear"}, at : Pointer,
                    req : {0} \cup Req, outcome : {"result", "empty", "error"}]]
    BY <1>0, TypeParts DEF DecksTyped
  <2>2. CASE DeckClear(d)
    <3>1. deck'[d] = Idle
      BY <2>1, <2>2 DEF DeckClear
    <3> QED BY <1>6, <2>2, <3>1, RoutingClear
  <2>3. CASE ~ DeckClear(d)
    <3>1. deck'[d].step # "idle"
      BY <1>6, <2>1, <2>3, DeckGoesOn
    <3>2. stage' = DeckStage[d]
      <4>1. Idle.step = "idle"
        BY DEF Idle
      <4> QED BY <1>6, <3>1, <4>1
    <3> QED BY <1>6, <2>3, <3>2, RoutingTake, RoutingServe, RoutingStore DEF DeckRun
  <2> QED BY <2>2, <2>3
<1>7. CASE /\ stage = "execution" /\ Execution
           /\ stage' = IF exe' = <<>> THEN "user" ELSE "execution"
  <2>1. CASE ExecTake \/ ExecRespond
    <3>1. UNCHANGED <<rcv, nextId, deck, deckQueue, scanPos, table>>
      BY <1>7, <2>1, OthersKeep
    <3>2. Tick' <= Tick
      BY <1>1, <1>7, <3>1 DEF Tick
    <3> QED BY <1>7, <3>1, <3>2, RoutingQuiet
  <2>2. CASE ExecRemove
    <3>1. stage' = "user"
      BY <1>7, <2>2 DEF ExecRemove
    <3> QED BY <1>7, <2>2, <3>1, RoutingRemove
  <2> QED BY <1>7, <2>1, <2>2 DEF Execution
<1>8. CASE GuideTurn
  BY <1>8, RoutingScan
<1>9. ASSUME NEW d \in Deck, Pass(DeckStage[d], AfterDeck(d)),
             deck[d] = Idle, deckQueue[d] = <<>>
      PROVE  RoutingInv'
  BY <1>9, RoutingIdle
<1> QED BY <1>2, <1>3, <1>4, <1>5, <1>6, <1>7, <1>8, <1>9, SyncSteps

LEMMA InitSync == SyncInit => SyncInv
<1> SUFFICES ASSUME SyncInit PROVE SyncInv
  OBVIOUS
<1>0. CoreInv /\ TypeOK /\ Init /\ stage = "user"
  BY InitCore DEF SyncInit, CoreInv
<1>1. /\ \A d \in Deck : deck[d] = Idle /\ deckQueue[d] = <<>> /\ ~ Busy(d)
      /\ scanPos = 0 /\ rcv = <<>> /\ ctr = <<>> /\ centerRing = <<>> /\ exe = <<>>
  BY <1>0 DEF Init, Busy, Idle
<1>2. \A p \in Pointer : At(p) = FreeEntry
  BY <1>0 DEF Init, At, Pointer
<1>3. /\ FreeEntry.id = 0 /\ \A i \in 1 .. STEPS : FreeEntry.prefixes[i] = NONE
      /\ \A i \in 2 .. STEPS : i \in 1 .. STEPS
  BY PipelineConstants DEF FreeEntry, Cleared
<1>4. StageInv
  <2>1. Offset = 0
    BY <1>1, <1>0, OffsetIs, TypeParts DEF Offset, QueuesTyped
  <2> QED BY <1>0, <1>1, <2>1 DEF StageInv
<1>5. EntryInv
  <2>1. \A p \in Pointer : ~ Live(p) /\ ~ Out(p)
    BY <1>2, <1>3 DEF Live, Out, Used
  <2>2. \A d \in Deck : deck[d].step = "idle"
    BY <1>1 DEF Busy
  <2> QED BY <1>2, <1>3, <2>1, <2>2 DEF EntryInv, Busy
<1>6. \A d \in Deck : Waiting(d) = {} /\ Len(deckQueue[d]) = 0
  BY <1>1, <1>2, <1>3 DEF Waiting, ReadyFor, Live
<1>7. QueueInv /\ PendingInv
  BY <1>6 DEF QueueInv, PendingInv
<1>8. WaitingInv
  <2>1. \A d \in Deck : Most(d) \in {Scans - 1, Scans}
    BY DEF Most
  <2>2. Cardinality({}) = 0 /\ Scans \in Nat /\ Scans > 0
    <3>1. Cardinality({}) = 0
      BY FS_EmptySet
    <3>2. Scans \in Nat /\ Scans > 0
      BY SpanIs
    <3> QED BY <3>1, <3>2
  <2>3. \A d \in Deck : 0 <= Most(d)
    BY <2>1, <2>2
  <2>4. \A d \in Deck : Cardinality(Waiting(d)) = 0
    BY <1>6, <2>2
  <2> QED BY <2>3, <2>4 DEF WaitingInv
<1> QED BY <1>0, <1>4, <1>5, <1>7, <1>8 DEF SyncInv, RoutingInv

LEMMA NextSync ==
  ASSUME SyncInv, [SyncNext]_vars
  PROVE  SyncInv'
<1>1. CoreInv'
  BY SyncIsCore, NextCore, StutterCore DEF SyncInv
<1>2. CASE SyncNext
  <2>1. StageInv'
    BY <1>2, NextStageInv DEF SyncInv, CoreInv, KeysInv
  <2>2. RoutingInv'
    BY <1>1, <1>2, NextRouting DEF CoreInv
  <2> QED BY <1>1, <2>1, <2>2 DEF SyncInv
<1>3. CASE UNCHANGED vars
  <2>1. UNCHANGED <<rcv, ctr, centerRing, nextId, exe, deck, deckQueue, scanPos, table, stage>>
    BY <1>3, OthersKeep DEF vars
  <2>2. StageInv'
    BY <2>1 DEF SyncInv, StageInv, Busy, Offset
  <2>3. EntryInv' /\ (\A d : Waiting(d)' = Waiting(d)) /\ \A p : At(p)' = At(p)
    BY <2>1, SameEntries DEF SyncInv, RoutingInv
  <2>4. \A d : Late(d)' = Late(d) /\ Most(d)' = Most(d)
    BY <2>1 DEF Late, Most, TurnToCome, Busy
  <2>5. Tick' = Tick /\ Tick \in Int
    BY <2>1, TypeParts DEF Tick, SyncInv, CoreInv, ReceiverTyped
  <2>6. \A d \in Deck : Cardinality(Waiting(d)) <= Most(d)'
    BY <2>4 DEF SyncInv, RoutingInv, WaitingInv
  <2>7. QueueInv' /\ PendingInv' /\ WaitingInv'
    BY <2>1, <2>3, <2>4, <2>5, <2>6, SameWaiting
      DEF SyncInv, CoreInv, KeysInv, RoutingInv
  <2> QED BY <1>1, <2>2, <2>3, <2>7 DEF SyncInv, RoutingInv
<1> QED BY <1>2, <1>3

LEMMA SyncAlways == SyncSpec => []SyncInv
<1>1. SyncInit => SyncInv
  BY InitSync
<1>2. SyncInv /\ [SyncNext]_vars => SyncInv'
  BY NextSync
<1> QED BY <1>1, <1>2, PTL DEF SyncSpec

\* No two of a queue's pointers are the same.
LEMMA AllDifferent ==
  ASSUME NEW S, NEW q \in Seq(S), \A i, j \in 1 .. Len(q) : i # j => q[i] # q[j]
  PROVE  Distinct(q)
<1> DEFINE f == [i \in 1 .. Len(q) |-> q[i]]
<1>1. Len(q) \in Nat /\ ToSet(q) = {q[i] : i \in 1 .. Len(q)}
  BY DEF ToSet
<1>2. f \in Bijection(1 .. Len(q), ToSet(q))
  BY <1>1 DEF Bijection, Injection, Surjection, IsInjective
<1>3. \A n \in Nat : IsFiniteSet(1 .. n) /\ Cardinality(1 .. n) = n
  <2>1. ASSUME NEW n \in Nat PROVE IsFiniteSet(1 .. n) /\ Cardinality(1 .. n) = n
    <3>1. 1 \in Int /\ n \in Int /\ (1 > n => n = 0)
      OBVIOUS
    <3>2. IsFiniteSet(1 .. n) /\ Cardinality(1 .. n) = IF 1 > n THEN 0 ELSE n - 1 + 1
      BY <3>1, FS_Interval
    <3> QED BY <3>1, <3>2
  <2> QED BY <2>1
<1>4. Cardinality(ToSet(q)) = Cardinality(1 .. Len(q))
  <2>1. IsFiniteSet(1 .. Len(q)) /\ \E g : g \in Bijection(1 .. Len(q), ToSet(q))
    BY <1>1, <1>2, <1>3
  <2> HIDE DEF f
  <2> QED BY <2>1, FS_Bijection DEF ExistsBijection
<1> QED BY <1>1, <1>3, <1>4 DEF Distinct

LEMMA QueuesAreCurrent == SyncInv => QueuedOnceAndCurrent
<1> SUFFICES ASSUME SyncInv PROVE QueuedOnceAndCurrent
  OBVIOUS
<1>0. TypeOK /\ ExecInv /\ EntryInv /\ QueueInv
  BY DEF SyncInv, CoreInv, KeysInv, RoutingInv
<1>1. /\ deckQueue \in [Deck -> Seq(Pointer)] /\ execQueue \in Seq(Pointer)
      /\ \A d \in Deck : deck[d].at \in Pointer
  BY <1>0, TypeParts DEF QueuesTyped, DecksTyped
<1>2. ASSUME NEW d \in Deck
      PROVE  /\ Distinct(deckQueue[d])
             /\ \A p \in ToSet(deckQueue[d]) : ReadyFor(p, d)
             /\ deck[d].step = "serve" =>
                  ReadyFor(deck[d].at, d) /\ deck[d].at \notin ToSet(deckQueue[d])
  <2>1. Distinct(deckQueue[d])
    BY <1>0, <1>1, AllDifferent DEF QueueInv
  <2>2. \A p \in ToSet(deckQueue[d]) : p \in Waiting(d)
    BY <1>0 DEF QueueInv, ToSet
  <2>3. ASSUME deck[d].step = "serve"
        PROVE  ReadyFor(deck[d].at, d) /\ deck[d].at \notin ToSet(deckQueue[d])
    <3>1. Busy(d)
      BY <2>3 DEF Busy
    <3>2. Live(deck[d].at) /\ At(deck[d].at).prefixes[1] = d /\ ~ At(deck[d].at).abort
      BY <1>0, <2>3, <3>1 DEF EntryInv
    <3>3. ReadyFor(deck[d].at, d)
      BY <1>0, <1>1, <3>2, ReadyIs DEF Live
    <3>4. deck[d].at \notin Waiting(d)
      BY <3>1 DEF Waiting
    <3> QED BY <2>2, <3>3, <3>4
  <2> QED BY <2>1, <2>2, <2>3 DEF Waiting
<1>3. Distinct(execQueue)
  BY <1>0, <1>1, AllDifferent DEF ExecInv
<1>4. ASSUME NEW p \in ToSet(execQueue)
      PROVE  At(p).id # 0 /\ ~Live(p) /\ NextPrefix(At(p)) = NONE
  <2>1. p \in Pointer /\ Out(p)
    BY <1>0, <1>1, <1>4 DEF ExecInv, ToSet
  <2>2. NextPrefix(At(p)) = At(p).prefixes[1]
    BY <1>0, <2>1, EntryParts, OneRoute DEF EntryInv
  <2> QED BY <1>0, <2>1, <2>2 DEF EntryInv, Out, Used, Live
<1> QED BY <1>2, <1>3, <1>4 DEF QueuedOnceAndCurrent

\* guide_scan_and_route pushes an entry on every scan until its deck has cleared
\* the prefix; deck_run_once takes one pointer per iteration.  With a queue as
\* long as a round of the Guide, no pointer is in a queue twice, and each still
\* names an entry that waits for just that deck, or for its answer.
THEOREM QueuesHoldWhatWaits == SyncSpec => []QueuedOnceAndCurrent
<1>1. SyncSpec => []SyncInv
  BY SyncAlways
<1> QED BY <1>1, QueuesAreCurrent, PTL

-------------------------------------------------------------------------------
(***************************************************************************)
(* The service the pipeline implements.                                    *)
(***************************************************************************)

\* Whether the entry's deck has carried out its request.
Processed(p) ==
  \/ ~ Live(p) \/ At(p).prefixes[1] = NONE
  \/ \E d \in Deck : deck[d].step \in {"store", "clear"} /\ deck[d].at = p

\* The history agrees with the table: a request whose entry Execution has answered
\* for has its fate, and one in the table was processed once or not yet.
AnsweredInv ==
  \A p \in Pointer : Used(p) /\ Answered(p) => fate[At(p).req] = <<"success">>
ServedInv ==
  \A p \in Pointer : Used(p) => served[At(p).req] = IF Processed(p) THEN 1 ELSE 0
ServiceInv == AnsweredInv /\ ServedInv

\* No request has two entries.
LEMMA OneEntry ==
  ASSUME CoreInv, AnsweredInv, NEW p \in Pointer, NEW q \in Pointer,
         Used(p), Used(q), At(p).req = At(q).req
  PROVE  p = q
<1>1. PICK r \in Req : r = At(p).req
  BY DEF CoreInv, KeysInv, IdInv
<1>2. CASE Answered(p) /\ Answered(q)
  BY <1>2 DEF Answered
<1>3. ASSUME NEW x \in Pointer, NEW y \in Pointer, Used(x), Used(y), At(x).req = r,
             At(y).req = r, Answered(x), ~ Answered(y)
      PROVE  FALSE
  <2>1. y \in PendingFor(r)
    BY <1>3 DEF PendingFor, Used
  <2>2. fate[r] = <<>>
    BY <2>1, PendingIsOpen DEF CoreInv
  <2>3. fate[r] = <<"success">>
    BY <1>3 DEF AnsweredInv
  <2>4. <<>> # <<"success">>
    OBVIOUS
  <2> QED BY <2>2, <2>3, <2>4
<1>4. CASE ~ Answered(p) /\ ~ Answered(q)
  <2>1. p \in PendingFor(r) /\ q \in PendingFor(r)
    BY <1>1, <1>4 DEF PendingFor, Used
  <2>2. /\ IsFiniteSet(PendingFor(r)) /\ Cardinality(PendingFor(r)) = 1
    BY <2>1, PendingIsOpen, PlacesAre DEF CoreInv
  <2>3. /\ Cardinality(PendingFor(r) \ {p}) = Cardinality(PendingFor(r)) - 1
        /\ IsFiniteSet(PendingFor(r) \ {p})
    BY <2>1, <2>2, FS_RemoveElement
  <2>4. Cardinality(PendingFor(r) \ {p}) = 0
    BY <2>2, <2>3
  <2>5. PendingFor(r) \ {p} = {}
    BY <2>3, <2>4, FS_EmptySet
  <2> QED BY <2>1, <2>5
<1> QED BY <1>1, <1>2, <1>3, <1>4

\* A request that is resolved had no fate, and one that is resolved without an
\* answer SUCCESS was not processed.
LEMMA FirstFate ==
  ASSUME TypeOK, CoreInv', NEW r \in Req, NEW how \in Fates, Resolve(r, how)
  PROVE  /\ fate[r] = <<>> /\ fate'[r] = <<how>>
         /\ fate' = [fate EXCEPT ![r] = <<how>>]
         /\ how # "success" => served'[r] = 0
<1>1. fate' = [fate EXCEPT ![r] = Append(@, how)] /\ fate \in [Req -> Seq(Fates)]
  BY TypeParts DEF Resolve, HistoryTyped
<1>2. fate'[r] = Append(fate[r], how) /\ fate[r] \in Seq(Fates)
  BY <1>1
<1>3. Len(fate'[r]) = Len(fate[r]) + 1 /\ Len(fate[r]) \in Nat
  BY <1>2
<1>4. Len(fate'[r]) <= 1 /\ (Len(fate'[r]) = 1 => PendingFor(r)' = {})
  <2>1. Exact(r)'
    BY DEF CoreInv, NothingLostOrDoubled, Exact
  <2> DEFINE pending == {p \in Pointer : At(p)'.id # 0 /\ At(p)'.req = r /\ ~Answered(p)'}
  <2>2. IsFiniteSet(pending) /\ Cardinality(pending) \in Nat
    <3>1. IsFiniteSet(pending)
      BY FinitelyManyPointers, FS_Subset
    <3> QED BY <3>1, FS_CardinalityType
  <2>3. PendingFor(r)' = pending /\ Routed(r)' = Cardinality(pending)
    BY DEF Routed, PendingFor
  <2>4. Held(r)' \in Nat /\ Places(r)' = Held(r)' + Routed(r)'
    <3>1. /\ Holding(userRing', r) \in Nat /\ Holding(rcv', r) \in Nat
          /\ Holding(centerRing', r) \in Nat /\ Holding(ctr', r) \in Nat
      BY TypePartsNext, HoldingIsNumber
        DEF CoreInv, UserRingTyped, ReceiverTyped, CenterRingTyped, CenterTyped
    <3> QED BY <2>2, <2>3, <3>1 DEF Places, Held, Holding
  <2>5. Places(r)' + Len(fate'[r]) \in {0, 1}
    BY <2>1 DEF Exact
  <2>6. Len(fate'[r]) <= 1 /\ (Len(fate'[r]) = 1 => Routed(r)' = 0)
    BY <1>3, <2>2, <2>3, <2>4, <2>5
  <2>7. Cardinality(pending) = 0 => pending = {}
    BY <2>2, FS_EmptySet
  <2> QED BY <2>3, <2>6, <2>7
<1>5. fate[r] = <<>>
  BY <1>2, <1>3, <1>4
<1>6. Append(<<>>, how) = <<how>>
  OBVIOUS
<1>7. fate'[r] = <<how>> /\ Len(fate'[r]) = 1
  BY <1>2, <1>3, <1>5, <1>6
<1>8. how # "success" => served'[r] = 0
  <2>1. ASSUME served'[r] # 0 PROVE fate'[r] = <<"success">>
    BY <1>4, <1>7, <2>1 DEF CoreInv, PastInv
  <2>2. <<how>> = <<"success">> => how = "success"
    OBVIOUS
  <2> QED BY <1>7, <2>1, <2>2
<1> QED BY <1>1, <1>5, <1>7, <1>8

\* A request that is dropped, denied or rejected is lost to the service too.
LEMMA Lost ==
  ASSUME TypeOK, CoreInv', NEW r \in Req, NEW how \in Fates \ {"success"},
         Resolve(r, how), UNCHANGED served
  PROVE  Service!Next
<1>1. fate[r] = <<>> /\ fate' = [fate EXCEPT ![r] = <<how>>] /\ served'[r] = 0
  BY FirstFate
<1> QED BY <1>1 DEF Service!Next, Service!Lose

\* A component that does not look after the history leaves the service alone; the
\* others lose, process or answer a request.
LEMMA ServiceSteps ==
  ASSUME SyncInv, ServiceInv, CoreInv', [SyncNext]_vars
  PROVE  [Service!Next]_(Service!serviceVars)
<1>0. TypeOK /\ KeysInv /\ IdInv /\ StageInv /\ EntryInv
  BY DEF SyncInv, CoreInv, KeysInv, RoutingInv
<1>1. ASSUME UNCHANGED history PROVE [Service!Next]_(Service!serviceVars)
  BY <1>1 DEF history, Service!serviceVars
<1>2. CASE UNCHANGED vars
  BY <1>1, <1>2 DEF vars, pipeVars
<1>3. ASSUME NEW here, NEW next, Pass(here, next) PROVE UNCHANGED history
  BY <1>3 DEF Pass, pipeVars
<1>4. CASE User
  BY <1>1, <1>4 DEF User, SubmitCall, SubmitPush, PollCall, PollPop, PollEmpty
<1>5. CASE Receiver
  <2>1. CASE ReceiverTake
    <3>1. PICK ev : ev = Head(userRing)
      OBVIOUS
    <3>2. ev \in Event
      BY <1>0, <2>1, <3>1, TypeParts, RingHead DEF ReceiverTake, UserRingTyped
    <3>3. \/ UNCHANGED history
          \/ Resolve(ev.req, "rejected") /\ UNCHANGED served
      BY <2>1, <3>1 DEF ReceiverTake, history
    <3>4. ev.req \in Req /\ "rejected" \in Fates \ {"success"}
      BY <3>2 DEF Event, Fates
    <3> QED BY <1>0, <1>1, <3>3, <3>4, Lost
  <2>2. CASE ReceiverForward
    BY <1>1, <2>2 DEF ReceiverForward
  <2>3. CASE ReceiverTimeout
    <3>1. PICK ev : ev = rcv[1]
      OBVIOUS
    <3>2. ev \in Event
      BY <1>0, <2>3, <3>1, TypeParts, OneInHand DEF ReceiverTimeout, ReceiverTyped
    <3>3. Resolve(ev.req, "timeout") /\ UNCHANGED served
      BY <2>3, <3>1 DEF ReceiverTimeout
    <3>4. ev.req \in Req /\ "timeout" \in Fates \ {"success"}
      BY <3>2 DEF Event, Fates
    <3> QED BY <1>0, <3>3, <3>4, Lost
  <2> QED BY <1>5, <2>1, <2>2, <2>3 DEF Receiver
<1>6. CASE Center
  <2>1. CASE CenterTake
    <3>1. PICK ev : ev = Head(centerRing)
      OBVIOUS
    <3>2. ev \in Event
      BY <1>0, <2>1, <3>1, TypeParts, RingHead DEF CenterTake, CenterRingTyped
    <3>3. \/ UNCHANGED history
          \/ Resolve(ev.req, "bucket full") /\ UNCHANGED served
      BY <2>1, <3>1 DEF CenterTake, Insert, history
    <3>4. ev.req \in Req /\ "bucket full" \in Fates \ {"success"}
      BY <3>2 DEF Event, Fates
    <3> QED BY <1>0, <1>1, <3>3, <3>4, Lost
  <2>2. CASE CenterRespond \/ CenterTimeout
    <3>1. PICK x : x = ctr[1]
      OBVIOUS
    <3>2. x \in Response
      BY <1>0, <2>2, <3>1, TypeParts, OneInHand DEF CenterRespond, CenterTimeout, CenterTyped
    <3>3. /\ Resolve(x.req, "denied") \/ Resolve(x.req, "denial lost")
          /\ UNCHANGED served
      BY <2>2, <3>1 DEF CenterRespond, CenterTimeout
    <3>4. /\ x.req \in Req /\ "denied" \in Fates \ {"success"}
          /\ "denial lost" \in Fates \ {"success"}
      BY <3>2 DEF Response, Fates
    <3> QED BY <1>0, <3>3, <3>4, Lost
  <2> QED BY <1>6, <2>1, <2>2 DEF Center
<1>7. CASE GuideTurn
  BY <1>1, <1>7 DEF GuideTurn, GuideScan
<1>8. ASSUME NEW d \in Deck, stage = DeckStage[d], DeckRun(d)
      PROVE  [Service!Next]_(Service!serviceVars)
  <2>1. CASE DeckTake(d) \/ DeckStore(d) \/ DeckClear(d)
    BY <1>1, <2>1 DEF DeckTake, DeckStore, DeckClear
  <2>2. ASSUME NEW o \in Outcomes, DeckServe(d, o)
        PROVE  Service!Next
    <3>1. PICK p \in Pointer : p = deck[d].at
      BY <1>0, TypeParts DEF DecksTyped
    <3>2. Busy(d) /\ deck[d].step = "serve"
      BY <2>2 DEF Busy, DeckServe
    <3>3. Live(p) /\ At(p).prefixes[1] = d /\ Used(p)
      BY <1>0, <3>1, <3>2 DEF EntryInv, Live, Used
    <3>4. PICK r \in Req : r = At(p).req
      BY <1>0, <3>3 DEF IdInv
    <3>5. ~ Processed(p)
      <4>1. d # NONE
        BY DEF Deck, NONE
      <4>2. \A c \in Deck : c # d => ~ Busy(c)
        BY <1>0, <1>8, DeckStages, DecksAtRest
      <4> QED BY <3>2, <3>3, <4>1, <4>2 DEF Processed, Busy
    <3>6. served[r] = 0
      BY <3>3, <3>4, <3>5 DEF ServiceInv, ServedInv
    <3>7. fate[r] = <<>>
      <4>1. exe = <<>>
        BY <1>0, <1>8, DeckStages DEF StageInv
      <4>2. p \in PendingFor(r)
        BY <3>3, <3>4, <4>1 DEF PendingFor, Answered, Used
      <4> QED BY <4>2, PendingIsOpen DEF SyncInv, CoreInv
    <3>8. served' = [served EXCEPT ![r] = 1] /\ UNCHANGED fate
      <4>1. served' = [served EXCEPT ![r] = IF @ = 0 THEN 1 ELSE 2] /\ UNCHANGED fate
        BY <2>2, <3>1, <3>4 DEF DeckServe, Served
      <4> QED BY <3>6, <4>1
    <3> QED BY <3>4, <3>6, <3>7, <3>8 DEF Service!Next, Service!Serve
  <2> QED BY <1>8, <2>1, <2>2 DEF DeckRun
<1>9. CASE Execution
  <2>1. CASE ExecTake \/ ExecRemove
    BY <1>1, <2>1 DEF ExecTake, ExecRemove
  <2>2. CASE ExecRespond
    <3>1. PICK p \in Pointer : p = exe[1].at
      BY <1>0, <2>2, TypeParts, OneInHand DEF ExecRespond, ExecTyped, Job
    <3>2. Out(p) /\ exe[1].response.req = At(p).req /\ Used(p)
      BY <1>0, <2>2, <3>1 DEF ExecRespond, KeysInv, ExecInv, Out
    <3>3. PICK r \in Req : r = At(p).req
      BY <1>0, <3>2 DEF IdInv
    <3>4. Processed(p)
      BY <3>2 DEF Processed, Out, Live
    <3>5. served[r] = 1
      BY <3>2, <3>3, <3>4 DEF ServiceInv, ServedInv
    <3>6. Resolve(r, "success") /\ "success" \in Fates /\ UNCHANGED served
      BY <2>2, <3>2, <3>3 DEF ExecRespond, Fates
    <3>7. fate[r] = <<>> /\ fate' = [fate EXCEPT ![r] = <<"success">>]
      BY <1>0, <3>6, FirstFate
    <3> QED BY <3>3, <3>5, <3>6, <3>7 DEF Service!Next, Service!Answer
  <2> QED BY <1>9, <2>1, <2>2 DEF Execution
<1> QED BY <1>1, <1>2, <1>3, <1>4, <1>5, <1>6, <1>7, <1>8, <1>9, SyncSteps

LEMMA InitService == SyncInit => ServiceInv
<1> SUFFICES ASSUME SyncInit PROVE ServiceInv
  OBVIOUS
<1>1. \A p \in Pointer : At(p).id = 0
  BY DEF SyncInit, Init, At, Pointer, FreeEntry
<1> QED BY <1>1 DEF ServiceInv, AnsweredInv, ServedInv, Used

\* Only Execution answers, and it does in its turn.
LEMMA NextAnswered ==
  ASSUME SyncInv, AnsweredInv, SyncInv', SyncNext
  PROVE  AnsweredInv'
<1>0. TypeOK /\ KeysInv /\ IdInv /\ StageInv /\ StageInv' /\ CoreInv'
  BY DEF SyncInv, CoreInv, KeysInv
<1>1. CASE ExecRespond
  <2>1. PICK p \in Pointer : p = exe[1].at /\ exe'[1].at = p /\ exe # <<>>
    <3>1. exe \in Seq(Job) /\ Len(exe) <= 1 /\ exe # <<>>
      BY <1>0, <1>1, TypeParts DEF ExecTyped, ExecRespond
    <3>2. exe[1] \in Job
      BY <3>1, OneInHand
    <3>3. exe' = << [exe[1] EXCEPT !.sent = TRUE] >>
      BY <1>1 DEF ExecRespond
    <3> QED BY <3>1, <3>2, <3>3 DEF Job
  <2>2. Out(p) /\ exe[1].response.req = At(p).req /\ Used(p)
    BY <1>0, <2>1 DEF KeysInv, ExecInv, Out
  <2>3. PICK r \in Req : r = At(p).req
    BY <1>0, <2>2 DEF IdInv
  <2>4. Resolve(r, "success") /\ "success" \in Fates /\ UNCHANGED table
    BY <1>1, <2>2, <2>3, OthersKeep DEF ExecRespond, Fates
  <2>5. fate'[r] = <<"success">>
    BY <1>0, <2>4, FirstFate
  <2>6. At(p)' = At(p)
    BY <2>4 DEF At
  <2>7. \A q \in Pointer : Answered(q)' => q = p
    BY <2>1 DEF Answered
  <2>8. \A q \in Pointer : Answered(q)' => q = p /\ At(q)'.req = r
    BY <2>3, <2>6, <2>7
  <2> QED BY <2>5, <2>8 DEF AnsweredInv
<1>2. CASE ~ ExecRespond
  <2>1. exe' = <<>> \/ ~ exe'[1].sent \/ (UNCHANGED <<exe, table, fate>>)
    <3>1. CASE stage = "execution" /\ Execution
      <4>1. ExecTake => exe'[1].sent = FALSE
        BY DEF ExecTake
      <4>2. ExecRemove => exe' = <<>>
        BY DEF ExecRemove
      <4> QED BY <1>2, <3>1, <4>1, <4>2 DEF Execution
    <3>2. CASE ~ Execution
      <4>1. stage # "execution" => exe = <<>>
        BY <1>0 DEF StageInv
      <4>2. UNCHANGED exe
        BY <3>2, SyncSteps, OthersKeep DEF Pass, GuideTurn
      <4>3. stage = "execution" => UNCHANGED <<exe, table, fate>>
        BY <3>2, SyncSteps, DeckStages, <1>0 DEF Pass, GuideTurn, pipeVars, tableVars, history
      <4> QED BY <4>1, <4>2, <4>3
    <3>3. CASE stage # "execution"
      <4>1. exe = <<>>
        BY <1>0, <3>3 DEF StageInv
      <4>2. UNCHANGED exe
        BY <3>3, SyncSteps, OthersKeep DEF Pass, GuideTurn
      <4> QED BY <4>1, <4>2
    <3> QED BY <3>1, <3>2, <3>3
  <2>2. CASE exe' = <<>> \/ ~ exe'[1].sent
    BY <2>2 DEF AnsweredInv, Answered
  <2>3. CASE UNCHANGED <<exe, table, fate>> /\ exe # <<>>
    BY <2>3 DEF AnsweredInv, Answered, Used, At
  <2> QED BY <2>1, <2>2, <2>3
<1> QED BY <1>1, <1>2

LEMMA ServedSame ==
  ASSUME ServedInv, UNCHANGED served,
         \A p \in Pointer : Used(p)' =>
           /\ Used(p) /\ At(p)'.req = At(p).req /\ (Processed(p)' <=> Processed(p))
  PROVE  ServedInv'
<1> SUFFICES ASSUME NEW p \in Pointer, Used(p)', NEW x, x = At(p)'.req
             PROVE  served'[x] = IF Processed(p)' THEN 1 ELSE 0
  BY DEF ServedInv
<1>1. Used(p) /\ x = At(p).req /\ (Processed(p)' <=> Processed(p))
  OBVIOUS
<1>2. served[x] = IF Processed(p) THEN 1 ELSE 0
  BY <1>1 DEF ServedInv
<1> QED BY <1>1, <1>2

\* A deck that serves, stores and clears.
LEMMA NextServedDeck ==
  ASSUME SyncInv, AnsweredInv, ServedInv, NEW d \in Deck, stage = DeckStage[d],
         DeckRun(d)
  PROVE  ServedInv'
<1>0. TypeOK /\ IdInv /\ EntryInv /\ StageInv /\ CoreInv
  BY DEF SyncInv, CoreInv, KeysInv, RoutingInv
<1>1. PICK p \in Pointer : p = deck[d].at
  BY <1>0, TypeParts DEF DecksTyped
<1>2. \A c \in Deck : c # d => deck[c].step = "idle" /\ deck'[c] = deck[c]
  <2>1. deck \in [Deck -> [step : {"idle", "serve", "store", "clear"}, at : Pointer,
                    req : {0} \cup Req, outcome : {"result", "empty", "error"}]]
    BY <1>0, TypeParts DEF DecksTyped
  <2>2. \A c \in Deck : c # d => deck'[c] = deck[c]
    BY <2>1 DEF DeckRun, DeckTake, DeckServe, DeckStore, DeckClear
  <2>3. \A c \in Deck : c # d => ~ Busy(c)
    BY <1>0, DeckStages, DecksAtRest
  <2> QED BY <2>2, <2>3 DEF Busy
<1>3. \A q \in Pointer : At(q)'.id = At(q).id /\ At(q)'.req = At(q).req
                         /\ At(q)'.state = At(q).state
  BY <1>0, DeckKeeps DEF SameKeys, SameStates
<1>4. \A q \in Pointer : (Live(q)' <=> Live(q)) /\ (Used(q)' <=> Used(q))
  BY <1>3 DEF Live, Used
\* Which entries the deck has carried out, before and after.
<1>5. ASSUME NEW q \in Pointer
      PROVE  Processed(q) <=>
               \/ ~ Live(q) \/ At(q).prefixes[1] = NONE
               \/ deck[d].step \in {"store", "clear"} /\ p = q
  BY <1>1, <1>2 DEF Processed
<1>6. ASSUME NEW q \in Pointer
      PROVE  Processed(q)' <=>
               \/ ~ Live(q) \/ At(q)'.prefixes[1] = NONE
               \/ deck'[d].step \in {"store", "clear"} /\ deck'[d].at = q
  <2>1. \A c \in Deck : c # d => deck'[c].step = "idle"
    BY <1>2
  <2> QED BY <1>4, <2>1 DEF Processed
<1>7. CASE DeckTake(d)
  <2>1. /\ UNCHANGED <<table, served>> /\ deck[d].step = "idle"
        /\ deck'[d].step = "serve"
    BY <1>0, <1>7, TypeParts DEF DeckTake, DecksTyped, tableVars, history
  <2>2. \A q \in Pointer : At(q)'.prefixes = At(q).prefixes
    BY <2>1 DEF At
  <2> QED BY <1>3, <1>4, <1>5, <1>6, <2>1, <2>2, ServedSame
<1>8. ASSUME NEW o \in Outcomes, DeckServe(d, o) PROVE ServedInv'
  <2>1. /\ UNCHANGED table /\ deck[d].step = "serve"
        /\ deck'[d].step = "store" /\ deck'[d].at = p
    BY <1>0, <1>1, <1>8, TypeParts DEF DeckServe, DecksTyped, tableVars
  <2>2. \A q \in Pointer : At(q)' = At(q)
    BY <2>1 DEF At
  <2>3. Live(p) /\ At(p).prefixes[1] = d /\ Used(p)
    BY <1>0, <1>1, <2>1 DEF EntryInv, Live, Used, Busy
  <2>4. PICK r \in Req : r = At(p).req
    BY <1>0, <2>3 DEF IdInv
  <2>5. d # NONE
    BY DEF Deck, NONE
  <2>6. ~ Processed(p) /\ Processed(p)'
    BY <1>5, <1>6, <2>1, <2>3, <2>5
  <2>7. served[r] = 0
    BY <2>3, <2>4, <2>6 DEF ServedInv
  <2>8. served'[r] = 1 /\ \A x \in Req : x # r => served'[x] = served[x]
    <3>1. served' = [served EXCEPT ![r] = IF @ = 0 THEN 1 ELSE 2]
      BY <1>1, <1>8, <2>4 DEF DeckServe, Served
    <3>2. served \in [Req -> 0 .. 2]
      BY <1>0, TypeParts DEF HistoryTyped
    <3> QED BY <2>7, <3>1, <3>2
  <2>9. ASSUME NEW q \in Pointer, Used(q)', NEW x, x = At(q)'.req
        PROVE  served'[x] = IF Processed(q)' THEN 1 ELSE 0
    <3>1. Used(q) /\ x = At(q).req /\ x \in Req
      BY <1>0, <1>4, <2>2, <2>9 DEF IdInv
    <3>2. CASE q = p
      BY <2>4, <2>6, <2>8, <3>1, <3>2
    <3>3. CASE q # p
      <4>1. x # r
        BY <1>0, <2>3, <2>4, <3>1, <3>3, OneEntry
      <4>2. Processed(q)' <=> Processed(q)
        BY <1>5, <1>6, <2>1, <2>2, <3>3
      <4>3. served[x] = IF Processed(q) THEN 1 ELSE 0
        BY <3>1 DEF ServedInv
      <4> QED BY <2>8, <3>1, <4>1, <4>2, <4>3
    <3> QED BY <3>2, <3>3
  <2> QED BY <2>9 DEF ServedInv
<1>9. CASE DeckStore(d)
  <2>1. /\ \A q \in Pointer : q # p => At(q)' = At(q)
        /\ deck[d].step = "store" /\ deck'[d].step = "clear" /\ deck'[d].at = p
        /\ At(p)'.prefixes = At(p).prefixes /\ UNCHANGED served
    <3>1. OnlyAt(p) /\ deck'[d].step = "clear" /\ deck'[d].at = p
          /\ At(p)'.prefixes = At(p).prefixes
      BY <1>0, <1>1, <1>9, StoreEntry
    <3>2. deck[d].step = "store" /\ UNCHANGED served
      BY <1>9 DEF DeckStore, history
    <3> QED BY <3>1, <3>2 DEF OnlyAt
  <2>2. \A q \in Pointer : Processed(q)' <=> Processed(q)
    BY <1>5, <1>6, <2>1
  <2> QED BY <1>3, <1>4, <2>1, <2>2, ServedSame
<1>10. CASE DeckClear(d)
  <2>1. /\ \A q \in Pointer : q # p => At(q)' = At(q)
        /\ deck[d].step = "clear" /\ deck'[d].step = "idle"
        /\ At(p)'.prefixes[1] = NONE /\ UNCHANGED served
    <3>1. /\ OnlyAt(p) /\ deck'[d] = Idle
          /\ At(p)'.prefixes = [At(p).prefixes EXCEPT ![1] = NONE]
      BY <1>0, <1>1, <1>10, ClearEntry
    <3>2. deck[d].step = "clear" /\ UNCHANGED served
      BY <1>10 DEF DeckClear, history
    <3>3. At(p).prefixes \in [1 .. STEPS -> {NONE} \cup Deck] /\ 1 \in 1 .. STEPS
      BY <1>0, EntryParts, PipelineConstants
    <3>4. At(p)'.prefixes[1] = NONE
      BY <3>1, <3>3
    <3>5. Idle.step = "idle"
      BY DEF Idle
    <3> QED BY <3>1, <3>2, <3>4, <3>5 DEF OnlyAt
  <2>2. \A q \in Pointer : Processed(q)' <=> Processed(q)
    BY <1>5, <1>6, <2>1
  <2> QED BY <1>3, <1>4, <2>1, <2>2, ServedSame
<1> QED BY <1>7, <1>8, <1>9, <1>10 DEF DeckRun

LEMMA NextServed ==
  ASSUME SyncInv, AnsweredInv, ServedInv, SyncNext
  PROVE  ServedInv'
<1>0. TypeOK /\ KeysInv /\ IdInv /\ EntryInv /\ StageInv /\ CoreInv
  BY DEF SyncInv, CoreInv, KeysInv, RoutingInv
<1>1. ASSUME UNCHANGED <<table, deck, served>> PROVE ServedInv'
  <2>1. \A p \in Pointer : At(p)' = At(p)
    BY <1>1 DEF At
  <2>2. \A p \in Pointer : /\ Used(p)' <=> Used(p)
                           /\ Processed(p)' <=> Processed(p)
    BY <1>1, <2>1 DEF Used, Processed, Live
  <2> QED BY <1>1, <2>1, <2>2, ServedSame
<1>2. CASE stage = "user" /\ User
  BY <1>1, <1>2, OthersKeep
    DEF User, SubmitCall, SubmitPush, PollCall, PollPop, PollEmpty, history
<1>3. ASSUME NEW here, NEW next, Pass(here, next) PROVE ServedInv'
  BY <1>1, <1>3, OthersKeep DEF Pass, pipeVars, history
<1>4. CASE stage = "receiver" /\ Receiver
  BY <1>1, <1>4, OthersKeep
    DEF Receiver, ReceiverTake, ReceiverForward, ReceiverTimeout, history
<1>5. CASE stage = "center" /\ Center
  <2>0. UNCHANGED <<deck, served>>
    BY <1>5, OthersKeep DEF Center, CenterTake, CenterRespond, CenterTimeout
  <2>1. CASE UNCHANGED table
    BY <1>1, <2>0, <2>1
  <2>2. CASE ~ UNCHANGED table
    <3>1. CenterTake /\ centerRing # <<>>
      BY <1>5, <2>2, OthersKeep DEF Center, CenterTake
    <3>2. PICK ev : ev = Head(centerRing)
      OBVIOUS
    <3>3. /\ ev \in Event /\ ev = centerRing[1] /\ 1 \in 1 .. Len(centerRing)
          /\ centerRing \in Seq(Event)
      BY <1>0, <3>1, <3>2, TypeParts, RingHead DEF CenterRingTyped
    <3>4. ev.id \in EventId
      <4>1. ev.id \in FirstId .. nextId /\ nextId \in 1 .. MaxEvents + 1
        BY <1>0, <3>3, TypeParts DEF IdInv, ReceiverTyped
      <4> QED BY <4>1, PipelineConstants DEF EventId, FirstId
    <3>5. Insert(ev) /\ ~ UNCHANGED tableVars
      BY <2>2, <3>1, <3>2 DEF CenterTake, tableVars
    <3>6. PICK p \in Pointer : Inserted(ev, p)
      BY <1>0, <3>3, <3>4, <3>5, InsertGives
    <3>7. /\ At(p)' = NewEntry(ev)
          /\ \A q \in Pointer : q # p => At(q)' = At(q)
      BY <3>6 DEF Inserted, OnlyAt
    <3>8. ev.req \in Req /\ served[ev.req] = 0
      <4>1. ev.req \in Req
        BY <3>3 DEF Event
      <4>2. Holding(centerRing, ev.req) \in Nat /\ Holding(centerRing, ev.req) >= 1
        <5>1. Holding(centerRing, ev.req) = Holding(Tail(centerRing), ev.req) + 1
          BY <3>1, <3>2, <3>3, HoldingHead
        <5>2. Holding(Tail(centerRing), ev.req) \in Nat
          BY <3>1, <3>3, RingHead, HoldingIsNumber
        <5> QED BY <5>1, <5>2
      <4>3. Held(ev.req) >= 1
        BY <1>0, <4>1, <4>2, PlacesAre DEF Held
      <4> QED BY <1>0, <4>1, <4>3, HeldIsNew DEF CoreInv
    <3>9. ~ Processed(p)'
      <4>1. \A d \in Deck : deck'[d].step = "idle"
        BY <1>0, <1>5, <2>0, DeckStages, DecksAtRest DEF Busy
      <4>2. /\ At(p)'.prefixes[1] \in Deck /\ At(p)'.id # 0
            /\ At(p)'.state = "processing"
        BY <3>3, <3>4, <3>7, NewEntryIs, NewEntryRoute
      <4>3. NONE \notin Deck
        BY DEF NONE, Deck
      <4> QED BY <4>1, <4>2, <4>3 DEF Processed, Live
    <3>10. ASSUME NEW q \in Pointer, Used(q)', NEW x, x = At(q)'.req
           PROVE  served'[x] = IF Processed(q)' THEN 1 ELSE 0
      <4>1. CASE q = p
        <5>1. x = ev.req
          BY <3>3, <3>4, <3>7, <3>10, <4>1, NewEntryIs
        <5> QED BY <2>0, <3>8, <3>9, <4>1, <5>1
      <4>2. CASE q # p
        <5>1. Used(q) /\ x = At(q).req /\ (Processed(q)' <=> Processed(q))
          BY <2>0, <3>7, <3>10, <4>2 DEF Used, Processed, Live
        <5>2. served[x] = IF Processed(q) THEN 1 ELSE 0
          BY <5>1 DEF ServedInv
        <5> QED BY <2>0, <5>1, <5>2
      <4> QED BY <4>1, <4>2
    <3> QED BY <3>10 DEF ServedInv
  <2> QED BY <2>1, <2>2
<1>6. CASE GuideTurn
  <2>1. GuideScan /\ UNCHANGED <<deck, served>> /\ \A d \in Deck : ~ Busy(d)
    <3>1. \A d \in Deck : ~ Busy(d)
      BY <1>0, <1>6, DeckStages, DecksAtRest DEF GuideTurn
    <3> QED BY <1>6, <3>1 DEF GuideTurn, GuideScan, history
  <2>2. ASSUME NEW p \in Pointer, Used(p)'
        PROVE  Used(p) /\ At(p)'.req = At(p).req /\ (Processed(p)' <=> Processed(p))
    <3>1. /\ At(p)'.id = At(p).id /\ At(p)'.req = At(p).req
          /\ At(p)'.prefixes = At(p).prefixes
          /\ ~ Finished(p) => At(p)' = At(p)
          /\ Finished(p) => At(p).prefixes[1] = NONE
      BY <1>0, <2>1, ScanEntries
    <3>2. CASE Finished(p)
      BY <2>2, <3>1, <3>2 DEF Processed, Used
    <3>3. CASE ~ Finished(p)
      BY <2>1, <2>2, <3>1, <3>3 DEF Processed, Used, Live
    <3> QED BY <3>2, <3>3
  <2> QED BY <2>1, <2>2, ServedSame
<1>7. CASE stage = "execution" /\ Execution
  <2>1. CASE ExecTake \/ ExecRespond
    BY <1>1, <1>7, <2>1, OthersKeep DEF ExecTake, ExecRespond, history
  <2>2. CASE ExecRemove
    <3>1. PICK p \in Pointer : p = exe[1].at /\ Removed(p)
      BY <1>0, <2>2, RemoveGives
    <3>2. UNCHANGED <<deck, served>>
      BY <2>2 DEF ExecRemove, history
    <3>3. ASSUME NEW q \in Pointer, Used(q)'
          PROVE  Used(q) /\ At(q)'.req = At(q).req /\ (Processed(q)' <=> Processed(q))
      <4>1. q # p
        BY <3>1, <3>3 DEF Removed, Used
      <4>2. At(q)' = At(q)
        BY <3>1, <4>1 DEF Removed, OnlyAt
      <4> QED BY <3>2, <3>3, <4>2 DEF Used, Processed, Live
    <3> QED BY <3>2, <3>3, ServedSame
  <2> QED BY <1>7, <2>1, <2>2 DEF Execution
<1>8. ASSUME NEW d \in Deck, stage = DeckStage[d], DeckRun(d) PROVE ServedInv'
  BY <1>8, NextServedDeck
<1> QED BY <1>2, <1>3, <1>4, <1>5, <1>6, <1>7, <1>8, SyncSteps

LEMMA NextService ==
  ASSUME SyncInv, ServiceInv, SyncInv', [SyncNext]_vars
  PROVE  ServiceInv'
<1>1. CASE SyncNext
  BY <1>1, NextAnswered, NextServed DEF ServiceInv
<1>2. CASE UNCHANGED vars
  <2>1. UNCHANGED <<table, deck, exe, served, fate>>
    BY <1>2 DEF vars, pipeVars, tableVars, history
  <2>2. \A p : At(p)' = At(p)
    BY <2>1 DEF At
  <2> QED BY <2>1, <2>2
          DEF ServiceInv, AnsweredInv, ServedInv, Used, Answered, Processed, Live
<1> QED BY <1>1, <1>2

\* In the kernel's own schedule a request that is answered SUCCESS was processed
\* by a deck, once, and one that is dropped, denied or rejected was not.
THEOREM PipelineImplementsService == SyncSpec => ImplementsService
<1>1. SyncInit => SyncInv /\ ServiceInv
  BY InitSync, InitService
<1>2. SyncInv /\ ServiceInv /\ [SyncNext]_vars => SyncInv' /\ ServiceInv'
  BY NextSync, NextService
<1>3. SyncInit => Service!Init
  BY DEF SyncInit, Init, Service!Init
<1>4. SyncInv /\ ServiceInv /\ SyncInv' /\ [SyncNext]_vars
        => [Service!Next]_(Service!serviceVars)
  BY ServiceSteps DEF SyncInv
<1> QED BY <1>1, <1>2, <1>3, <1>4, PTL DEF SyncSpec, ImplementsService, Service!Spec

-------------------------------------------------------------------------------
(***************************************************************************)
(* Whose data a response carries.                                          *)
(***************************************************************************)
Own(r) == r.result \in {0, r.req}

EntryResults ==
  \A p \in Pointer : Used(p) => \A d \in Deck : At(p).results[d] \in {0, At(p).req}
HandResults ==
  /\ exe # <<>> => Own(exe[1].response)
  /\ ctr # <<>> => Own(ctr[1])
AnswerResults ==
  /\ \A i \in 1 .. Len(respRing) : Own(respRing[i])
  /\ \A i \in 0 .. CACHE - 1 : cache[i] # <<>> => Own(cache[i][1])
ResultInv == EntryResults /\ HandResults /\ AnswerResults

\* The response collect_results makes of an entry holds one of its results.
LEMMA CollectOwn ==
  ASSUME NEW e, \A d \in Deck : e.results[d] \in {0, e.req}
  PROVE  Own(Collect(e))
<1> DEFINE with == {d \in Deck : e.results[d] # 0}
<1>1. CASE with = {}
  BY <1>1 DEF Own, Collect
<1>2. CASE with # {}
  <2>1. with \subseteq 1 .. 4
    BY DEF Deck
  <2>2. \E x \in with : \A y \in with : x >= y
    <3> HIDE DEF with
    <3>1. CASE 4 \in with
      BY <2>1, <3>1
    <3>2. CASE 4 \notin with /\ 3 \in with
      BY <2>1, <3>2
    <3>3. CASE 4 \notin with /\ 3 \notin with /\ 2 \in with
      BY <2>1, <3>3
    <3>4. CASE 4 \notin with /\ 3 \notin with /\ 2 \notin with
      <4>1. 1 \in with /\ \A y \in with : y = 1
        <5>1. \A y \in 1 .. 4 : y = 1 \/ y = 2 \/ y = 3 \/ y = 4
          OBVIOUS
        <5>2. \A y \in with : y = 1
          BY <2>1, <3>4, <5>1
        <5>3. PICK x : x \in with
          BY <1>2
        <5> QED BY <5>2, <5>3
      <4> QED BY <4>1
    <3> QED BY <3>1, <3>2, <3>3, <3>4
  <2>3. Max(with) \in with
    <3> HIDE DEF with
    <3> QED BY <2>2 DEF Max
  <2>4. Max(with) \in Deck
    BY <2>3
  <2>5. Collect(e).result = e.results[Max(with)] /\ Collect(e).req = e.req
    BY <1>2 DEF Collect
  <2> QED BY <2>4, <2>5 DEF Own
<1> QED BY <1>1, <1>2

LEMMA InitResults == SyncInit => ResultInv
<1> SUFFICES ASSUME SyncInit PROVE ResultInv
  OBVIOUS
<1>1. \A p \in Pointer : At(p).id = 0
  BY DEF SyncInit, Init, At, Pointer, FreeEntry
<1>2. /\ exe = <<>> /\ ctr = <<>> /\ Len(respRing) = 0
      /\ \A i \in 0 .. CACHE - 1 : cache[i] = <<>>
  BY DEF SyncInit, Init
<1> QED BY <1>1, <1>2 DEF ResultInv, EntryResults, HandResults, AnswerResults, Used

LEMMA EntriesKeepResults ==
  ASSUME EntryResults,
         \A p \in Pointer : Used(p)' =>
           Used(p) /\ At(p)'.req = At(p).req /\ At(p)'.results = At(p).results
  PROVE  EntryResults'
<1> SUFFICES ASSUME NEW p \in Pointer, Used(p)', NEW d \in Deck
             PROVE  At(p)'.results[d] \in {0, At(p)'.req}
  BY DEF EntryResults
<1>1. Used(p) /\ At(p)'.req = At(p).req /\ At(p)'.results = At(p).results
  OBVIOUS
<1>2. At(p).results[d] \in {0, At(p).req}
  BY <1>1 DEF EntryResults
<1> QED BY <1>1, <1>2

LEMMA NextEntryResults ==
  ASSUME SyncInv, EntryResults, SyncNext
  PROVE  EntryResults'
<1>0. TypeOK /\ KeysInv /\ IdInv /\ EntryInv /\ StageInv
  BY DEF SyncInv, CoreInv, KeysInv, RoutingInv
<1>1. ASSUME UNCHANGED table PROVE EntryResults'
  <2>1. \A p \in Pointer : At(p)' = At(p)
    BY <1>1 DEF At
  <2> QED BY <2>1, EntriesKeepResults DEF Used
<1>2. CASE stage = "center" /\ Center /\ ~ UNCHANGED table
  <2>1. CenterTake /\ centerRing # <<>>
    BY <1>2, OthersKeep DEF Center, CenterTake
  <2>2. PICK ev : ev = Head(centerRing)
    OBVIOUS
  <2>3. ev \in Event /\ ev = centerRing[1] /\ 1 \in 1 .. Len(centerRing)
    BY <1>0, <2>1, <2>2, TypeParts, RingHead DEF CenterRingTyped
  <2>4. ev.id \in EventId
    <3>1. ev.id \in FirstId .. nextId /\ nextId \in 1 .. MaxEvents + 1
      BY <1>0, <2>3, TypeParts DEF IdInv, ReceiverTyped
    <3> QED BY <3>1, PipelineConstants DEF EventId, FirstId
  <2>5. Insert(ev) /\ ~ UNCHANGED tableVars
    BY <1>2, <2>1, <2>2 DEF CenterTake, tableVars
  <2>6. PICK p \in Pointer : Inserted(ev, p)
    BY <1>0, <2>3, <2>4, <2>5, InsertGives
  <2>7. /\ At(p)' = NewEntry(ev)
        /\ \A q \in Pointer : q # p => At(q)' = At(q)
    BY <2>6 DEF Inserted, OnlyAt
  <2>8. \A d \in Deck : At(p)'.results[d] = 0
    BY <2>3, <2>4, <2>7, NewEntryRoute
  <2>9. ASSUME NEW q \in Pointer, q # p, Used(q)', NEW d \in Deck
        PROVE  At(q)'.results[d] \in {0, At(q)'.req}
    BY <2>7, <2>9 DEF EntryResults, Used
  <2> QED BY <2>8, <2>9 DEF EntryResults
<1>3. CASE GuideTurn
  <2>1. GuideScan /\ \A d \in Deck : ~ Busy(d)
    BY <1>0, <1>3, DeckStages, DecksAtRest DEF GuideTurn
  <2>2. \A p \in Pointer : /\ At(p)'.id = At(p).id /\ At(p)'.req = At(p).req
                           /\ At(p)'.results = At(p).results
    BY <1>0, <2>1, ScanEntries
  <2> QED BY <2>2, EntriesKeepResults DEF Used
<1>4. ASSUME NEW d \in Deck, stage = DeckStage[d], DeckRun(d) PROVE EntryResults'
  <2>1. PICK p \in Pointer : p = deck[d].at
    BY <1>0, TypeParts DEF DecksTyped
  <2>2. CASE DeckTake(d) \/ \E o \in Outcomes : DeckServe(d, o)
    BY <1>1, <2>2 DEF DeckTake, DeckServe, tableVars
  <2>3. CASE DeckStore(d)
    <3>1. /\ OnlyAt(p) /\ At(p)'.id = At(p).id /\ At(p)'.req = At(p).req
          /\ \A c \in Deck : \/ At(p)'.results[c] = At(p).results[c]
                             \/ At(p)'.results[c] \in {0, deck[d].req}
      BY <1>0, <2>1, <2>3, StoreEntry
    <3>2. deck[d].req = At(p).req
      BY <1>0, <2>1, <2>3 DEF DeckStore, EntryInv
    <3>3. Used(p)' => \A c \in Deck : At(p)'.results[c] \in {0, At(p)'.req}
      <4>1. Used(p)' => \A c \in Deck : At(p).results[c] \in {0, At(p).req}
        BY <3>1 DEF EntryResults, Used
      <4> QED BY <3>1, <3>2, <4>1
    <3>4. ASSUME NEW q \in Pointer, q # p, Used(q)', NEW c \in Deck
          PROVE  At(q)'.results[c] \in {0, At(q)'.req}
      BY <3>1, <3>4 DEF OnlyAt, EntryResults, Used
    <3> QED BY <3>3, <3>4 DEF EntryResults
  <2>4. CASE DeckClear(d)
    <3>1. /\ OnlyAt(p) /\ At(p)'.id = At(p).id /\ At(p)'.req = At(p).req
          /\ At(p)'.results = At(p).results
      <4>1. TypeOK /\ EntryInv /\ DeckClear(d) /\ p = deck[d].at
        BY <1>0, <2>1, <2>4
      <4>2. /\ p \in Pointer /\ OnlyAt(p) /\ deck'[d] = Idle
            /\ At(p)'.prefixes = [At(p).prefixes EXCEPT ![1] = NONE]
            /\ At(p)'.state = At(p).state /\ At(p)'.abort = At(p).abort
            /\ At(p)'.id = At(p).id /\ At(p)'.req = At(p).req
            /\ At(p)'.results = At(p).results
            /\ Live(p) /\ At(p).prefixes[1] = d
        BY <4>1, ClearEntry
      <4> QED BY <4>2
    <3>2. \A q \in Pointer : /\ At(q)'.id = At(q).id /\ At(q)'.req = At(q).req
                             /\ At(q)'.results = At(q).results
      BY <3>1 DEF OnlyAt
    <3> QED BY <3>2, EntriesKeepResults DEF Used
  <2> QED BY <1>4, <2>2, <2>3, <2>4 DEF DeckRun
<1>5. CASE stage = "execution" /\ Execution
  <2>1. CASE ExecTake \/ ExecRespond
    BY <1>1, <2>1, OthersKeep
  <2>2. CASE ExecRemove
    <3>1. PICK p \in Pointer : p = exe[1].at /\ Removed(p)
      BY <1>0, <2>2, RemoveGives
    <3>2. ASSUME NEW q \in Pointer, Used(q)'
          PROVE  Used(q) /\ At(q)'.req = At(q).req /\ At(q)'.results = At(q).results
      <4>1. q # p
        BY <3>1, <3>2 DEF Removed, Used
      <4>2. At(q)' = At(q)
        BY <3>1, <4>1 DEF Removed, OnlyAt
      <4> QED BY <3>2, <4>2 DEF Used
    <3> QED BY <3>2, EntriesKeepResults
  <2> QED BY <1>5, <2>1, <2>2 DEF Execution
<1>6. CASE User \/ Receiver \/ UNCHANGED pipeVars
  BY <1>1, <1>6, OthersKeep
<1> QED BY <1>1, <1>2, <1>3, <1>4, <1>5, <1>6, SyncSteps DEF Pass

LEMMA NextHandResults ==
  ASSUME SyncInv, EntryResults, HandResults, SyncNext
  PROVE  HandResults'
<1>0. TypeOK /\ KeysInv
  BY DEF SyncInv, CoreInv
<1>1. exe' # <<>> => Own(exe'[1].response)
  <2>1. CASE ExecTake
    <3>1. PICK p : p = Head(execQueue)
      OBVIOUS
    <3>2. /\ execQueue \in Seq(Pointer) /\ execQueue # <<>>
          /\ exe' = << [at |-> p, response |-> Collect(At(p)), sent |-> FALSE] >>
      BY <1>0, <2>1, <3>1, TypeParts DEF ExecTake, QueuesTyped
    <3>3. p \in Pointer /\ p = execQueue[1] /\ 1 \in 1 .. Len(execQueue)
      BY <3>1, <3>2, RingHead
    <3>4. Used(p)
      BY <1>0, <3>3 DEF KeysInv, ExecInv, Out
    <3>5. Own(Collect(At(p)))
      BY <3>3, <3>4, CollectOwn DEF EntryResults
    <3> QED BY <3>2, <3>5
  <2>2. CASE ExecRespond
    <3>1. exe \in Seq(Job) /\ Len(exe) <= 1 /\ exe # <<>>
      BY <1>0, <2>2, TypeParts DEF ExecTyped, ExecRespond
    <3>2. exe[1] \in Job
      BY <3>1, OneInHand
    <3>3. exe' = << [exe[1] EXCEPT !.sent = TRUE] >>
      BY <2>2 DEF ExecRespond
    <3>4. exe'[1].response = exe[1].response
      BY <3>2, <3>3 DEF Job
    <3> QED BY <3>1, <3>4 DEF HandResults
  <2>3. CASE ExecRemove
    BY <2>3 DEF ExecRemove
  <2>4. CASE UNCHANGED exe
    BY <2>4 DEF HandResults
  <2> QED BY <2>1, <2>2, <2>3, <2>4, SyncSteps, OthersKeep DEF Pass, GuideTurn, Execution
<1>2. ctr' # <<>> => Own(ctr'[1])
  <2>1. CASE CenterTake
    <3>1. PICK ev : ev = Head(centerRing)
      OBVIOUS
    <3>2. \/ UNCHANGED ctr
          \/ ctr' = << [id |-> ev.id, req |-> ev.req, status |-> "denied", result |-> 0] >>
      BY <2>1, <3>1 DEF CenterTake
    <3> QED BY <3>2 DEF HandResults, Own
  <2>2. CASE CenterRespond \/ CenterTimeout
    BY <2>2 DEF CenterRespond, CenterTimeout
  <2>3. CASE UNCHANGED ctr
    BY <2>3 DEF HandResults
  <2> QED BY <2>1, <2>2, <2>3, SyncSteps, OthersKeep DEF Pass, GuideTurn, Center
<1> QED BY <1>1, <1>2 DEF HandResults

\* Appending to a sequence adds one element at its end.
LEMMA AppendIs ==
  ASSUME NEW S, NEW q \in Seq(S), NEW x \in S
  PROVE  /\ Len(Append(q, x)) = Len(q) + 1 /\ Len(q) \in Nat
         /\ \A i \in 1 .. Len(q) + 1 :
              Append(q, x)[i] = IF i = Len(q) + 1 THEN x ELSE q[i]
OBVIOUS

\* A response in a component's hand carries its own data into the ring.
LEMMA RingTakesOwn ==
  ASSUME TypeOK, AnswerResults, NEW r \in Response, Own(r), UNCHANGED cache,
         respRing' = Append(respRing, r)
  PROVE  AnswerResults'
<1>1. respRing \in Seq(Response)
  BY TypeParts DEF RespRingTyped
<1>2. ASSUME NEW i \in 1 .. Len(respRing') PROVE Own(respRing'[i])
  <2>1. Len(respRing) \in Nat /\ i \in 1 .. Len(respRing) + 1
    BY <1>1, <1>2, AppendIs
  <2>2. CASE i = Len(respRing) + 1
    BY <1>1, <2>1, <2>2, AppendIs
  <2>3. CASE i # Len(respRing) + 1
    <3>1. i \in 1 .. Len(respRing)
      BY <2>1, <2>3
    <3>2. respRing'[i] = respRing[i]
      BY <1>1, <2>1, <2>3, AppendIs
    <3> QED BY <3>1, <3>2 DEF AnswerResults
  <2> QED BY <2>2, <2>3
<1> QED BY <1>2 DEF AnswerResults

LEMMA NextAnswerResults ==
  ASSUME SyncInv, HandResults, AnswerResults, SyncNext
  PROVE  AnswerResults'
<1>0. TypeOK
  BY DEF SyncInv, CoreInv
<1>1. CASE UNCHANGED <<respRing, cache>>
  BY <1>1 DEF AnswerResults
<1>2. CASE ExecRespond
  <2>1. exe \in Seq(Job) /\ Len(exe) <= 1 /\ exe # <<>>
    BY <1>0, <1>2, TypeParts DEF ExecTyped, ExecRespond
  <2>2. exe[1] \in Job
    BY <2>1, OneInHand
  <2>3. exe[1].response \in Response /\ Own(exe[1].response)
    BY <2>1, <2>2 DEF Job, HandResults
  <2>4. respRing' = Append(respRing, exe[1].response) /\ UNCHANGED cache
    BY <1>2 DEF ExecRespond, userVars
  <2> QED BY <1>0, <2>3, <2>4, RingTakesOwn
<1>3. CASE CenterRespond
  <2>1. ctr \in Seq(Response) /\ Len(ctr) <= 1 /\ ctr # <<>>
    BY <1>0, <1>3, TypeParts DEF CenterTyped, CenterRespond
  <2>2. ctr[1] \in Response /\ Own(ctr[1])
    BY <2>1, OneInHand DEF HandResults
  <2>3. respRing' = Append(respRing, ctr[1]) /\ UNCHANGED cache
    BY <1>3 DEF CenterRespond, userVars
  <2> QED BY <1>0, <2>2, <2>3, RingTakesOwn
<1>4. CASE PollPop
  <2>1. PICK r : r = Head(respRing)
    OBVIOUS
  <2>2. /\ respRing # <<>> /\ respRing' = Tail(respRing)
        /\ cache' = [cache EXCEPT ![CacheIndex(r.id)] = <<r>>]
    BY <1>4, <2>1 DEF PollPop
  <2>3. respRing \in Seq(Response)
    BY <1>0, TypeParts DEF RespRingTyped
  <2>4. /\ r = respRing[1] /\ Len(respRing) \in Nat /\ Len(respRing) > 0
        /\ Len(respRing') = Len(respRing) - 1
        /\ \A i \in 1 .. Len(respRing) - 1 : respRing'[i] = respRing[i + 1]
    BY <2>1, <2>2, <2>3, RingHead
  <2>5. Own(r)
    BY <2>4 DEF AnswerResults
  <2>6. ASSUME NEW i \in 1 .. Len(respRing') PROVE Own(respRing'[i])
    <3>1. i + 1 \in 1 .. Len(respRing) /\ i \in 1 .. Len(respRing) - 1
      BY <2>4, <2>6
    <3> QED BY <2>4, <3>1 DEF AnswerResults
  <2>7. ASSUME NEW i \in 0 .. CACHE - 1, cache'[i] # <<>> PROVE Own(cache'[i][1])
    <3>1. cache'[i] = IF i = CacheIndex(r.id) THEN <<r>> ELSE cache[i]
      <4>1. DOMAIN cache = 0 .. CACHE - 1
        BY <1>0, TypeParts DEF UserTyped
      <4> QED BY <2>2, <2>7, <4>1
    <3>2. CASE i = CacheIndex(r.id)
      BY <2>5, <3>1, <3>2
    <3>3. CASE i # CacheIndex(r.id)
      BY <2>7, <3>1, <3>3 DEF AnswerResults
    <3> QED BY <3>2, <3>3
  <2> QED BY <2>6, <2>7 DEF AnswerResults
<1>5. CASE User /\ ~ PollPop
  BY <1>1, <1>5 DEF User, SubmitCall, SubmitPush, PollCall, PollEmpty
<1>6. CASE Receiver \/ UNCHANGED pipeVars
  BY <1>1, <1>6
     DEF Receiver, ReceiverTake, ReceiverForward, ReceiverTimeout, userVars, pipeVars
<1>7. CASE Center
  BY <1>1, <1>3, <1>7 DEF Center, CenterTake, CenterTimeout, userVars
<1>8. CASE GuideTurn
  BY <1>1, <1>8 DEF GuideTurn, GuideScan, userVars
<1>9. ASSUME NEW d \in Deck, DeckRun(d) PROVE AnswerResults'
  BY <1>1, <1>9 DEF DeckRun, DeckTake, DeckServe, DeckStore, DeckClear, userVars
<1>10. CASE Execution
  BY <1>1, <1>2, <1>10 DEF Execution, ExecTake, ExecRemove, userVars
<1> QED BY <1>4, <1>5, <1>6, <1>7, <1>8, <1>9, <1>10, SyncSteps DEF Pass

LEMMA NextResults ==
  ASSUME SyncInv, ResultInv, [SyncNext]_vars
  PROVE  ResultInv'
<1>1. CASE SyncNext
  BY <1>1, NextEntryResults, NextHandResults, NextAnswerResults DEF ResultInv
<1>2. CASE UNCHANGED vars
  <2>1. UNCHANGED <<table, exe, ctr, respRing, cache>>
    BY <1>2 DEF vars, pipeVars, tableVars, userVars
  <2>2. \A p : At(p)' = At(p)
    BY <2>1 DEF At
  <2> QED BY <2>1, <2>2
          DEF ResultInv, EntryResults, HandResults, AnswerResults, Used
<1> QED BY <1>1, <1>2

LEMMA AnswersAreOwn ==
  ASSUME TypeOK, AnswerResults
  PROVE  OwnResult
<1> SUFFICES ASSUME NEW r \in Responses PROVE Own(r)
  BY DEF OwnResult, Own
<1>1. CASE r \in ToSet(respRing)
  <2>1. respRing \in Seq(Response)
    BY TypeParts DEF RespRingTyped
  <2>2. PICK i \in 1 .. Len(respRing) : r = respRing[i]
    BY <1>1, <2>1 DEF ToSet
  <2> QED BY <2>2 DEF AnswerResults
<1>2. CASE r \notin ToSet(respRing)
  <2>1. PICK i \in DOMAIN cache : r \in ToSet(cache[i])
    BY <1>2 DEF Responses
  <2>2. /\ i \in 0 .. CACHE - 1
        /\ cache[i] = <<>> \/ \E c \in Response : cache[i] = <<c>>
    BY <2>1, TypeParts DEF UserTyped
  <2>3. cache[i] # <<>>
    BY <2>1 DEF ToSet
  <2>4. PICK c \in Response : cache[i] = <<c>>
    BY <2>2, <2>3
  <2>5. r = c /\ cache[i][1] = c
    BY <2>1, <2>4 DEF ToSet
  <2> QED BY <2>2, <2>3, <2>5 DEF AnswerResults
<1> QED BY <1>1, <1>2

\* In the kernel's own schedule a response never carries the data of another
\* request: collect_results copies a pointer that a deck stored for the event
\* it answers, and an entry starts with no result of the slot's last one.
THEOREM ResponsesCarryOwnData == SyncSpec => []OwnResult
<1>1. SyncInit => SyncInv /\ ResultInv
  BY InitSync, InitResults
<1>2. SyncInv /\ ResultInv /\ [SyncNext]_vars => SyncInv' /\ ResultInv'
  BY NextSync, NextResults
<1>3. SyncInv /\ ResultInv => OwnResult
  BY AnswersAreOwn DEF SyncInv, CoreInv, ResultInv
<1> QED BY <1>1, <1>2, <1>3, PTL DEF SyncSpec

===============================================================================
