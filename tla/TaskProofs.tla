------------------------------ MODULE TaskProofs ------------------------------
(***************************************************************************)
(* For any number of tasks, of slots and of timers: the task table is      *)
(* exact whatever is called, the list of the scheduler is one queue as     *)
(* long as it is used as it is written for, and then the calls are those   *)
(* of the run queue.                                                       *)
(***************************************************************************)
EXTENDS HardwareDeck, TLAPS, FiniteSetTheorems, SequenceTheorems, WellFoundedInduction

-------------------------------------------------------------------------------
(***************************************************************************)
(* Numbers.                                                                *)
(***************************************************************************)

\* The constants as numbers.
LEMMA TaskConstants ==
  /\ MAX_TASKS \in Nat /\ MAX_TASKS > 0
  /\ MaxSpawns \in Nat /\ MaxSpawns > 0
  /\ MaxCareless \in Nat
BY TaskAssumption

\* A set of numbers that is not empty has a least member, and Min finds it.
LEMMA LeastMember ==
  ASSUME NEW S, S \subseteq Nat, S # {}
  PROVE  Min(S) \in S /\ \A t \in S : Min(S) <= t
<1> DEFINE R == OpToRel(<, Nat)
<1>1. \E x \in S : \A y \in S : ~ (<<y, x>> \in R)
  <2> HIDE DEF R
  <2>1. IsWellFoundedOn(R, Nat)
    BY NatLessThanWellFounded DEF R
  <2> QED BY <2>1, WFMin
<1>2. \A x, y \in Nat : y < x => <<y, x>> \in R
  BY DEF OpToRel
<1>3. \E x \in S : \A y \in S : x <= y
  <2> HIDE DEF R
  <2>1. PICK x \in S : \A y \in S : ~ (<<y, x>> \in R)
    BY <1>1
  <2>2. ASSUME NEW y \in S PROVE x <= y
    <3>1. x \in Nat /\ y \in Nat /\ ~ (y < x)
      BY <1>2, <2>1
    <3> QED BY <3>1
  <2> QED BY <2>2
<1> QED BY <1>3 DEF Min

-------------------------------------------------------------------------------
(***************************************************************************)
(* The walk along the list.                                                *)
(***************************************************************************)
Pointer == Task \cup {NULL}

\* Walk for a given head and given next fields.
WalkOf(h, nx) ==
  CHOOSE w : w = [n \in 0 .. MaxSpawns |->
    IF n = 0 THEN h ELSE IF w[n - 1] = NULL THEN NULL ELSE nx[w[n - 1]]]

\* The first m + 1 steps of the walk.
IsWalk(w, m, h, nx) ==
  /\ w \in [0 .. m -> Pointer]
  /\ w[0] = h
  /\ \A n \in 1 .. m : w[n] = IF w[n - 1] = NULL THEN NULL ELSE nx[w[n - 1]]

\* There is a walk of any length: a shortest one that is missing could be made
\* from the one before it.
LEMMA WalkExists ==
  ASSUME NEW h \in Pointer, NEW nx \in [Task -> Pointer], NEW m \in Nat
  PROVE  \E w : IsWalk(w, m, h, nx)
<1> DEFINE Missing == {k \in Nat : ~ \E w : IsWalk(w, k, h, nx)}
<1> SUFFICES ASSUME Missing # {} PROVE FALSE
  OBVIOUS
<1>1. Min(Missing) \in Missing /\ \A k \in Missing : Min(Missing) <= k
  <2>1. Missing \subseteq Nat
    OBVIOUS
  <2> HIDE DEF Missing
  <2> QED BY <2>1, LeastMember
<1> DEFINE k == Min(Missing)
<1>2. k \in Nat /\ ~ \E w : IsWalk(w, k, h, nx)
  BY <1>1
<1>3. k # 0
  <2>1. IsWalk([n \in 0 .. 0 |-> h], 0, h, nx)
    BY DEF IsWalk
  <2> QED BY <1>2, <2>1
<1>4. k - 1 \in Nat /\ k - 1 \notin Missing
  <2> HIDE DEF Missing
  <2> QED BY <1>1, <1>2, <1>3
<1>5. PICK w : IsWalk(w, k - 1, h, nx)
  BY <1>4
<1> DEFINE v == [n \in 0 .. k |-> IF n < k THEN w[n]
                   ELSE IF w[k - 1] = NULL THEN NULL ELSE nx[w[k - 1]]]
<1>6. IsWalk(v, k, h, nx)
  <2> HIDE DEF k
  <2>1. w[k - 1] \in Pointer
    BY <1>2, <1>3, <1>5 DEF IsWalk
  <2>2. v \in [0 .. k -> Pointer]
    BY <1>2, <1>3, <1>5, <2>1 DEF IsWalk, Pointer
  <2>3. v[0] = h
    BY <1>2, <1>3, <1>5 DEF IsWalk
  <2>4. ASSUME NEW n \in 1 .. k
        PROVE  v[n] = IF v[n - 1] = NULL THEN NULL ELSE nx[v[n - 1]]
    BY <1>2, <1>3, <1>5, <2>4 DEF IsWalk
  <2> QED BY <2>2, <2>3, <2>4 DEF IsWalk
<1> QED BY <1>2, <1>6

\* WalkOf is that walk.
LEMMA WalkOfIs ==
  ASSUME NEW h \in Pointer, NEW nx \in [Task -> Pointer]
  PROVE  IsWalk(WalkOf(h, nx), MaxSpawns, h, nx)
<1> DEFINE IsFix(w) == w = [n \in 0 .. MaxSpawns |->
                 IF n = 0 THEN h ELSE IF w[n - 1] = NULL THEN NULL ELSE nx[w[n - 1]]]
<1>1. PICK w : IsWalk(w, MaxSpawns, h, nx)
  BY WalkExists, TaskConstants
<1>2. IsFix(w)
  BY <1>1, TaskConstants DEF IsWalk
<1>3. IsFix(WalkOf(h, nx))
  <2>1. WalkOf(h, nx) = CHOOSE u : IsFix(u)
    BY DEF WalkOf
  <2> HIDE DEF IsFix
  <2> QED BY <1>2, <2>1
<1> DEFINE u == WalkOf(h, nx)
<1>4. DOMAIN u = 0 .. MaxSpawns /\ u[0] = h
  BY <1>3, TaskConstants
<1>5. \A n \in 1 .. MaxSpawns : u[n] = IF u[n - 1] = NULL THEN NULL ELSE nx[u[n - 1]]
  BY <1>3, TaskConstants
<1>6. u \in [0 .. MaxSpawns -> Pointer]
  <2> SUFFICES ASSUME {n \in 0 .. MaxSpawns : u[n] \notin Pointer} # {} PROVE FALSE
    BY <1>3, TaskConstants
  <2> DEFINE Bad == {n \in 0 .. MaxSpawns : u[n] \notin Pointer}
  <2>1. Bad \subseteq Nat /\ Bad # {}
    BY TaskConstants
  <2>2. Min(Bad) \in Bad /\ \A n \in Bad : Min(Bad) <= n
    <3> HIDE DEF Bad
    <3> QED BY <2>1, LeastMember
  <2> DEFINE b == Min(Bad)
  <2>3. b \in 0 .. MaxSpawns /\ u[b] \notin Pointer /\ \A n \in 0 .. MaxSpawns : n < b => u[n] \in Pointer
    BY <2>1, <2>2
  <2> HIDE DEF b, u
  <2>4. b # 0
    BY <1>4, <2>3
  <2>5. u[b - 1] \in Pointer
    BY <2>3, <2>4, TaskConstants
  <2> QED BY <1>5, <2>3, <2>4, <2>5, TaskConstants DEF Pointer
<1> QED BY <1>4, <1>5, <1>6 DEF IsWalk

\* How many tasks the walk meets, and the sequence of them.
LengthOf(h, nx) == Cardinality({n \in 0 .. MaxSpawns - 1 : WalkOf(h, nx)[n] # NULL})
QueueOf(h, nx) == [i \in 1 .. LengthOf(h, nx) |-> WalkOf(h, nx)[i - 1]]

\* The definitions of the model in these terms.
LEMMA QueueIs ==
  /\ Length = LengthOf(head, next)
  /\ Queue = QueueOf(head, next)
BY DEF Length, Queue, Walk, LengthOf, QueueOf, WalkOf

\* What the walk meets before its first NULL is the queue: if the walk is not
\* NULL exactly below k, then k is its length.
LEMMA LengthFrom ==
  ASSUME NEW h, NEW nx, NEW k \in 0 .. MaxSpawns,
         \A n \in 0 .. MaxSpawns - 1 : WalkOf(h, nx)[n] # NULL <=> n < k
  PROVE  LengthOf(h, nx) = k
<1>1. {n \in 0 .. MaxSpawns - 1 : WalkOf(h, nx)[n] # NULL} = 0 .. k - 1
  BY TaskConstants
<1>2. Cardinality(0 .. k - 1) = k
  BY FS_Interval, TaskConstants
<1> QED BY <1>1, <1>2 DEF LengthOf

\* The walk is not NULL exactly below its length.
LEMMA LengthIs ==
  ASSUME NEW h \in Pointer, NEW nx \in [Task -> Pointer]
  PROVE  /\ LengthOf(h, nx) \in 0 .. MaxSpawns
         /\ \A n \in 0 .. MaxSpawns - 1 : WalkOf(h, nx)[n] # NULL <=> n < LengthOf(h, nx)
         /\ LengthOf(h, nx) < MaxSpawns => WalkOf(h, nx)[LengthOf(h, nx)] = NULL
<1> DEFINE w == WalkOf(h, nx)
           Ends == {n \in 0 .. MaxSpawns : n = MaxSpawns \/ w[n] = NULL}
           k == Min(Ends)
<1>1. IsWalk(w, MaxSpawns, h, nx)
  BY WalkOfIs
<1>2. k \in Ends /\ \A n \in Ends : k <= n
  <2>1. Ends \subseteq Nat /\ Ends # {}
    BY TaskConstants
  <2> HIDE DEF Ends
  <2> QED BY <2>1, LeastMember
<1> HIDE DEF k, w
<1>3. ASSUME NEW n \in 0 .. MaxSpawns - 1, n < k PROVE w[n] # NULL
  BY <1>2, <1>3, TaskConstants
<1>4. ASSUME NEW n \in 0 .. MaxSpawns - 1, n >= k PROVE w[n] = NULL
  <2> DEFINE Bad == {i \in 0 .. MaxSpawns - 1 : i >= k /\ w[i] # NULL}
  <2> SUFFICES ASSUME Bad # {} PROVE FALSE
    BY <1>4
  <2>1. Bad \subseteq Nat
    BY TaskConstants
  <2>2. Min(Bad) \in Bad /\ \A i \in Bad : Min(Bad) <= i
    <3> HIDE DEF Bad
    <3> QED BY <2>1, LeastMember
  <2> DEFINE b == Min(Bad)
  <2>3. b \in 0 .. MaxSpawns - 1 /\ b >= k /\ w[b] # NULL
    BY <2>2
  <2>4. b # k
    BY <1>2, <2>3, TaskConstants
  <2>5. w[b - 1] = NULL
    <3>1. b - 1 \in 0 .. MaxSpawns - 1 /\ b - 1 >= k
      BY <1>2, <2>3, <2>4, TaskConstants
    <3>2. b - 1 \notin Bad
      <4>1. \A i \in Bad : b <= i
        BY <2>2
      <4> HIDE DEF Bad, b
      <4> QED BY <2>3, <4>1
    <3> QED BY <3>1, <3>2
  <2> HIDE DEF b
  <2>6. b \in 1 .. MaxSpawns
    BY <1>2, <2>3, <2>4, TaskConstants
  <2> QED BY <1>1, <2>3, <2>5, <2>6 DEF IsWalk
<1>5. k \in 0 .. MaxSpawns
  BY <1>2
<1>6. LengthOf(h, nx) = k
  <2>1. \A n \in 0 .. MaxSpawns - 1 : w[n] # NULL <=> n < k
    BY <1>3, <1>4, <1>5, TaskConstants
  <2> QED BY <1>5, <2>1, LengthFrom DEF w
<1> QED BY <1>2, <1>3, <1>4, <1>5, <1>6, TaskConstants DEF w

\* The queue is a sequence of tasks that begins at the head, and each one but
\* the last points to the one after it.
LEMMA QueueOfIs ==
  ASSUME NEW h \in Pointer, NEW nx \in [Task -> Pointer]
  PROVE  LET q == QueueOf(h, nx)
             k == LengthOf(h, nx)
         IN  /\ q \in [1 .. k -> Task]
             /\ h = IF k = 0 THEN NULL ELSE q[1]
             /\ \A i \in 1 .. k - 1 : nx[q[i]] = q[i + 1]
<1> DEFINE w == WalkOf(h, nx)
           k == LengthOf(h, nx)
<1>1. IsWalk(w, MaxSpawns, h, nx)
  BY WalkOfIs
<1>2. /\ k \in 0 .. MaxSpawns
      /\ \A n \in 0 .. MaxSpawns - 1 : w[n] # NULL <=> n < k
  BY LengthIs
<1>3. QueueOf(h, nx) = [i \in 1 .. k |-> w[i - 1]]
  BY DEF QueueOf
<1> HIDE DEF w, k
<1>4. ASSUME NEW i \in 1 .. k PROVE w[i - 1] \in Task
  <2>1. i - 1 \in 0 .. MaxSpawns - 1 /\ i - 1 < k /\ i - 1 \in 0 .. MaxSpawns
    BY <1>2, TaskConstants
  <2> QED BY <1>1, <1>2, <2>1 DEF IsWalk, Pointer
<1>5. h = IF k = 0 THEN NULL ELSE w[0]
  BY <1>1, <1>2, TaskConstants DEF IsWalk
<1>6. ASSUME NEW i \in 1 .. k - 1 PROVE nx[w[i - 1]] = w[i]
  <2>1. i \in 1 .. MaxSpawns /\ i \in 1 .. k
    BY <1>2, TaskConstants
  <2>2. w[i - 1] # NULL
    BY <1>4, <2>1 DEF Task, NULL
  <2> QED BY <1>1, <2>1, <2>2 DEF IsWalk
<1> QED BY <1>2, <1>3, <1>4, <1>5, <1>6 DEF k

-------------------------------------------------------------------------------
(***************************************************************************)
(* Lists.                                                                  *)
(***************************************************************************)

\* The n tasks of q are the list that begins at h and ends at tl.
Lists(q, n, h, tl, nx, pv) ==
  /\ n \in Nat /\ q \in [1 .. n -> Task]
  /\ \A i, j \in 1 .. n : q[i] = q[j] => i = j
  /\ h = IF n = 0 THEN NULL ELSE q[1]
  /\ tl = IF n = 0 THEN NULL ELSE q[n]
  /\ \A i \in 1 .. n : pv[q[i]] = IF i = 1 THEN NULL ELSE q[i - 1]
  /\ \A i \in 1 .. n : nx[q[i]] = IF i = n THEN NULL ELSE q[i + 1]

\* The sequence q of length n with t at its end, without its k-th element, and
\* with its first element moved to the end.
Added(q, n, t) == [i \in 1 .. n + 1 |-> IF i = n + 1 THEN t ELSE q[i]]
Without(q, n, k) == [i \in 1 .. n - 1 |-> q[IF i < k THEN i ELSE i + 1]]
Rotated(q, n) == [i \in 1 .. n |-> IF i = n THEN q[1] ELSE q[i + 1]]

\* No list is longer than there are tasks.
LEMMA ListIsBounded ==
  ASSUME NEW n \in Nat, NEW q \in [1 .. n -> Task],
         \A i, j \in 1 .. n : q[i] = q[j] => i = j
  PROVE  n <= MaxSpawns
<1>1. q \in Injection(1 .. n, Task)
  BY DEF Injection, IsInjective
<1>2. IsFiniteSet(Task) /\ Cardinality(Task) = MaxSpawns
  BY FS_Interval, TaskConstants DEF Task
<1>3. Cardinality(1 .. n) <= MaxSpawns
  BY <1>1, <1>2, FS_Injection
<1>4. Cardinality(1 .. n) = n
  BY FS_Interval
<1> QED BY <1>3, <1>4

\* A list is the queue that the walk finds, and no other.
LEMMA ListIsQueue ==
  ASSUME NEW h \in Pointer, NEW nx \in [Task -> Pointer],
         NEW q, NEW n, NEW tl, NEW pv, Lists(q, n, h, tl, nx, pv)
  PROVE  LengthOf(h, nx) = n /\ QueueOf(h, nx) = q
<1> DEFINE w == WalkOf(h, nx)
           Wrong == {i \in 0 .. MaxSpawns : w[i] # IF i < n THEN q[i + 1] ELSE NULL}
<1>1. IsWalk(w, MaxSpawns, h, nx)
  BY WalkOfIs
<1>2. n \in 0 .. MaxSpawns
  BY ListIsBounded, TaskConstants DEF Lists
<1> HIDE DEF w
<1>3. Wrong = {}
  <2> SUFFICES ASSUME Wrong # {} PROVE FALSE
    OBVIOUS
  <2> DEFINE b == Min(Wrong)
  <2>1. b \in Wrong /\ \A i \in Wrong : b <= i
    <3>1. Wrong \subseteq Nat
      BY TaskConstants
    <3> HIDE DEF Wrong
    <3> QED BY <3>1, LeastMember
  <2>2. b \in 0 .. MaxSpawns /\ w[b] # IF b < n THEN q[b + 1] ELSE NULL
    BY <2>1
  <2> HIDE DEF b
  <2>3. b # 0
    BY <1>1, <1>2, <2>2 DEF IsWalk, Lists
  <2>4. w[b - 1] = IF b - 1 < n THEN q[b] ELSE NULL
    <3>1. b - 1 \in 0 .. MaxSpawns /\ b - 1 < b /\ b - 1 + 1 = b
      BY <2>2, <2>3, TaskConstants
    <3>2. b - 1 \notin Wrong
      <4> HIDE DEF Wrong
      <4> QED BY <2>1, <2>2, <3>1, TaskConstants
    <3> QED BY <3>1, <3>2
  <2>5. w[b] = IF w[b - 1] = NULL THEN NULL ELSE nx[w[b - 1]]
    BY <1>1, <2>2, <2>3, TaskConstants DEF IsWalk
  <2>6. CASE b - 1 < n
    <3>1. b \in 1 .. n /\ q[b] \in Task
      BY <1>2, <2>2, <2>3, <2>6, TaskConstants DEF Lists
    <3>2. w[b] = nx[q[b]]
      BY <2>4, <2>5, <2>6, <3>1 DEF Task, NULL
    <3>3. nx[q[b]] = IF b = n THEN NULL ELSE q[b + 1]
      BY <3>1 DEF Lists
    <3> QED BY <1>2, <2>2, <3>1, <3>2, <3>3, TaskConstants
  <2>7. CASE ~ (b - 1 < n)
    BY <1>2, <2>2, <2>4, <2>5, <2>7, TaskConstants
  <2> QED BY <2>6, <2>7
<1>4. \A i \in 0 .. MaxSpawns - 1 : w[i] = IF i < n THEN q[i + 1] ELSE NULL
  BY <1>3, TaskConstants
<1>5. \A i \in 0 .. MaxSpawns - 1 : w[i] # NULL <=> i < n
  BY <1>2, <1>4, TaskConstants DEF Lists, Task, NULL
<1>6. LengthOf(h, nx) = n
  BY <1>2, <1>5, LengthFrom DEF w
<1>7. \A i \in 1 .. n : w[i - 1] = q[i]
  BY <1>2, <1>4, TaskConstants
<1> QED BY <1>6, <1>7 DEF QueueOf, Lists, w

\* scheduler_enqueue puts a task that is not in the list at its end.
LEMMA EnqueueList ==
  ASSUME NEW h \in Pointer, NEW tl \in Pointer,
         NEW nx \in [Task -> Pointer], NEW pv \in [Task -> Pointer],
         NEW q, NEW n, Lists(q, n, h, tl, nx, pv),
         NEW t \in Task, \A i \in 1 .. n : q[i] # t
  PROVE  Lists(Added(q, n, t), n + 1,
               IF tl = NULL THEN t ELSE h, t,
               [u \in Task |-> IF u = tl THEN t ELSE IF u = t THEN NULL ELSE nx[u]],
               [pv EXCEPT ![t] = tl])
<1> DEFINE r == Added(q, n, t)
           nx2 == [u \in Task |-> IF u = tl THEN t ELSE IF u = t THEN NULL ELSE nx[u]]
           pv2 == [pv EXCEPT ![t] = tl]
<1> USE DEF Added
<1>1. n \in Nat /\ n + 1 \in Nat /\ q \in [1 .. n -> Task] /\ r \in [1 .. n + 1 -> Task]
  BY DEF Lists
<1>2. \A i, j \in 1 .. n + 1 : r[i] = r[j] => i = j
  BY <1>1 DEF Lists
<1>3. tl = NULL <=> n = 0
  BY <1>1 DEF Lists, Task, NULL
<1>4. (IF tl = NULL THEN t ELSE h) = r[1] /\ t = r[n + 1]
  BY <1>1, <1>3 DEF Lists
<1>5. ASSUME NEW i \in 1 .. n + 1
      PROVE  pv2[r[i]] = IF i = 1 THEN NULL ELSE r[i - 1]
  <2>1. CASE i = n + 1
    BY <1>1, <1>3, <2>1 DEF Lists
  <2>2. CASE i # n + 1
    BY <1>1, <2>2 DEF Lists
  <2> QED BY <2>1, <2>2
<1>6. ASSUME NEW i \in 1 .. n + 1
      PROVE  nx2[r[i]] = IF i = n + 1 THEN NULL ELSE r[i + 1]
  <2>1. CASE i = n + 1
    <3>1. t # tl
      BY <1>1, <1>3 DEF Lists, Task, NULL
    <3> QED BY <1>1, <2>1, <3>1
  <2>2. CASE i = n
    BY <1>1, <2>2 DEF Lists
  <2>3. CASE i < n
    <3>1. q[i] # tl /\ q[i] # t
      BY <1>1, <2>3 DEF Lists
    <3> QED BY <1>1, <2>3, <3>1 DEF Lists
  <2> QED BY <1>1, <2>1, <2>2, <2>3
<1> HIDE DEF r, nx2, pv2, Added
<1>7. Lists(r, n + 1, IF tl = NULL THEN t ELSE h, t, nx2, pv2)
  BY <1>1, <1>2, <1>4, <1>5, <1>6 DEF Lists
<1> QED BY <1>7 DEF r, nx2, pv2

\* What scheduler_dequeue does to the pointers, and what MoveToTail does.
Dequeued(t, h, tl, nx, pv, h2, tl2, nx2, pv2) ==
  /\ h2 = IF pv[t] = NULL THEN nx[t] ELSE h
  /\ tl2 = IF nx[t] = NULL THEN pv[t] ELSE tl
  /\ \A u \in Task : nx2[u] = IF u = t THEN NULL ELSE IF u = pv[t] THEN nx[t] ELSE nx[u]
  /\ \A u \in Task : pv2[u] = IF u = t THEN NULL ELSE IF u = nx[t] THEN pv[t] ELSE pv[u]

Moved(h, tl, nx, pv, h2, nx2, pv2) ==
  /\ h2 = nx[h]
  /\ \A u \in Task : nx2[u] = IF u = tl THEN h ELSE IF u = h THEN NULL ELSE nx[u]
  /\ \A u \in Task : pv2[u] = IF u = h THEN tl ELSE IF u = nx[h] THEN NULL ELSE pv[u]

\* scheduler_dequeue takes a task out of the list, wherever it is.
LEMMA DequeueList ==
  ASSUME NEW h \in Pointer, NEW tl \in Pointer,
         NEW nx \in [Task -> Pointer], NEW pv \in [Task -> Pointer],
         NEW q, NEW n, Lists(q, n, h, tl, nx, pv),
         NEW k \in 1 .. n, NEW t, t = q[k],
         NEW h2, NEW tl2, NEW nx2, NEW pv2, Dequeued(t, h, tl, nx, pv, h2, tl2, nx2, pv2)
  PROVE  Lists(Without(q, n, k), n - 1, h2, tl2, nx2, pv2)
<1> DEFINE r == Without(q, n, k)
<1> USE DEF Dequeued
<1>1. n \in Nat /\ n - 1 \in Nat /\ q \in [1 .. n -> Task] /\ k \in Nat /\ 1 <= k /\ k <= n
  BY DEF Lists
<1>2. r \in [1 .. n - 1 -> Task] /\ \A i \in 1 .. n - 1 : r[i] = IF i < k THEN q[i] ELSE q[i + 1]
  BY <1>1 DEF Without
<1>3. \A i, j \in 1 .. n - 1 : r[i] = r[j] => i = j
  BY SMTT(20), <1>1, <1>2 DEF Lists
<1>4. t \in Task /\ \A i \in 1 .. n : q[i] # NULL
  BY <1>1 DEF Task, NULL
<1>5. /\ pv[t] = IF k = 1 THEN NULL ELSE q[k - 1]
      /\ nx[t] = IF k = n THEN NULL ELSE q[k + 1]
  BY DEF Lists
<1>6. (pv[t] = NULL <=> k = 1) /\ (nx[t] = NULL <=> k = n)
  BY <1>1, <1>4, <1>5
<1>7. h2 = IF n - 1 = 0 THEN NULL ELSE r[1]
  BY <1>1, <1>2, <1>5, <1>6 DEF Lists
<1>8. tl2 = IF n - 1 = 0 THEN NULL ELSE r[n - 1]
  BY <1>1, <1>2, <1>5, <1>6 DEF Lists
<1>9. ASSUME NEW i \in 1 .. n, i # k
      PROVE  /\ nx2[q[i]] = IF i = k - 1 THEN nx[t] ELSE nx[q[i]]
             /\ pv2[q[i]] = IF i = k + 1 THEN pv[t] ELSE pv[q[i]]
  <2>1. q[i] # t /\ q[i] \in Task
    BY <1>1, <1>9 DEF Lists
  <2>2. q[i] = pv[t] <=> i = k - 1
    BY <1>1, <1>4, <1>5, <1>9 DEF Lists
  <2>3. q[i] = nx[t] <=> i = k + 1
    BY <1>1, <1>4, <1>5, <1>9 DEF Lists
  <2> QED BY <1>4, <2>1, <2>2, <2>3
<1> HIDE DEF r, Dequeued
<1>10. ASSUME NEW i \in 1 .. n - 1
       PROVE  pv2[r[i]] = IF i = 1 THEN NULL ELSE r[i - 1]
  <2>1. CASE i < k
    <3>1. r[i] = q[i] /\ pv2[q[i]] = pv[q[i]]
      BY <1>1, <1>2, <1>9, <2>1
    <3>2. pv[q[i]] = IF i = 1 THEN NULL ELSE q[i - 1]
      BY <1>1 DEF Lists
    <3>3. i # 1 => r[i - 1] = q[i - 1]
      BY <1>1, <1>2, <2>1
    <3> QED BY <3>1, <3>2, <3>3
  <2>2. CASE i = k
    <3>1. r[i] = q[i + 1] /\ pv2[q[i + 1]] = pv[t]
      BY <1>1, <1>2, <1>9, <2>2
    <3>2. i # 1 => r[i - 1] = q[i - 1]
      BY <1>1, <1>2, <2>2
    <3> QED BY <1>5, <2>2, <3>1, <3>2
  <2>3. CASE i > k
    <3>1. r[i] = q[i + 1] /\ pv2[q[i + 1]] = pv[q[i + 1]]
      BY SMTT(20), <1>1, <1>2, <1>9, <2>3
    <3>2. pv[q[i + 1]] = q[i]
      BY <1>1, <2>3 DEF Lists
    <3>3. r[i - 1] = q[i] /\ i # 1
      BY <1>1, <1>2, <2>3
    <3> QED BY <3>1, <3>2, <3>3
  <2> QED BY <1>1, <2>1, <2>2, <2>3
<1>11. ASSUME NEW i \in 1 .. n - 1
       PROVE  nx2[r[i]] = IF i = n - 1 THEN NULL ELSE r[i + 1]
  <2>1. CASE i < k - 1
    <3>1. r[i] = q[i] /\ nx2[q[i]] = nx[q[i]]
      BY <1>1, <1>2, <1>9, <2>1
    <3>2. nx[q[i]] = q[i + 1]
      BY <1>1, <2>1 DEF Lists
    <3>3. r[i + 1] = q[i + 1] /\ i # n - 1
      BY <1>1, <1>2, <2>1
    <3> QED BY <3>1, <3>2, <3>3
  <2>2. CASE i = k - 1
    <3>1. r[i] = q[i] /\ nx2[q[i]] = nx[t]
      BY <1>1, <1>2, <1>9, <2>2
    <3>2. i # n - 1 => r[i + 1] = q[k + 1]
      BY <1>1, <1>2, <2>2
    <3> QED BY <1>1, <1>5, <2>2, <3>1, <3>2
  <2>3. CASE i >= k
    <3>1. r[i] = q[i + 1] /\ nx2[q[i + 1]] = nx[q[i + 1]]
      BY <1>1, <1>2, <1>9, <2>3
    <3>2. nx[q[i + 1]] = IF i + 1 = n THEN NULL ELSE q[i + 2]
      BY <1>1, <2>3 DEF Lists
    <3>3. i # n - 1 => r[i + 1] = q[i + 2]
      BY <1>1, <1>2, <2>3
    <3> QED BY <1>1, <3>1, <3>2, <3>3
  <2> QED BY <1>1, <2>1, <2>2, <2>3
<1>12. Lists(r, n - 1, h2, tl2, nx2, pv2)
  BY <1>1, <1>2, <1>3, <1>7, <1>8, <1>10, <1>11 DEF Lists
<1> QED BY <1>12 DEF r

\* MoveToTail moves the first task of a list of two or more to its end.
LEMMA RotateList ==
  ASSUME NEW h \in Pointer, NEW tl \in Pointer,
         NEW nx \in [Task -> Pointer], NEW pv \in [Task -> Pointer],
         NEW q, NEW n, Lists(q, n, h, tl, nx, pv), n >= 2,
         NEW h2, NEW nx2, NEW pv2, Moved(h, tl, nx, pv, h2, nx2, pv2)
  PROVE  Lists(Rotated(q, n), n, h2, h, nx2, pv2)
<1> DEFINE r == Rotated(q, n)
<1> USE DEF Rotated, Moved
<1>1. n \in Nat /\ n >= 2 /\ q \in [1 .. n -> Task] /\ r \in [1 .. n -> Task]
  BY DEF Lists
<1>2. h = q[1] /\ tl = q[n] /\ nx[h] = q[2]
  BY <1>1 DEF Lists
<1>3. \A i, j \in 1 .. n : r[i] = r[j] => i = j
  BY <1>1 DEF Lists
<1>4. h2 = r[1] /\ h = r[n]
  BY <1>1, <1>2
<1>5. ASSUME NEW i \in 1 .. n
      PROVE  pv2[r[i]] = IF i = 1 THEN NULL ELSE r[i - 1]
  <2>1. CASE i = n
    BY <1>1, <1>2, <2>1
  <2>2. CASE i = 1
    <3>1. r[i] = q[2] /\ q[2] # h
      BY <1>1, <1>2, <2>2 DEF Lists
    <3> QED BY <1>1, <1>2, <2>2, <3>1
  <2>3. CASE i # n /\ i # 1
    <3>1. r[i] = q[i + 1] /\ q[i + 1] # h /\ q[i + 1] # nx[h]
      BY <1>1, <1>2, <2>3 DEF Lists
    <3>2. pv2[q[i + 1]] = pv[q[i + 1]]
      BY <1>1, <2>3, <3>1
    <3>3. pv[q[i + 1]] = q[i]
      BY <1>1, <2>3 DEF Lists
    <3>4. r[i - 1] = q[i]
      BY <1>1, <2>3
    <3> QED BY <2>3, <3>1, <3>2, <3>3, <3>4
  <2> QED BY <2>1, <2>2, <2>3
<1>6. ASSUME NEW i \in 1 .. n
      PROVE  nx2[r[i]] = IF i = n THEN NULL ELSE r[i + 1]
  <2>1. CASE i = n
    <3>1. h # tl
      BY <1>1, <1>2 DEF Lists
    <3> QED BY <1>1, <1>2, <2>1, <3>1
  <2>2. CASE i = n - 1
    BY <1>1, <1>2, <2>2
  <2>3. CASE i < n - 1
    <3>1. r[i] = q[i + 1] /\ q[i + 1] # h /\ q[i + 1] # tl
      BY <1>1, <1>2, <2>3 DEF Lists
    <3>2. nx2[q[i + 1]] = nx[q[i + 1]]
      BY <1>1, <2>3, <3>1
    <3>3. nx[q[i + 1]] = q[i + 2]
      BY <1>1, <2>3 DEF Lists
    <3>4. r[i + 1] = q[i + 2]
      BY <1>1, <2>3
    <3> QED BY <2>3, <3>1, <3>2, <3>3, <3>4
  <2> QED BY <1>1, <2>1, <2>2, <2>3
<1> HIDE DEF r, Rotated, Moved
<1>7. Lists(r, n, h2, h, nx2, pv2)
  BY <1>1, <1>2, <1>3, <1>4, <1>5, <1>6 DEF Lists
<1> QED BY <1>7 DEF r

-------------------------------------------------------------------------------
(***************************************************************************)
(* The inductive invariant of the table.  A pointer leads to a task that   *)
(* was spawned: TableExact needs it where the scheduler makes the task it  *)
(* picks RUNNING.                                                          *)
(***************************************************************************)
PointersSpawned ==
  /\ {head, tail, current, onCpu} \subseteq 0 .. spawned
  /\ \A t \in Task : next[t] \in 0 .. spawned /\ prev[t] \in 0 .. spawned

TableInv == TypeOK /\ PointersSpawned /\ TableExact

(***************************************************************************)
(* And that of the list.  A task that sleeps or is throttled is not in it: *)
(* that is what makes task_wake and task_resume, which do not look, right. *)
(***************************************************************************)
ListInv ==
  careless = 0 =>
    /\ Lists(Queue, Length, head, tail, next, prev)
    /\ \A t \in Queued \cup parked : Known(t)
    /\ \A t \in Task :
         /\ state[t] = "running" => t \in Queued
         /\ state[t] \in {"sleeping", "throttled"} \/ t \in parked => t \notin Queued

\* The types, one by one.
LEMMA TypesAre ==
  ASSUME TypeOK
  PROVE  /\ spawned \in 0 .. MaxSpawns /\ spawned \in Nat
         /\ taskTable \in [1 .. MAX_TASKS -> Pointer]
         /\ state \in [Task -> States]
         /\ \A t \in Task : state[t] = "none" <=> t > spawned
         /\ next \in [Task -> Pointer] /\ prev \in [Task -> Pointer]
         /\ head \in Pointer /\ tail \in Pointer /\ current \in Pointer /\ onCpu \in Pointer
         /\ due \subseteq Task /\ stale \subseteq Task /\ parked \subseteq Task
         /\ careless \in 0 .. MaxCareless
BY TaskConstants DEF TypeOK, Pointer

\* task_get finds what some slot holds.
LEMMA KnownIs ==
  ASSUME TypeOK
  PROVE  \A t : Known(t) <=> \E i \in 1 .. MAX_TASKS : taskTable[i] = t
BY TypesAre DEF Known, ToSet

\* The tasks that task_get finds are those that exist.
LEMMA KnownAreAlive ==
  ASSUME TableInv
  PROVE  \A t \in Task : Known(t) <=> state[t] \notin {"none", "freed"}
BY TypesAre DEF TableInv, TableExact, Known, Task, NULL

\* The walk only meets tasks.
LEMMA QueueTypes ==
  ASSUME TypeOK
  PROVE  /\ Length \in Nat /\ Queue \in [1 .. Length -> Task]
         /\ Queued = {Queue[i] : i \in 1 .. Length}
         /\ Queued \subseteq Task
         /\ head = IF Length = 0 THEN NULL ELSE Queue[1]
<1>1. head \in Pointer /\ next \in [Task -> Pointer]
  BY TypesAre
<1>2. Length \in Nat
  BY <1>1, LengthIs, QueueIs, TaskConstants
<1>3. Queue \in [1 .. Length -> Task] /\ head = IF Length = 0 THEN NULL ELSE Queue[1]
  BY <1>1, QueueOfIs, QueueIs
<1> QED BY <1>2, <1>3 DEF Queued, ToSet

\* The queue after a step.
LEMMA QueueIsNext ==
  /\ Length' = LengthOf(head', next')
  /\ Queue' = QueueOf(head', next')
  /\ Queued' = {Queue[i] : i \in DOMAIN Queue}'
BY DEF Length, Queue, Walk, LengthOf, QueueOf, WalkOf, Queued, ToSet

-------------------------------------------------------------------------------
(***************************************************************************)
(* The table.                                                              *)
(***************************************************************************)

\* The list operations store only pointers to the tasks they were given and
\* to those that were stored before.
LEMMA EnqueuePointers ==
  ASSUME TypeOK, PointersSpawned, NEW t \in Task, scheduler_enqueue(t),
         spawned' \in 0 .. MaxSpawns, t <= spawned', spawned <= spawned',
         current' \in 0 .. spawned', onCpu' \in 0 .. spawned'
  PROVE  {next', prev'} \subseteq [Task -> Pointer] /\ PointersSpawned'
<1> DEFINE Old == 0 .. spawned'
<1>1. /\ t \in Old /\ Old \subseteq Pointer
      /\ head \in Old /\ tail \in Old /\ NULL \in Old
      /\ \A u \in Task : next[u] \in Old /\ prev[u] \in Old
  <2>1. spawned \in 0 .. MaxSpawns
    BY TypesAre
  <2> QED BY <2>1, TaskConstants DEF PointersSpawned, Task, Pointer, NULL
<1>2. next \in [Task -> Pointer] /\ prev \in [Task -> Pointer]
  BY TypesAre
<1> HIDE DEF Old
<1>3. prev' \in [Task -> Pointer] /\ \A u \in Task : prev'[u] \in Old
  BY <1>1, <1>2 DEF scheduler_enqueue
<1>4. next' \in [Task -> Pointer] /\ \A u \in Task : next'[u] \in Old
  BY <1>1, <1>2 DEF scheduler_enqueue
<1>5. head' \in Old /\ tail' \in Old
  BY <1>1 DEF scheduler_enqueue
<1> QED BY <1>3, <1>4, <1>5 DEF PointersSpawned, Old

LEMMA DequeuePointers ==
  ASSUME TypeOK, PointersSpawned, NEW t \in Task, scheduler_dequeue(t),
         UNCHANGED <<spawned, current, onCpu>>
  PROVE  {next', prev'} \subseteq [Task -> Pointer] /\ PointersSpawned'
<1> DEFINE Old == 0 .. spawned
<1>1. /\ Old \subseteq Pointer /\ NULL \in Old
      /\ {head, tail, current, onCpu} \subseteq Old
      /\ \A u \in Task : next[u] \in Old /\ prev[u] \in Old
  <2>1. spawned \in 0 .. MaxSpawns
    BY TypesAre
  <2> QED BY <2>1, TaskConstants DEF PointersSpawned, Task, Pointer, NULL
<1>2. next \in [Task -> Pointer] /\ prev \in [Task -> Pointer]
  BY TypesAre
<1> HIDE DEF Old
<1>3. prev' \in [Task -> Pointer] /\ \A u \in Task : prev'[u] \in Old
  BY <1>1, <1>2 DEF scheduler_dequeue
<1>4. next' \in [Task -> Pointer] /\ \A u \in Task : next'[u] \in Old
  BY <1>1, <1>2 DEF scheduler_dequeue
<1>5. head' \in Old /\ tail' \in Old
  BY <1>1 DEF scheduler_dequeue
<1>6. Old' = Old
  BY DEF Old
<1> QED BY <1>1, <1>3, <1>4, <1>5, <1>6 DEF PointersSpawned, Old

LEMMA MovePointers ==
  ASSUME TypeOK, PointersSpawned, NEW t \in Task, t <= spawned, MoveToTail(t),
         UNCHANGED <<spawned, onCpu>>, current' = t
  PROVE  {next', prev'} \subseteq [Task -> Pointer] /\ PointersSpawned'
<1> DEFINE Old == 0 .. spawned
<1>1. /\ t \in Old /\ Old \subseteq Pointer /\ NULL \in Old
      /\ {head, tail, onCpu} \subseteq Old
      /\ \A u \in Task : next[u] \in Old /\ prev[u] \in Old
  <2>1. spawned \in 0 .. MaxSpawns
    BY TypesAre
  <2> QED BY <2>1, TaskConstants DEF PointersSpawned, Task, Pointer, NULL
<1>2. next \in [Task -> Pointer] /\ prev \in [Task -> Pointer]
  BY TypesAre
<1> HIDE DEF Old
<1>3. prev' \in [Task -> Pointer] /\ \A u \in Task : prev'[u] \in Old
  BY <1>1, <1>2 DEF MoveToTail
<1>4. next' \in [Task -> Pointer] /\ \A u \in Task : next'[u] \in Old
  BY <1>1, <1>2 DEF MoveToTail
<1>5. head' \in Old /\ tail' \in Old
  BY <1>1 DEF MoveToTail
<1>6. Old' = Old
  BY DEF Old
<1> QED BY <1>1, <1>3, <1>4, <1>5, <1>6 DEF PointersSpawned, Old

\* The pointers, one by one.
LEMMA PointersAre ==
  ASSUME PointersSpawned
  PROVE  /\ head \in 0 .. spawned /\ tail \in 0 .. spawned
         /\ current \in 0 .. spawned /\ onCpu \in 0 .. spawned
         /\ \A t \in Task : next[t] \in 0 .. spawned /\ prev[t] \in 0 .. spawned
BY DEF PointersSpawned

\* What leads to a task that was spawned is a pointer.
LEMMA SpawnedArePointers ==
  ASSUME PointersSpawned', spawned' \in 0 .. MaxSpawns
  PROVE  {head, tail, current, onCpu}' \subseteq Task \cup {NULL}
<1>1. 0 .. spawned' \subseteq Task \cup {NULL}
  BY TaskConstants DEF Task, NULL
<1> QED BY <1>1 DEF PointersSpawned

\* A step that neither creates nor frees a task leaves the table exact.
LEMMA TableKept ==
  ASSUME TableInv, careless' \in 0 .. MaxCareless, UNCHANGED tableVars,
         state' \in [Task -> States],
         \A t \in Task : /\ state'[t] = "none" <=> state[t] = "none"
                         /\ state'[t] = "freed" <=> state[t] = "freed",
         {next', prev'} \subseteq [Task -> Pointer], PointersSpawned',
         {due', stale', parked'} \subseteq SUBSET Task
  PROVE  TableInv'
<1>1. TypeOK'
  <2>1. {head, tail, current, onCpu}' \subseteq Task \cup {NULL}
    <3>1. spawned' \in 0 .. MaxSpawns
      BY TypesAre DEF TableInv, tableVars
    <3> QED BY <3>1, SpawnedArePointers
  <2> QED BY <2>1, TypesAre DEF TableInv, TypeOK, Pointer, tableVars
<1>2. TableExact'
  BY DEF TableInv, TableExact, tableVars
<1> QED BY <1>1, <1>2 DEF TableInv

\* task_spawn fills a free slot with a new id, or frees the structure again.
LEMMA SpawnTable ==
  ASSUME TableInv, task_spawn, careless' \in 0 .. MaxCareless
  PROVE  TableInv'
<1> DEFINE t == spawned + 1
<1>1. /\ TypeOK /\ PointersSpawned /\ TableExact
      /\ t \in Task /\ spawned' = t /\ t \in 0 .. MaxSpawns
      /\ state[t] = "none"
      /\ UNCHANGED <<current, onCpu, due, stale, parked>>
  BY TypesAre, TaskConstants DEF TableInv, task_spawn, Task, clockVars
<1>2. current \in 0 .. spawned' /\ onCpu \in 0 .. spawned' /\ spawned \in Nat
  <2>1. spawned \in 0 .. MaxSpawns
    BY <1>1, TypesAre
  <2> QED BY <1>1, <2>1 DEF PointersSpawned
<1>3. CASE FreeSlots = {}
  <2>1. /\ state' = [state EXCEPT ![t] = "freed"]
        /\ UNCHANGED <<taskTable, next, prev, head, tail>>
    BY <1>3 DEF task_spawn, listVars
  <2>2. PointersSpawned'
    BY <1>1, <1>2, <2>1 DEF PointersSpawned
  <2>3. state' \in [Task -> States] /\ \A u \in Task : state'[u] = "none" <=> u > spawned'
    BY <1>1, <1>2, <2>1, TypesAre DEF States, Task
  <2>4. TypeOK'
    <3>1. {head, tail, current, onCpu}' \subseteq Task \cup {NULL}
      BY <1>1, <2>1, TypesAre DEF Pointer
    <3> QED BY <1>1, <2>1, <2>3, <3>1, TypesAre DEF TypeOK, Pointer
  <2>5. TableExact'
    <3>1. \A u \in Task : state'[u] \notin {"none", "freed"} <=> state[u] \notin {"none", "freed"}
      BY <1>1, <2>1, TypesAre
    <3> QED BY <1>1, <2>1, <3>1 DEF TableExact
  <2> QED BY <2>2, <2>4, <2>5 DEF TableInv
<1>4. CASE FreeSlots # {}
  <2> DEFINE i == Min(FreeSlots)
  <2>1. /\ state' = [state EXCEPT ![t] = "running"]
        /\ taskTable' = [taskTable EXCEPT ![i] = t]
        /\ scheduler_enqueue(t)
    BY <1>4 DEF task_spawn
  <2>2. i \in 1 .. MAX_TASKS /\ taskTable[i] = NULL
    <3>1. FreeSlots \subseteq Nat
      BY TaskConstants DEF FreeSlots
    <3>2. i \in FreeSlots
      BY <1>4, <3>1, LeastMember
    <3> QED BY <3>2 DEF FreeSlots
  <2> HIDE DEF i
  <2>3. {next', prev'} \subseteq [Task -> Pointer] /\ PointersSpawned'
    BY <1>1, <1>2, <2>1, EnqueuePointers
  <2>4. state' \in [Task -> States] /\ \A u \in Task : state'[u] = "none" <=> u > spawned'
    BY <1>1, <1>2, <2>1, TypesAre DEF States, Task
  <2>5. taskTable' \in [1 .. MAX_TASKS -> Pointer]
    BY <1>1, <2>1, TypesAre DEF Pointer
  <2>6. TypeOK'
    <3>1. {head, tail, current, onCpu}' \subseteq Task \cup {NULL}
      BY <1>1, <2>3, SpawnedArePointers
    <3> QED BY <1>1, <2>3, <2>4, <2>5, <3>1, TypesAre DEF TypeOK, Pointer
  <2>7. TableExact'
    <3>1. \A u \in Task : state'[u] \notin {"none", "freed"} <=> state[u] \notin {"none", "freed"} \/ u = t
      BY <1>1, <2>1, TypesAre
    <3>2. \A j \in 1 .. MAX_TASKS : taskTable'[j] = IF j = i THEN t ELSE taskTable[j]
      BY <1>1, <2>1, <2>2, TypesAre
    <3>3. \A j \in 1 .. MAX_TASKS : taskTable[j] # t
      BY <1>1, KnownIs, KnownAreAlive
    <3>4. ToSet(taskTable') = {taskTable'[j] : j \in 1 .. MAX_TASKS}
      BY <2>5 DEF ToSet
    <3>5. ToSet(taskTable) = {taskTable[j] : j \in 1 .. MAX_TASKS}
      BY <1>1, TypesAre DEF ToSet
    <3>6. t # NULL
      BY <1>1 DEF Task, NULL
    <3>7. ToSet(taskTable') \ {NULL} = (ToSet(taskTable) \ {NULL}) \cup {t}
      BY <2>2, <3>2, <3>4, <3>5, <3>6
    <3>8. ToSet(taskTable') \ {NULL} = {u \in Task : state'[u] \notin {"none", "freed"}}
      BY <1>1, <3>1, <3>7 DEF TableExact
    <3> QED BY <1>1, <2>2, <3>2, <3>3, <3>8 DEF TableExact
  <2> QED BY <2>3, <2>6, <2>7 DEF TableInv
<1> QED BY <1>3, <1>4

\* task_kill empties the one slot the task has.
LEMMA KillTable ==
  ASSUME TableInv, NEW t \in Task, task_kill(t), careless' \in 0 .. MaxCareless
  PROVE  TableInv'
<1>1. /\ TypeOK /\ PointersSpawned /\ TableExact /\ Known(t)
      /\ scheduler_dequeue(t)
      /\ state' = [state EXCEPT ![t] = "freed"]
      /\ taskTable' = [i \in 1 .. MAX_TASKS |-> IF taskTable[i] = t THEN NULL ELSE taskTable[i]]
      /\ due' = due \cup {t} /\ stale' = stale \ {t} /\ parked' = parked \ {t}
      /\ UNCHANGED <<spawned, current, onCpu>>
  BY DEF TableInv, task_kill
<1>2. {next', prev'} \subseteq [Task -> Pointer] /\ PointersSpawned'
  BY <1>1, DequeuePointers
<1>3. state[t] \notin {"none", "freed"}
  BY <1>1, KnownAreAlive
<1>4. state' \in [Task -> States] /\ \A u \in Task : state'[u] = "none" <=> u > spawned'
  BY <1>1, <1>3, TypesAre DEF States
<1>5. taskTable' \in [1 .. MAX_TASKS -> Pointer]
  BY <1>1, TypesAre DEF Pointer
<1>6. TypeOK'
  <2>1. {head, tail, current, onCpu}' \subseteq Task \cup {NULL}
    <3>1. spawned' \in 0 .. MaxSpawns
      BY <1>1, TypesAre
    <3> QED BY <1>2, <3>1, SpawnedArePointers
  <2>2. {due', stale', parked'} \subseteq SUBSET Task
    BY <1>1, TypesAre
  <2>3. spawned' \in 0 .. MaxSpawns
    BY <1>1, TypesAre
  <2> QED BY <1>2, <1>4, <1>5, <2>1, <2>2, <2>3 DEF TypeOK, Pointer
<1>7. TableExact'
  <2>1. \A u \in Task : state'[u] \notin {"none", "freed"} <=> state[u] \notin {"none", "freed"} /\ u # t
    BY <1>1, TypesAre
  <2>2. ToSet(taskTable') = {taskTable'[j] : j \in 1 .. MAX_TASKS}
    BY <1>5 DEF ToSet
  <2>3. ToSet(taskTable) = {taskTable[j] : j \in 1 .. MAX_TASKS}
    BY <1>1, TypesAre DEF ToSet
  <2>4. ToSet(taskTable') \ {NULL} = (ToSet(taskTable) \ {NULL}) \ {t}
    BY <1>1, <2>2, <2>3
  <2>5. ToSet(taskTable') \ {NULL} = {u \in Task : state'[u] \notin {"none", "freed"}}
    BY <1>1, <2>1, <2>4 DEF TableExact
  <2> QED BY <1>1, <2>5 DEF TableExact
<1> QED BY <1>2, <1>6, <1>7 DEF TableInv

\* The calls that name a task that exists and leave it in existence.
LEMMA StateCallTable ==
  ASSUME TableInv, NEW t \in Task, careless' \in 0 .. MaxCareless,
         task_sleep(t) \/ task_wake(t) \/ task_pause(t) \/ task_resume(t) \/ task_throttle(t)
  PROVE  TableInv'
<1>1. TypeOK /\ PointersSpawned /\ Known(t) /\ state[t] \notin {"none", "freed"}
  BY KnownAreAlive DEF TableInv, task_sleep, task_wake, task_pause, task_resume, task_throttle
<1>2. UNCHANGED tableVars /\ UNCHANGED <<current, onCpu>>
  BY DEF task_sleep, task_wake, task_pause, task_resume, task_throttle
<1>3. \E s \in {"sleeping", "running", "throttled"} : state' = [state EXCEPT ![t] = s]
  BY DEF task_sleep, task_wake, task_pause, task_resume, task_throttle
<1>4. /\ state' \in [Task -> States]
      /\ \A u \in Task : /\ state'[u] = "none" <=> state[u] = "none"
                         /\ state'[u] = "freed" <=> state[u] = "freed"
  BY <1>1, <1>3, TypesAre DEF States
<1>5. {next', prev'} \subseteq [Task -> Pointer] /\ PointersSpawned'
  <2>1. CASE task_sleep(t) \/ task_pause(t)
    <3>1. scheduler_dequeue(t)
      BY <2>1 DEF task_sleep, task_pause
    <3> QED BY <1>1, <1>2, <3>1, DequeuePointers DEF tableVars
  <2>2. CASE task_wake(t) \/ task_resume(t)
    <3>1. scheduler_enqueue(t)
      BY <2>2 DEF task_wake, task_resume
    <3>2. spawned \in 0 .. MaxSpawns /\ t <= spawned
      BY <1>1, TypesAre DEF Task
    <3>3. spawned' = spawned /\ current' \in 0 .. spawned /\ onCpu' \in 0 .. spawned
      BY <1>1, <1>2 DEF tableVars, PointersSpawned
    <3> QED BY <1>1, <3>1, <3>2, <3>3, EnqueuePointers
  <2>3. CASE task_throttle(t)
    <3>1. UNCHANGED <<spawned, next, prev, head, tail, current, onCpu>>
      BY <2>3 DEF task_throttle, tableVars, listVars
    <3> QED BY <1>1, <3>1, TypesAre DEF PointersSpawned
  <2> QED BY <2>1, <2>2, <2>3
         DEF task_sleep, task_wake, task_pause, task_resume, task_throttle
<1>6. {due', stale', parked'} \subseteq SUBSET Task
  BY <1>1, TypesAre
     DEF task_sleep, task_wake, task_pause, task_resume, task_throttle, clockVars
<1> QED BY <1>2, <1>4, <1>5, <1>6, TableKept

\* Time changes only what is due and stale; the timer interrupt marks only
\* tasks that exist.
LEMMA TimeTable ==
  ASSUME TableInv, careless' \in 0 .. MaxCareless,
         TimePasses \/ (TimePasses /\ UNCHANGED due) \/ task_scheduler_tick
  PROVE  TableInv'
<1>1. TypeOK /\ PointersSpawned
  BY DEF TableInv
<1>2. UNCHANGED <<tableVars, next, prev, head, tail, current, onCpu, parked, spawned>>
  BY DEF TimePasses, task_scheduler_tick, listVars, tableVars
<1>3. {next', prev'} \subseteq [Task -> Pointer] /\ PointersSpawned'
  BY <1>1, <1>2, TypesAre DEF PointersSpawned
<1>4. /\ state' \in [Task -> States]
      /\ \A u \in Task : /\ state'[u] = "none" <=> state[u] = "none"
                         /\ state'[u] = "freed" <=> state[u] = "freed"
  <2>1. CASE TimePasses
    BY <1>1, <2>1, TypesAre DEF TimePasses
  <2>2. CASE task_scheduler_tick
    <3>1. state' = [t \in Task |-> IF Known(t) /\ t \in stale THEN "stalled" ELSE state[t]]
      BY <2>2 DEF task_scheduler_tick
    <3> QED BY <1>1, <3>1, KnownAreAlive, TypesAre DEF States
  <2> QED BY <2>1, <2>2
<1>5. {due', stale', parked'} \subseteq SUBSET Task
  <2>1. CASE TimePasses
    <3>1. ToSet(taskTable) \ {NULL} \subseteq Task
      BY <1>1, TypesAre DEF ToSet, Pointer
    <3>2. due' \subseteq due \cup Task /\ stale' \subseteq stale \cup Task
      BY <2>1, <3>1 DEF TimePasses
    <3> QED BY <1>1, <1>2, <3>2, TypesAre
  <2>2. CASE task_scheduler_tick
    BY <1>1, <2>2, TypesAre DEF task_scheduler_tick, clockVars
  <2> QED BY <2>1, <2>2
<1> QED BY <1>2, <1>3, <1>4, <1>5, TableKept

\* Intact: the task the scheduler looks at exists.
LEMMA CandidateIsAlive ==
  ASSUME TableInv, Intact, NEW st, Candidate(st) # NULL
  PROVE  /\ Candidate(st) \in Task /\ Candidate(st) <= spawned
         /\ state[Candidate(st)] \notin {"none", "freed"}
<1>1. TypeOK /\ PointersSpawned
  BY DEF TableInv
<1>2. \A t \in Task : t <= spawned => state[t] # "none"
  BY <1>1, TypesAre, TaskConstants DEF Task
<1>3. head # NULL => head \in Task /\ head <= spawned /\ state[head] \notin {"none", "freed"}
  <2>1. head # NULL => head \in Task /\ head <= spawned
    BY <1>1, TypesAre, PointersAre DEF Pointer
  <2>2. head # NULL => state[head] # "freed"
    BY <2>1 DEF Intact
  <2> QED BY <1>2, <2>1, <2>2
<1>4. CASE Candidate(st) = head
  BY <1>3, <1>4
<1>5. CASE head # NULL /\ Candidate(st) = next[head]
  <2>1. next[head] \in Pointer /\ next[head] \in 0 .. spawned /\ next[head] # NULL
    BY <1>1, <1>3, <1>5, TypesAre, PointersAre
  <2>2. state[next[head]] # "freed"
    BY <1>3, <1>5, <2>1 DEF Intact, Pointer
  <2> QED BY <1>2, <1>5, <2>1, <2>2 DEF Pointer
<1> QED BY <1>4, <1>5 DEF Candidate, SleepingHead

\* task_scheduler_next and task_scheduler_yield make a task that exists
\* current, whatever the list has become.
LEMMA SchedulerTable ==
  ASSUME TableInv, Intact, careless' \in 0 .. MaxCareless,
         task_scheduler_next \/ task_scheduler_yield
  PROVE  TableInv'
<1>1. TypeOK /\ PointersSpawned /\ UNCHANGED tableVars /\ spawned' = spawned
  BY DEF TableInv, task_scheduler_next, task_scheduler_yield, tableVars
<1> DEFINE SameExist(st) ==
      /\ st \in [Task -> States]
      /\ \A u \in Task : /\ st[u] = "none" <=> state[u] = "none"
                         /\ st[u] = "freed" <=> state[u] = "freed"
           Fine == /\ SameExist(state')
                   /\ {next', prev'} \subseteq [Task -> Pointer] /\ PointersSpawned'
<1>2. ASSUME NEW st, SameExist(st), NEW t \in Task, state[t] \notin {"none", "freed"},
             NEW s \in {"running", "waiting"}
      PROVE  SameExist([st EXCEPT ![t] = s])
  BY <1>2 DEF States
<1>3. ASSUME NEW st, SameExist(st), SchedulerNext(st), UNCHANGED onCpu
      PROVE  Fine
  <2> DEFINE t == Candidate(st)
  <2>1. CASE Picks(st)
    <3>1. t # NULL /\ MoveToTail(t) /\ current' = t /\ state' = [st EXCEPT ![t] = "running"]
      BY <1>3, <2>1 DEF SchedulerNext, Picks
    <3>2. t \in Task /\ t <= spawned /\ state[t] \notin {"none", "freed"}
      BY <3>1, CandidateIsAlive
    <3> HIDE DEF t
    <3>3. {next', prev'} \subseteq [Task -> Pointer] /\ PointersSpawned'
      BY <1>1, <1>3, <3>1, <3>2, MovePointers
    <3>4. SameExist(state')
      BY <1>2, <1>3, <3>1, <3>2
    <3> QED BY <3>3, <3>4
  <2>2. CASE ~ Picks(st)
    <3>1. state' = st /\ UNCHANGED <<next, prev, head, tail, current>>
      BY <1>3, <2>2 DEF SchedulerNext, listVars
    <3> QED BY <1>1, <1>3, <3>1, TypesAre DEF PointersSpawned
  <2> QED BY <2>1, <2>2
<1>4. CASE task_scheduler_next
  <2>1. SameExist(state)
    BY <1>1, TypesAre
  <2>2. SchedulerNext(state) /\ UNCHANGED onCpu
    BY <1>4 DEF task_scheduler_next
  <2>3. Fine
    <3> HIDE DEF SameExist, Fine
    <3> QED BY <1>3, <2>1, <2>2
  <2>4. {due', stale', parked'} \subseteq SUBSET Task
    BY <1>1, <1>4, TypesAre DEF task_scheduler_next, clockVars
  <2> QED BY <1>1, <2>3, <2>4, TableKept
<1>5. CASE task_scheduler_yield
  <2> DEFINE st == [state EXCEPT ![current] = "waiting"]
             got == Candidate(st)
  <2>1. /\ current # NULL
        /\ IF got \in {NULL, current} \/ Picks(st)
           THEN SchedulerNext(st) /\ UNCHANGED onCpu
           ELSE /\ state' = [st EXCEPT ![got] = "running"]
                /\ current' = got /\ onCpu' = got
                /\ UNCHANGED listVars
        /\ UNCHANGED <<due, stale, parked>>
    BY <1>5 DEF task_scheduler_yield, clockVars
  <2>2. current \in Task /\ state[current] \notin {"none", "freed"}
    <3>1. current \in Task /\ current <= spawned
      BY <1>1, <2>1, TypesAre, PointersAre DEF Pointer
    <3>2. state[current] # "freed"
      BY <2>1, <3>1 DEF Intact
    <3> QED BY <1>1, <3>1, <3>2, TypesAre, TaskConstants DEF Task
  <2>3. SameExist(state)
    BY <1>1, TypesAre
  <2>4. SameExist(st)
    <3> HIDE DEF SameExist
    <3> QED BY <1>2, <2>2, <2>3
  <2>5. CASE got \in {NULL, current} \/ Picks(st)
    <3>1. SchedulerNext(st) /\ UNCHANGED onCpu
      BY <2>1, <2>5
    <3> HIDE DEF st, SameExist, Fine
    <3>2. Fine
      BY <1>3, <2>4, <3>1
    <3> QED BY <1>1, <2>1, <3>2, TableKept, TypesAre DEF Fine, SameExist
  <2>6. CASE ~ (got \in {NULL, current} \/ Picks(st))
    <3>1. /\ got # NULL /\ state' = [st EXCEPT ![got] = "running"]
          /\ current' = got /\ onCpu' = got
          /\ UNCHANGED <<next, prev, head, tail>>
      BY <2>1, <2>6 DEF listVars
    <3>2. got \in Task /\ got <= spawned /\ state[got] \notin {"none", "freed"}
      BY <3>1, CandidateIsAlive
    <3> HIDE DEF st, got
    <3>3. PointersSpawned'
      <4>1. got \in 0 .. spawned
        BY <1>1, <3>2, TypesAre DEF Task
      <4> QED BY <1>1, <3>1, <4>1 DEF PointersSpawned
    <3>4. {next', prev'} \subseteq [Task -> Pointer]
      BY <1>1, <3>1, TypesAre
    <3>5. SameExist(state')
      BY <1>2, <2>4, <3>1, <3>2
    <3>6. {due', stale', parked'} \subseteq SUBSET Task
      BY <1>1, <2>1, TypesAre
    <3> QED BY <1>1, <3>3, <3>4, <3>5, <3>6, TableKept
  <2> QED BY <2>5, <2>6
<1> QED BY <1>4, <1>5

\* What a careful call may do, with a task for every name.
LEMMA CarefulCallIs ==
  ASSUME TypeOK, CarefulCall
  PROVE  \/ task_spawn
         \/ \E t \in Task : t \in Queued /\ (task_kill(t) \/ task_sleep(t) \/ task_pause(t))
         \/ \E t \in Task : task_wake(t) \/ task_resume(t)
         \/ Length >= 2 /\ state[head] = "running" /\ task_scheduler_next
BY QueueTypes DEF CarefulCall

\* Every step keeps the table.
LEMMA TableStep ==
  ASSUME TableInv, [Next]_vars
  PROVE  TableInv'
<1>1. TypeOK
  BY DEF TableInv
<1>2. CASE Next
  <2>1. Intact
    BY <1>2 DEF Next
  <2>2. careless \in 0 .. MaxCareless /\ careless \in Nat
    BY <1>1, TypesAre, TaskConstants
  <2>3. CASE CarefulCall /\ UNCHANGED careless
    BY <1>1, <2>1, <2>2, <2>3, CarefulCallIs, SpawnTable, KillTable, StateCallTable, SchedulerTable
  <2>4. CASE CarelessCall /\ careless < MaxCareless /\ careless' = careless + 1
    <3>1. careless' \in 0 .. MaxCareless
      BY <2>2, <2>4, TaskConstants
    <3>2. \/ \E t \in Task : task_kill(t) \/ task_sleep(t) \/ task_pause(t) \/ task_throttle(t)
          \/ task_scheduler_next \/ task_scheduler_yield
      BY <1>1, <2>4, TypesAre DEF CarelessCall, Pointer
    <3> QED BY <2>1, <3>1, <3>2, KillTable, StateCallTable, SchedulerTable
  <2>5. CASE (TimePasses \/ task_scheduler_tick) /\ UNCHANGED careless
    BY <2>2, <2>5, TimeTable
  <2> QED BY <1>2, <2>3, <2>4, <2>5 DEF Next
<1>3. CASE UNCHANGED vars
  <2>1. UNCHANGED <<state, next, prev, head, tail, current, onCpu, tableVars, due, stale, parked, careless>>
    BY <1>3 DEF vars, tableVars, listVars, clockVars
  <2>2. UNCHANGED <<spawned, taskTable>>
    BY <2>1 DEF tableVars
  <2> QED BY SMTT(20), <2>1, <2>2 DEF TableInv, TypeOK, PointersSpawned, TableExact, ToSet
<1> QED BY <1>2, <1>3

\* It holds at the start.
LEMMA TableInit == Init => TableInv
<1> SUFFICES ASSUME Init PROVE TableInv
  OBVIOUS
<1>1. TypeOK
  BY TaskConstants DEF Init, TypeOK, Task, NULL, States
<1>2. PointersSpawned
  BY DEF Init, PointersSpawned, NULL
<1>3. TableExact
  <2>1. ToSet(taskTable) \ {NULL} = {}
    BY DEF Init, ToSet
  <2>2. {t \in Task : state[t] \notin {"none", "freed"}} = {}
    BY DEF Init
  <2> QED BY <2>1, <2>2 DEF Init, TableExact
<1> QED BY <1>1, <1>2, <1>3 DEF TableInv

\* For any number of tasks and slots, and any order of careful and careless
\* calls: every variable has its type and no pointer names a task that was
\* never spawned.
THEOREM TaskTypes == Spec => [](TypeOK /\ PointersSpawned)
<1>1. Init => TableInv
  BY TableInit
<1>2. TableInv /\ [Next]_vars => TableInv'
  BY TableStep
<1>3. TableInv => TypeOK /\ PointersSpawned
  BY DEF TableInv
<1> QED BY <1>1, <1>2, <1>3, PTL DEF Spec

\* task_table holds each task that exists in exactly one slot and no freed
\* task, whatever is called.
THEOREM TableAlwaysExact == Spec => []TableExact
<1>1. Init => TableInv
  BY TableInit
<1>2. TableInv /\ [Next]_vars => TableInv'
  BY TableStep
<1>3. TableInv => TableExact
  BY DEF TableInv
<1> QED BY <1>1, <1>2, <1>3, PTL DEF Spec

-------------------------------------------------------------------------------
(***************************************************************************)
(* The list.                                                               *)
(***************************************************************************)

\* QueueWellFormed says that the list is the queue, in the words of the model.
LEMMA WellFormedIs ==
  ASSUME TypeOK
  PROVE  QueueWellFormed <=>
           (careless = 0 => /\ Lists(Queue, Length, head, tail, next, prev)
                            /\ \A t \in Queued : Known(t))
<1>1. /\ Length \in Nat /\ Queue \in [1 .. Length -> Task]
      /\ head = IF Length = 0 THEN NULL ELSE Queue[1]
  BY QueueTypes
<1>2. DOMAIN Queue = 1 .. Length /\ Len(Queue) = Length /\ (Queue = <<>> <=> Length = 0)
  BY <1>1 DEF Queue
<1>3. IsInjective(Queue) <=> \A i, j \in 1 .. Length : Queue[i] = Queue[j] => i = j
  BY <1>2 DEF IsInjective
<1>4. (tail = IF Queue = <<>> THEN NULL ELSE Last(Queue))
        <=> (tail = IF Length = 0 THEN NULL ELSE Queue[Length])
  BY <1>2 DEF Last
<1> QED BY <1>1, <1>3, <1>4 DEF QueueWellFormed, Lists

\* What the invariant says, for each place of the queue.
LEMMA ListNow ==
  ASSUME TypeOK, ListInv, careless = 0
  PROVE  /\ Length \in Nat /\ Queue \in [1 .. Length -> Task]
         /\ Lists(Queue, Length, head, tail, next, prev)
         /\ \A i \in 1 .. Length : Known(Queue[i])
         /\ \A t \in parked : Known(t)
         /\ \A t \in Task :
              /\ t \in Queued <=> \E i \in 1 .. Length : Queue[i] = t
              /\ state[t] = "running" => t \in Queued
              /\ state[t] \in {"sleeping", "throttled"} \/ t \in parked => t \notin Queued
BY QueueTypes DEF ListInv

\* After a step, it is enough to name the queue that the list has become.
LEMMA ListNext ==
  ASSUME TypeOK', NEW q, NEW n, Lists(q, n, head', tail', next', prev'),
         \A i \in 1 .. n : Known(q[i])', \A t \in parked' : Known(t)',
         \A t \in Task :
           /\ state'[t] = "running" => \E i \in 1 .. n : q[i] = t
           /\ state'[t] \in {"sleeping", "throttled"} \/ t \in parked'
                => \A i \in 1 .. n : q[i] # t
  PROVE  ListInv' /\ Queue' = q /\ Length' = n
<1>1. head' \in Pointer /\ next' \in [Task -> Pointer]
  BY DEF TypeOK, Pointer
<1>2. Queue' = q /\ Length' = n
  BY <1>1, ListIsQueue, QueueIsNext
<1>3. Queued' = {q[i] : i \in 1 .. n}
  BY <1>2, QueueIsNext DEF Lists
<1>4. \A t \in Queued' \cup parked' : Known(t)'
  BY <1>3
<1> QED BY <1>2, <1>3, <1>4 DEF ListInv

-------------------------------------------------------------------------------
(***************************************************************************)
(* The steps of the run queue, in the words of the lists.                  *)
(***************************************************************************)
AbstractStep == Abstract!Next \/ Queue' = Queue

LEMMA QueueIsSeq ==
  ASSUME TypeOK
  PROVE  Queue \in Seq(Task) /\ Len(Queue) = Length /\ Length \in Nat
BY QueueTypes DEF Queue

LEMMA AddedIsEnqueue ==
  ASSUME TypeOK, NEW t \in Task, \A i \in 1 .. Length : Queue[i] # t,
         Queue' = Added(Queue, Length, t)
  PROVE  AbstractStep
<1>1. Queue \in Seq(Task) /\ Len(Queue) = Length /\ Length \in Nat
  BY QueueIsSeq
<1>2. Queue' = Append(Queue, t)
  <2>1. /\ Append(Queue, t) \in Seq(Task) /\ Len(Append(Queue, t)) = Length + 1
        /\ \A i \in 1 .. Length + 1 : Append(Queue, t)[i] = IF i = Length + 1 THEN t ELSE Queue[i]
    BY <1>1
  <2>2. /\ Queue' \in Seq(Task) /\ Len(Queue') = Length + 1
        /\ \A i \in 1 .. Length + 1 : Queue'[i] = IF i = Length + 1 THEN t ELSE Queue[i]
    BY <1>1 DEF Added
  <2> QED BY <2>1, <2>2, SeqEqual
<1>3. t \notin {Queue[i] : i \in 1 .. Len(Queue)}
  BY <1>1
<1> QED BY <1>2, <1>3 DEF AbstractStep, Abstract!Next, Abstract!Enqueue, Abstract!Members

LEMMA WithoutIsDequeue ==
  ASSUME TypeOK, NEW k \in 1 .. Length, Queue' = Without(Queue, Length, k)
  PROVE  AbstractStep
<1>1. Queue \in Seq(Task) /\ Len(Queue) = Length /\ Length \in Nat
  BY QueueIsSeq
<1>2. Queue[k] \in Task
  BY <1>1
<1>3. Abstract!Dequeue(Queue[k])
  BY <1>1 DEF Abstract!Dequeue, Without
<1> QED BY <1>2, <1>3 DEF AbstractStep, Abstract!Next

LEMMA RotatedIsRotate ==
  ASSUME TypeOK, Length >= 2, Queue' = Rotated(Queue, Length)
  PROVE  AbstractStep
<1>1. Queue \in Seq(Task) /\ Len(Queue) = Length /\ Length \in Nat
  BY QueueIsSeq
<1>2. Queue # <<>>
  BY <1>1
<1>3. /\ Tail(Queue) \in Seq(Task) /\ Len(Tail(Queue)) = Length - 1
      /\ \A i \in 1 .. Length - 1 : Tail(Queue)[i] = Queue[i + 1]
      /\ Head(Queue) = Queue[1] /\ Queue[1] \in Task
  BY <1>1, <1>2, HeadTailProperties
<1>4. Queue' = Append(Tail(Queue), Head(Queue))
  <2> DEFINE r == Append(Tail(Queue), Head(Queue))
  <2>1. /\ r \in Seq(Task) /\ Len(r) = Length
        /\ \A i \in 1 .. Length : r[i] = IF i = Length THEN Queue[1] ELSE Queue[i + 1]
    BY <1>1, <1>3
  <2>2. /\ Queue' \in Seq(Task) /\ Len(Queue') = Length
        /\ \A i \in 1 .. Length : Queue'[i] = IF i = Length THEN Queue[1] ELSE Queue[i + 1]
    BY <1>1 DEF Rotated
  <2> HIDE DEF r
  <2>3. Queue' = r
    BY <2>1, <2>2, SeqEqual
  <2> QED BY <2>3 DEF r
<1> QED BY <1>2, <1>4 DEF AbstractStep, Abstract!Next, Abstract!Rotate

-------------------------------------------------------------------------------
(***************************************************************************)
(* The steps of the model on the list.                                     *)
(***************************************************************************)

\* A task that may run now and was not in the queue goes to its end.
LEMMA EnqueueStep ==
  ASSUME TypeOK, TypeOK', ListInv, careless = 0,
         NEW t \in Task, t \notin Queued, scheduler_enqueue(t),
         Known(t)', \A u \in Task : Known(u) => Known(u)',
         state' = [state EXCEPT ![t] = "running"],
         parked' \subseteq parked, t \notin parked'
  PROVE  ListInv' /\ AbstractStep
<1>0. PICK q, n : q = Queue /\ n = Length
  OBVIOUS
<1> DEFINE r == Added(q, n, t)
<1>1. /\ n \in Nat /\ q \in [1 .. n -> Task] /\ Lists(q, n, head, tail, next, prev)
      /\ \A i \in 1 .. n : Known(q[i]) /\ q[i] # t
      /\ \A u \in parked : Known(u)
      /\ \A u \in Task :
           /\ u \in Queued <=> \E i \in 1 .. n : q[i] = u
           /\ state[u] = "running" => u \in Queued
           /\ state[u] \in {"sleeping", "throttled"} \/ u \in parked => u \notin Queued
  BY <1>0, ListNow
<1>2. /\ head \in Pointer /\ tail \in Pointer
      /\ next \in [Task -> Pointer] /\ prev \in [Task -> Pointer]
      /\ state \in [Task -> States] /\ parked \subseteq Task
  BY TypesAre
<1>3. Lists(r, n + 1, head', tail', next', prev')
  <2>1. Lists(r, n + 1, IF tail = NULL THEN t ELSE head, t,
              [u \in Task |-> IF u = tail THEN t ELSE IF u = t THEN NULL ELSE next[u]],
              [prev EXCEPT ![t] = tail])
    BY ZenonT(30), <1>1, <1>2, EnqueueList
  <2> QED BY <2>1 DEF scheduler_enqueue
<1>4. \A i \in 1 .. n + 1 : r[i] = IF i = n + 1 THEN t ELSE q[i]
  BY DEF Added
<1>5. \A i \in 1 .. n + 1 : Known(r[i])'
  BY <1>1, <1>4
<1>6. \A u \in parked' : Known(u)'
  BY <1>1, <1>2
<1>7. ASSUME NEW u \in Task
      PROVE  /\ state'[u] = "running" => \E i \in 1 .. n + 1 : r[i] = u
             /\ state'[u] \in {"sleeping", "throttled"} \/ u \in parked'
                  => \A i \in 1 .. n + 1 : r[i] # u
  <2>1. CASE u = t
    BY <1>1, <1>2, <1>4, <2>1
  <2>2. CASE u # t
    BY <1>1, <1>2, <1>4, <2>2
  <2> QED BY <2>1, <2>2
<1> HIDE DEF r
<1>8. ListInv' /\ Queue' = r
  BY <1>3, <1>5, <1>6, <1>7, ListNext
<1> QED BY <1>0, <1>1, <1>8, AddedIsEnqueue DEF r

\* A task that may not run any more leaves the queue.
LEMMA DequeueStep ==
  ASSUME TypeOK, TypeOK', ListInv, careless = 0,
         NEW t \in Queued, scheduler_dequeue(t),
         \A u \in Task : Known(u) /\ u # t => Known(u)',
         t \in parked' => Known(t)',
         NEW s, state' = [state EXCEPT ![t] = s], s # "running",
         parked' \subseteq parked \cup {t}
  PROVE  ListInv' /\ AbstractStep
<1>0. PICK q, n : q = Queue /\ n = Length
  OBVIOUS
<1>1. /\ n \in Nat /\ q \in [1 .. n -> Task] /\ Lists(q, n, head, tail, next, prev)
      /\ \A i \in 1 .. n : Known(q[i])
      /\ \A u \in parked : Known(u)
      /\ \A u \in Task :
           /\ u \in Queued <=> \E i \in 1 .. n : q[i] = u
           /\ state[u] = "running" => u \in Queued
           /\ state[u] \in {"sleeping", "throttled"} \/ u \in parked => u \notin Queued
  BY <1>0, ListNow
<1>2. /\ head \in Pointer /\ tail \in Pointer /\ t \in Task
      /\ next \in [Task -> Pointer] /\ prev \in [Task -> Pointer]
      /\ state \in [Task -> States] /\ parked \subseteq Task
  BY TypesAre, QueueTypes
<1>3. PICK k \in 1 .. n : q[k] = t
  BY <1>1, <1>2
<1>4. \A i, j \in 1 .. n : q[i] = q[j] => i = j
  BY <1>1 DEF Lists
<1> DEFINE r == Without(q, n, k)
<1>5. Lists(r, n - 1, head', tail', next', prev')
  <2> HIDE DEF r
  <2>1. Dequeued(t, head, tail, next, prev, head', tail', next', prev')
    BY <1>2 DEF scheduler_dequeue, Dequeued
  <2>2. Lists(Without(q, n, k), n - 1, head', tail', next', prev')
    BY <1>1, <1>2, <1>3, <2>1, DequeueList
  <2> QED BY <2>2 DEF r
<1>6. \A i \in 1 .. n - 1 : r[i] = IF i < k THEN q[i] ELSE q[i + 1]
  BY <1>1 DEF Without
<1>7. \A i \in 1 .. n - 1 : r[i] \in Task /\ r[i] # t /\ Known(r[i])
  BY <1>1, <1>3, <1>4, <1>6
<1>8. \A i \in 1 .. n : i # k => \E j \in 1 .. n - 1 : r[j] = q[i]
  <2> SUFFICES ASSUME NEW i \in 1 .. n, i # k
               PROVE  \E j \in 1 .. n - 1 : r[j] = q[i]
    OBVIOUS
  <2>1. CASE i < k
    <3>1. i \in 1 .. n - 1 /\ r[i] = q[i]
      BY <1>1, <1>6, <2>1
    <3> QED BY <3>1
  <2>2. CASE i > k
    <3>1. i - 1 \in 1 .. n - 1 /\ r[i - 1] = q[i]
      BY <1>1, <1>6, <2>2
    <3> QED BY <3>1
  <2> QED BY <1>1, <2>1, <2>2
<1>9. \A i \in 1 .. n - 1 : \E j \in 1 .. n : q[j] = r[i]
  BY <1>1, <1>6
<1> HIDE DEF r
<1>10. \A i \in 1 .. n - 1 : Known(r[i])'
  BY <1>7
<1>11. \A u \in parked' : Known(u)'
  BY <1>1, <1>2
<1>12. ASSUME NEW u \in Task
       PROVE  /\ state'[u] = "running" => \E i \in 1 .. n - 1 : r[i] = u
              /\ state'[u] \in {"sleeping", "throttled"} \/ u \in parked'
                   => \A i \in 1 .. n - 1 : r[i] # u
  <2>1. CASE u = t
    BY <1>2, <1>7, <2>1
  <2>2. CASE u # t
    <3>1. state'[u] = state[u] /\ (u \in parked' => u \in parked)
      BY <1>2, <2>2
    <3>2. state[u] = "running" => \E i \in 1 .. n - 1 : r[i] = u
      BY <1>1, <1>3, <1>8, <2>2
    <3>3. u \notin Queued => \A i \in 1 .. n - 1 : r[i] # u
      BY <1>1, <1>9
    <3> QED BY <1>1, <3>1, <3>2, <3>3
  <2> QED BY <2>1, <2>2
<1>13. ListInv' /\ Queue' = r
  BY <1>5, <1>10, <1>11, <1>12, ListNext
<1> QED BY <1>0, <1>3, <1>13, WithoutIsDequeue DEF r

\* A step that leaves the list alone and lets no other task run or stop.
LEMMA ListKept ==
  ASSUME TypeOK, TypeOK', ListInv, careless = 0, UNCHANGED listVars,
         \A u \in Task : Known(u) => Known(u)',
         \A u \in Task : state'[u] \in {"running", "sleeping", "throttled"}
                           => state'[u] = state[u],
         parked' = parked
  PROVE  ListInv' /\ AbstractStep
<1>0. PICK q, n : q = Queue /\ n = Length
  OBVIOUS
<1>1. /\ n \in Nat /\ q \in [1 .. n -> Task] /\ Lists(q, n, head, tail, next, prev)
      /\ \A i \in 1 .. n : Known(q[i])
      /\ \A u \in parked : Known(u)
      /\ \A u \in Task :
           /\ u \in Queued <=> \E i \in 1 .. n : q[i] = u
           /\ state[u] = "running" => u \in Queued
           /\ state[u] \in {"sleeping", "throttled"} \/ u \in parked => u \notin Queued
  BY <1>0, ListNow
<1>2. Lists(q, n, head', tail', next', prev')
  BY <1>1 DEF listVars
<1>3. \A i \in 1 .. n : Known(q[i])'
  BY <1>1
<1>4. \A u \in parked' : Known(u)'
  BY <1>1, TypesAre
<1>5. ListInv' /\ Queue' = q
  BY <1>1, <1>2, <1>3, <1>4, ListNext
<1> QED BY <1>0, <1>5 DEF AbstractStep

\* The task picked goes to the end.
LEMMA RotateStep ==
  ASSUME TypeOK, TypeOK', ListInv, careless = 0,
         Length >= 2, state[head] = "running", task_scheduler_next
  PROVE  ListInv' /\ AbstractStep
<1>0. PICK q, n : q = Queue /\ n = Length
  OBVIOUS
<1> DEFINE r == Rotated(q, n)
<1>1. /\ n \in Nat /\ q \in [1 .. n -> Task] /\ Lists(q, n, head, tail, next, prev)
      /\ \A i \in 1 .. n : Known(q[i])
      /\ \A u \in parked : Known(u)
      /\ \A u \in Task :
           /\ u \in Queued <=> \E i \in 1 .. n : q[i] = u
           /\ state[u] = "running" => u \in Queued
           /\ state[u] \in {"sleeping", "throttled"} \/ u \in parked => u \notin Queued
  BY <1>0, ListNow
<1>2. /\ head \in Pointer /\ tail \in Pointer
      /\ next \in [Task -> Pointer] /\ prev \in [Task -> Pointer]
      /\ state \in [Task -> States] /\ parked \subseteq Task
  BY TypesAre
<1>3. n >= 2 /\ head = q[1] /\ head \in Task /\ head # NULL
  BY <1>0, <1>1 DEF Lists, Task, NULL
<1>4. MoveToTail(head) /\ state' = [state EXCEPT ![head] = "running"] /\ parked' = parked
      /\ UNCHANGED tableVars
  <2>1. ~ SleepingHead(state) /\ Candidate(state) = head
    BY DEF SleepingHead, Candidate
  <2>2. Picks(state)
    BY <1>3, <2>1 DEF Picks
  <2> QED BY <2>1, <2>2 DEF task_scheduler_next, SchedulerNext
<1>5. state' = state
  BY <1>2, <1>3, <1>4
<1>6. Lists(r, n, head', tail', next', prev')
  <2> HIDE DEF r
  <2>1. head' = next[head] /\ tail' = head
    BY <1>4 DEF MoveToTail
  <2>2. Moved(head, tail, next, prev, head', next', prev')
    BY <1>2, <1>4 DEF MoveToTail, Moved
  <2>3. Lists(Rotated(q, n), n, head', head, next', prev')
    BY <1>1, <1>2, <1>3, <2>2, RotateList
  <2> QED BY <2>1, <2>3 DEF r
<1>7. \A i \in 1 .. n : r[i] = IF i = n THEN q[1] ELSE q[i + 1]
  BY DEF Rotated
<1>8. \A i \in 1 .. n : \E j \in 1 .. n : r[i] = q[j]
  BY <1>1, <1>7
<1>9. \A i \in 1 .. n : \E j \in 1 .. n : r[j] = q[i]
  <2> SUFFICES ASSUME NEW i \in 1 .. n PROVE \E j \in 1 .. n : r[j] = q[i]
    OBVIOUS
  <2>1. CASE i = 1
    BY <1>1, <1>7, <2>1
  <2>2. CASE i # 1
    <3>1. i - 1 \in 1 .. n /\ r[i - 1] = q[i]
      BY <1>1, <1>7, <2>2
    <3> QED BY <3>1
  <2> QED BY <2>1, <2>2
<1> HIDE DEF r
<1>10. \A u : Known(u)' <=> Known(u)
  BY <1>4 DEF Known, tableVars
<1>11. ListInv' /\ Queue' = r
  <2>1. \A i \in 1 .. n : Known(r[i])'
    BY <1>1, <1>8, <1>10
  <2>2. \A u \in parked' : Known(u)'
    BY <1>1, <1>4, <1>10
  <2>3. ASSUME NEW u \in Task
        PROVE  /\ state'[u] = "running" => \E i \in 1 .. n : r[i] = u
               /\ state'[u] \in {"sleeping", "throttled"} \/ u \in parked'
                    => \A i \in 1 .. n : r[i] # u
    <3>1. u \in Queued => \E i \in 1 .. n : r[i] = u
      BY <1>1, <1>9
    <3>2. u \notin Queued => \A i \in 1 .. n : r[i] # u
      BY <1>1, <1>8
    <3>3. state'[u] = state[u] /\ parked' = parked
      BY <1>4, <1>5
    <3> QED BY <1>1, <3>1, <3>2, <3>3
  <2> QED BY <1>6, <2>1, <2>2, <2>3, ListNext
<1> QED BY <1>0, <1>11, RotatedIsRotate DEF r

\* The calls, one by one.
LEMMA SpawnList ==
  ASSUME TableInv, TableInv', ListInv, careless = 0, task_spawn
  PROVE  ListInv' /\ AbstractStep
<1>0. PICK t : t = spawned + 1
  OBVIOUS
<1>1. TypeOK /\ TypeOK' /\ TableExact /\ t \in Task /\ state[t] = "none"
  BY <1>0, TypesAre, TaskConstants DEF TableInv, task_spawn, Task
<1>2. ~ Known(t) /\ t \notin Queued /\ t \notin parked
  BY <1>1, KnownAreAlive, ListNow DEF ListInv
<1>3. parked' = parked
  BY DEF task_spawn
<1>4. CASE FreeSlots = {}
  <2>1. state' = [state EXCEPT ![t] = "freed"] /\ UNCHANGED taskTable /\ UNCHANGED listVars
    BY <1>0, <1>4 DEF task_spawn, listVars
  <2>2. \A u \in Task : state'[u] \in {"running", "sleeping", "throttled"} => state'[u] = state[u]
    BY <1>1, <2>1, TypesAre
  <2>3. \A u \in Task : Known(u) => Known(u)'
    BY <2>1 DEF Known
  <2> QED BY <1>1, <1>3, <2>1, <2>2, <2>3, ListKept
<1>5. CASE FreeSlots # {}
  <2> DEFINE i == Min(FreeSlots)
  <2>1. /\ state' = [state EXCEPT ![t] = "running"]
        /\ taskTable' = [taskTable EXCEPT ![i] = t]
        /\ scheduler_enqueue(t)
    BY <1>0, <1>5 DEF task_spawn
  <2>2. i \in 1 .. MAX_TASKS /\ taskTable[i] = NULL
    <3>1. FreeSlots \subseteq Nat
      BY TaskConstants DEF FreeSlots
    <3>2. i \in FreeSlots
      BY <1>5, <3>1, LeastMember
    <3> QED BY <3>2 DEF FreeSlots
  <2> HIDE DEF i
  <2>3. /\ taskTable \in [1 .. MAX_TASKS -> Pointer]
        /\ ToSet(taskTable') = {taskTable'[j] : j \in 1 .. MAX_TASKS}
    BY <1>1, <2>1, TypesAre DEF ToSet
  <2>4. Known(t)'
    BY <2>1, <2>2, <2>3 DEF Known
  <2>5. ASSUME NEW u \in Task, Known(u) PROVE Known(u)'
    <3>1. PICK j \in 1 .. MAX_TASKS : taskTable[j] = u
      BY <1>1, <2>5, KnownIs
    <3>2. taskTable'[j] = u
      BY <2>1, <2>2, <2>3, <3>1 DEF Task, NULL
    <3> QED BY <2>3, <3>2 DEF Known
  <2> QED BY <1>1, <1>2, <1>3, <2>1, <2>4, <2>5, EnqueueStep
<1> QED BY <1>4, <1>5

LEMMA LeaveList ==
  ASSUME TableInv, TableInv', ListInv, careless = 0,
         NEW t \in Queued, task_kill(t) \/ task_sleep(t) \/ task_pause(t)
  PROVE  ListInv' /\ AbstractStep
<1>1. TypeOK /\ TypeOK' /\ t \in Task /\ scheduler_dequeue(t) /\ Known(t)
  BY QueueTypes DEF TableInv, task_kill, task_sleep, task_pause
<1>2. CASE task_kill(t)
  <2>1. /\ state' = [state EXCEPT ![t] = "freed"] /\ parked' = parked \ {t}
        /\ taskTable' = [i \in 1 .. MAX_TASKS |-> IF taskTable[i] = t THEN NULL ELSE taskTable[i]]
    BY <1>2 DEF task_kill
  <2>2. ASSUME NEW u \in Task, Known(u), u # t PROVE Known(u)'
    <3>1. PICK j \in 1 .. MAX_TASKS : taskTable[j] = u
      BY <1>1, <2>2, KnownIs
    <3> QED BY <2>1, <2>2, <3>1 DEF Known, ToSet
  <2> QED BY <1>1, <2>1, <2>2, DequeueStep
<1>3. CASE task_sleep(t) \/ task_pause(t)
  <2>1. /\ \E s \in {"sleeping", "throttled"} : state' = [state EXCEPT ![t] = s]
        /\ parked' = parked \cup {t} /\ UNCHANGED taskTable
    BY <1>3 DEF task_sleep, task_pause, tableVars
  <2>2. \A u : Known(u)' <=> Known(u)
    BY <2>1 DEF Known
  <2> QED BY <1>1, <2>1, <2>2, DequeueStep
<1> QED BY <1>2, <1>3

LEMMA ReturnList ==
  ASSUME TableInv, TableInv', ListInv, careless = 0,
         NEW t \in Task, task_wake(t) \/ task_resume(t)
  PROVE  ListInv' /\ AbstractStep
<1>1. /\ TypeOK /\ TypeOK' /\ scheduler_enqueue(t) /\ Known(t)
      /\ state[t] \in {"sleeping", "throttled"}
      /\ state' = [state EXCEPT ![t] = "running"]
      /\ parked' = parked \ {t} /\ UNCHANGED taskTable
  BY DEF TableInv, task_wake, task_resume, tableVars
<1>2. t \notin Queued
  BY <1>1, ListNow
<1>3. \A u : Known(u)' <=> Known(u)
  BY <1>1 DEF Known
<1> QED BY <1>1, <1>2, <1>3, EnqueueStep

LEMMA TimeList ==
  ASSUME TableInv, TableInv', ListInv, careless = 0,
         TimePasses \/ (TimePasses /\ UNCHANGED due) \/ task_scheduler_tick
  PROVE  ListInv' /\ AbstractStep
<1>1. TypeOK /\ TypeOK' /\ UNCHANGED listVars /\ UNCHANGED taskTable /\ parked' = parked
  BY DEF TableInv, TimePasses, task_scheduler_tick, tableVars
<1>2. \A u \in Task : state'[u] \in {"running", "sleeping", "throttled"} => state'[u] = state[u]
  BY DEF TimePasses, task_scheduler_tick
<1>3. \A u : Known(u)' <=> Known(u)
  BY <1>1 DEF Known
<1> QED BY <1>1, <1>2, <1>3, ListKept

\* A careful call is a step of the run queue and keeps the list.
LEMMA CarefulList ==
  ASSUME TableInv, TableInv', ListInv, careless = 0, CarefulCall
  PROVE  ListInv' /\ AbstractStep
<1>1. TypeOK /\ TypeOK'
  BY DEF TableInv
<1>2. CASE task_spawn
  BY <1>2, SpawnList
<1>3. CASE \E t \in Task : t \in Queued /\ (task_kill(t) \/ task_sleep(t) \/ task_pause(t))
  BY <1>3, LeaveList
<1>4. CASE \E t \in Task : task_wake(t) \/ task_resume(t)
  BY <1>4, ReturnList
<1>5. CASE Length >= 2 /\ state[head] = "running" /\ task_scheduler_next
  BY <1>1, <1>5, RotateStep
<1> QED BY <1>1, <1>2, <1>3, <1>4, <1>5, CarefulCallIs

\* So does every step, as long as all calls have been careful.
LEMMA ListStep ==
  ASSUME TableInv, TableInv', ListInv, [Next]_vars
  PROVE  ListInv' /\ (careless' = 0 => AbstractStep)
<1>1. TypeOK /\ careless \in Nat
  BY TypesAre, TaskConstants DEF TableInv
<1>2. CASE Next
  <2>1. CASE CarefulCall /\ UNCHANGED careless
    <3>1. CASE careless = 0
      BY <2>1, <3>1, CarefulList
    <3>2. CASE careless # 0
      BY <2>1, <3>2 DEF ListInv
    <3> QED BY <3>1, <3>2
  <2>2. CASE CarelessCall /\ careless < MaxCareless /\ careless' = careless + 1
    BY <1>1, <2>2 DEF ListInv
  <2>3. CASE (TimePasses \/ task_scheduler_tick) /\ UNCHANGED careless
    <3>1. CASE careless = 0
      BY <2>3, <3>1, TimeList
    <3>2. CASE careless # 0
      BY <2>3, <3>2 DEF ListInv
    <3> QED BY <3>1, <3>2
  <2> QED BY <1>2, <2>1, <2>2, <2>3 DEF Next
<1>3. CASE UNCHANGED vars
  <2>1. UNCHANGED <<taskTable, state, next, prev, head, tail, parked, careless>>
    BY <1>3 DEF vars, tableVars, listVars
  <2>2. Queue' = Queue /\ Length' = Length /\ Queued' = Queued
    <3>1. Queue' = Queue /\ Length' = Length
      BY <2>1, QueueIs, QueueIsNext
    <3> QED BY <3>1 DEF Queued, ToSet
  <2>3. \A u : Known(u)' <=> Known(u)
    BY <2>1 DEF Known
  <2> QED BY <2>1, <2>2, <2>3 DEF ListInv, AbstractStep
<1> QED BY <1>2, <1>3

\* At the start the list is empty.
LEMMA ListInit == Init => ListInv
<1> SUFFICES ASSUME Init PROVE ListInv
  OBVIOUS
<1>1. TypeOK
  BY TableInit DEF TableInv
<1>2. Lists(<<>>, 0, head, tail, next, prev)
  BY DEF Init, Lists
<1>3. Length = 0 /\ Queue = <<>>
  BY <1>1, <1>2, TypesAre, ListIsQueue, QueueIs
<1>4. Queued = {}
  BY <1>1, <1>3, QueueTypes
<1> QED BY <1>2, <1>3, <1>4 DEF Init, ListInv

\* The two invariants together are inductive.
LEMMA TaskInvariant == Spec => [](TableInv /\ ListInv)
<1>1. Init => TableInv /\ ListInv
  BY TableInit, ListInit
<1>2. TableInv /\ ListInv /\ [Next]_vars => TableInv' /\ ListInv'
  BY TableStep, ListStep
<1> QED BY <1>1, <1>2, PTL DEF Spec

\* For any number of tasks, as long as the list is used as it is written for:
\* next, prev, scheduler_head and scheduler_tail describe one queue, without
\* repetition and without freed tasks.
THEOREM QueueStaysWellFormed == Spec => []QueueWellFormed
<1>1. TableInv /\ ListInv => QueueWellFormed
  BY WellFormedIs DEF TableInv, ListInv
<1> QED BY <1>1, TaskInvariant, PTL

\* Then a task that may run is in the queue, and a task that was put to sleep
\* or paused is not.
THEOREM RunnableStayQueued == Spec => []RunnableQueued
<1>1. TableInv /\ ListInv => RunnableQueued
  BY ListNow DEF TableInv, ListInv, RunnableQueued
<1> QED BY <1>1, TaskInvariant, PTL

\* And every call is a step of the run queue or leaves it as it is.
THEOREM SchedulerImplementsRunQueue == Spec => ImplementsRunQueue
<1>1. TableInv /\ TableInv' /\ ListInv /\ [Next]_vars
        => [careless' = 0 => Abstract!Next \/ Queue' = Queue]_vars
  BY ListStep DEF AbstractStep
<1> QED BY <1>1, TaskInvariant, PTL DEF Spec, ImplementsRunQueue

-------------------------------------------------------------------------------
(***************************************************************************)
(* The timers of the Hardware Deck.  An id names one active timer, and     *)
(* what the scan found expired stays set until the scan comes to it.       *)
(***************************************************************************)
TimerRecord == [id : 0 .. MaxTimers, owner : Pointer, periodic : BOOLEAN,
                ripe : BOOLEAN, active : BOOLEAN]

TimersInv ==
  /\ next_timer_id \in 0 .. MaxTimers
  /\ timers \in [Slot -> TimerRecord]
  /\ fired \in [1 .. next_timer_id -> Nat]
  /\ slot \in Slot \cup {NULL} /\ expired \subseteq Slot
  /\ \A i \in Slot : timers[i].active => timers[i].id \in 1 .. next_timer_id
  /\ \A i, j \in Slot : timers[i].active /\ timers[j].active /\ timers[i].id = timers[j].id => i = j
  /\ slot # NULL => \A i \in expired : i >= slot => timers[i].active

DeckInv == careless = 0 /\ TableInv /\ ListInv /\ TimersInv

\* The constants of the timers as numbers.
LEMMA TimerConstants ==
  /\ MAX_TIMERS \in Nat /\ MAX_TIMERS > 0
  /\ MaxTimers \in Nat /\ MaxTimers > 0
BY TimerAssumption

\* A step of the deck that leaves the tasks alone, or wakes, sleeps or lets
\* time pass, keeps the table and the list.
LEMMA TasksKept ==
  ASSUME careless = 0, TableInv, ListInv, UNCHANGED vars
  PROVE  careless' = 0 /\ TableInv' /\ ListInv'
<1>1. [Next]_vars
  OBVIOUS
<1>2. TableInv'
  BY <1>1, TableStep
<1>3. ListInv'
  BY <1>1, <1>2, ListStep
<1> QED BY <1>2, <1>3 DEF vars

LEMMA DeckTasks ==
  ASSUME careless = 0, TableInv, ListInv, TimersInv, [DeckNext]_deckVars
  PROVE  careless' = 0 /\ TableInv' /\ ListInv'
<1>1. TypeOK /\ careless \in 0 .. MaxCareless
  BY TypesAre DEF TableInv
<1>2. CASE Intact /\ CarefulCall /\ UNCHANGED careless
  <2>1. TableInv'
    <3>1. Next
      BY <1>2 DEF Next
    <3> QED BY <3>1, TableStep
  <2> QED BY <1>2, <2>1, CarefulList
<1>3. CASE timer_sleep
  <2>1. current \in Queued /\ current \in Task /\ task_sleep(current) /\ careless' = careless
    BY <1>1, <1>3, QueueTypes DEF timer_sleep
  <2>2. TableInv'
    BY <1>1, <2>1, StateCallTable
  <2> QED BY <2>1, <2>2, LeaveList
<1>4. CASE CheckSlot
  <2> DEFINE t == timers[slot].owner
  <2>1. \/ UNCHANGED vars
        \/ t # NULL /\ slot \in expired /\ task_wake(t) /\ careless' = careless
    BY <1>4 DEF CheckSlot, WakeOwner
  <2>2. CASE t # NULL /\ slot \in expired /\ task_wake(t) /\ careless' = careless
    <3>1. t \in Task
      BY <2>2 DEF TimersInv, TimerRecord, Pointer
    <3> HIDE DEF t
    <3>2. TableInv'
      BY <1>1, <2>2, <3>1, StateCallTable
    <3> QED BY <2>2, <3>1, <3>2, ReturnList
  <2> QED BY <2>1, <2>2, TasksKept
<1>5. CASE Interrupted /\ UNCHANGED careless
  <2>1. (TimePasses /\ UNCHANGED due) \/ task_scheduler_tick
    BY <1>5 DEF Interrupted
  <2>2. TableInv'
    BY <1>1, <1>5, <2>1, TimeTable
  <2> QED BY <1>5, <2>1, <2>2, TimeList
<1>6. CASE UNCHANGED vars
  BY <1>6, TasksKept
<1>7. \/ Intact /\ CarefulCall /\ UNCHANGED careless
      \/ timer_sleep \/ CheckSlot
      \/ Interrupted /\ UNCHANGED careless
      \/ UNCHANGED vars
  BY DEF DeckNext, deckVars, timer_create, timer_cancel, Check, CheckStart, Ripens
<1> QED BY <1>2, <1>3, <1>4, <1>5, <1>6, <1>7

-------------------------------------------------------------------------------
(***************************************************************************)
(* What each step of the deck is to the timer service.                     *)
(***************************************************************************)
Promise(i) == [id |-> timers[i].id, owner |-> timers[i].owner, periodic |-> timers[i].periodic]
Live == {Promise(i) : i \in {j \in Slot : timers[j].active}}

TimerStep == Service!Next \/ (Live' = Live /\ fired' = fired)

\* The service's steps in these terms.
LEMMA ServiceSteps ==
  /\ (\E timer \in Live' :
        /\ timer.id \notin DOMAIN fired
        /\ Live' = Live \cup {timer}
        /\ fired' = [n \in DOMAIN fired \cup {timer.id} |-> IF n = timer.id THEN 0 ELSE fired[n]])
       => Service!Next
  /\ (\E timer \in Live : Live' = Live \ {timer} /\ fired' = fired) => Service!Next
  /\ (\E timer \in Live :
        /\ fired' = [fired EXCEPT ![timer.id] = @ + 1]
        /\ Live' = IF timer.periodic THEN Live ELSE Live \ {timer})
       => Service!Next
BY DEF Service!Next, Service!Create, Service!Cancel, Service!GoOff, Live, Promise

\* A record of the table in its parts.
LEMMA TimerIs ==
  ASSUME TimersInv, NEW i \in Slot
  PROVE  /\ timers[i] \in TimerRecord
         /\ timers[i].id \in 0 .. MaxTimers /\ timers[i].owner \in Pointer
         /\ timers[i].periodic \in BOOLEAN /\ timers[i].ripe \in BOOLEAN
         /\ timers[i].active \in BOOLEAN
BY DEF TimersInv, TimerRecord

\* timer_create takes a slot of no active timer and a new id.
LEMMA CreateStep ==
  ASSUME TimersInv, TypeOK, NEW periodic \in BOOLEAN, timer_create(periodic)
  PROVE  TimersInv' /\ TimerStep
<1> DEFINE i == Min(FreeTimers)
           m == next_timer_id + 1
           rec == [id |-> m, owner |-> current, periodic |-> periodic,
                   ripe |-> FALSE, active |-> TRUE]
           new == [id |-> m, owner |-> current, periodic |-> periodic]
<1>1. /\ next_timer_id < MaxTimers /\ next_timer_id' = m
      /\ timers' = [timers EXCEPT ![i] = rec]
      /\ fired' = [n \in 1 .. m |-> IF n = m THEN 0 ELSE fired[n]]
      /\ UNCHANGED <<slot, expired>>
  BY DEF timer_create, scanVars
<1>2. i \in Slot /\ ~ timers[i].active
  <2>1. FreeTimers \subseteq Nat /\ FreeTimers # {}
    BY TimerConstants DEF FreeTimers, Slot, timer_create
  <2>2. i \in FreeTimers
    BY <2>1, LeastMember
  <2> QED BY <2>2 DEF FreeTimers
<1>3. /\ next_timer_id \in 0 .. MaxTimers /\ timers \in [Slot -> TimerRecord]
      /\ fired \in [1 .. next_timer_id -> Nat] /\ next_timer_id \in Nat
      /\ m \in 1 .. MaxTimers /\ current \in Pointer
  BY <1>1, TimerConstants, TypesAre DEF TimersInv
<1> HIDE DEF i
<1>4. rec \in TimerRecord
  BY <1>3 DEF TimerRecord
<1>5. \A j \in Slot : timers'[j] = IF j = i THEN rec ELSE timers[j]
  BY <1>1, <1>3
<1>6. TimersInv'
  <2>1. next_timer_id' \in 0 .. MaxTimers
    BY <1>1, <1>3
  <2>2. timers' \in [Slot -> TimerRecord]
    BY <1>1, <1>3, <1>4
  <2>3. fired' \in [1 .. next_timer_id' -> Nat]
    BY <1>1, <1>3
  <2>4. \A j \in Slot : timers'[j].active => timers'[j].id \in 1 .. next_timer_id'
    BY <1>1, <1>3, <1>5 DEF TimersInv
  <2>5. \A j, k \in Slot :
          timers'[j].active /\ timers'[k].active /\ timers'[j].id = timers'[k].id => j = k
    <3>1. \A j \in Slot : timers[j].active => timers[j].id # m
      BY <1>3 DEF TimersInv
    <3> QED BY <1>5, <3>1 DEF TimersInv
  <2>6. slot' # NULL => \A j \in expired' : j >= slot' => timers'[j].active
    BY <1>1, <1>5 DEF TimersInv
  <2> QED BY <1>1, <2>1, <2>2, <2>3, <2>4, <2>5, <2>6 DEF TimersInv
<1>7. Live' = Live \cup {new}
  <2>1. Live' = {[id |-> timers'[j].id, owner |-> timers'[j].owner,
                  periodic |-> timers'[j].periodic] : j \in {k \in Slot : timers'[k].active}}
    BY DEF Live, Promise
  <2>2. {k \in Slot : timers'[k].active} = {k \in Slot : timers[k].active} \cup {i}
    BY <1>2, <1>5
  <2> QED BY <1>2, <1>5, <2>1, <2>2 DEF Live, Promise
<1>8. /\ new.id \notin DOMAIN fired
      /\ fired' = [n \in DOMAIN fired \cup {new.id} |-> IF n = new.id THEN 0 ELSE fired[n]]
  <2>1. 1 .. m = 1 .. next_timer_id \cup {m}
    BY <1>3
  <2> QED BY <1>1, <1>3, <2>1
<1>9. Service!Next
  <2> HIDE DEF new
  <2>1. new \in Live'
    BY <1>7
  <2> QED BY <1>7, <1>8, <2>1, ServiceSteps
<1> QED BY <1>6, <1>9 DEF TimerStep

\* timer_cancel ends the one active timer with the id, outside a scan.
LEMMA CancelStep ==
  ASSUME TimersInv, slot = NULL, NEW n, timer_cancel(n)
  PROVE  TimersInv' /\ TimerStep
<1>1. PICK i \in Slot : /\ timers[i].active /\ timers[i].id = n
                        /\ timers' = [timers EXCEPT ![i].active = FALSE]
  BY DEF timer_cancel
<1>2. UNCHANGED <<next_timer_id, fired, slot, expired>>
  BY DEF timer_cancel, scanVars
<1>3. timers \in [Slot -> TimerRecord]
  BY DEF TimersInv
<1>4. \A j \in Slot :
        /\ timers'[j].id = timers[j].id /\ timers'[j].owner = timers[j].owner
        /\ timers'[j].periodic = timers[j].periodic
        /\ timers'[j].active = IF j = i THEN FALSE ELSE timers[j].active
        /\ timers'[j] \in TimerRecord
  BY <1>1, <1>3 DEF TimerRecord
<1>5. TimersInv'
  <2>1. timers' \in [Slot -> TimerRecord]
    BY <1>1, <1>3, <1>4
  <2> QED BY <1>2, <1>4, <2>1 DEF TimersInv
<1>6. Promise(i) \in Live /\ Live' = Live \ {Promise(i)}
  <2>1. Live' = {Promise(j) : j \in {k \in Slot : timers[k].active /\ k # i}}
    <3>1. Live' = {Promise(j)' : j \in {k \in Slot : timers'[k].active}}
      BY DEF Live
    <3>2. \A j \in Slot : Promise(j)' = Promise(j)
      BY <1>4 DEF Promise
    <3>3. {k \in Slot : timers'[k].active} = {k \in Slot : timers[k].active /\ k # i}
      BY <1>4
    <3> QED BY <3>1, <3>2, <3>3
  <2>2. \A j \in Slot : timers[j].active /\ j # i => Promise(j) # Promise(i)
    BY <1>1 DEF TimersInv, Promise
  <2> QED BY <1>1, <2>1, <2>2 DEF Live
<1> QED BY <1>2, <1>5, <1>6, ServiceSteps DEF TimerStep

\* A slot of a scan: the timer goes off if it had expired, and only then.
LEMMA CheckStep ==
  ASSUME TimersInv, CheckSlot
  PROVE  TimersInv' /\ TimerStep
<1>1. /\ slot \in Slot /\ slot # NULL
      /\ slot' = IF slot = MAX_TIMERS THEN NULL ELSE slot + 1
      /\ expired' = IF slot = MAX_TIMERS THEN {} ELSE expired
      /\ next_timer_id' = next_timer_id
  BY DEF CheckSlot, TimersInv
<1>2. /\ timers \in [Slot -> TimerRecord] /\ fired \in [1 .. next_timer_id -> Nat]
      /\ next_timer_id \in 0 .. MaxTimers /\ expired \subseteq Slot
  BY DEF TimersInv
<1>3. /\ slot' \in Slot \cup {NULL} /\ expired' \subseteq Slot
      /\ slot' # NULL => slot' = slot + 1 /\ expired' = expired /\ slot \in Nat
  <2>1. slot \in Nat /\ 1 <= slot /\ slot <= MAX_TIMERS
    BY <1>1, TimerConstants DEF Slot
  <2>2. CASE slot = MAX_TIMERS
    BY <1>1, <2>1, <2>2
  <2>3. CASE slot # MAX_TIMERS
    <3>1. slot + 1 \in Slot
      BY <2>1, <2>3, TimerConstants DEF Slot
    <3> QED BY <1>1, <1>2, <2>1, <2>3, <3>1
  <2> QED BY <2>2, <2>3
<1>4. CASE slot \in expired
  <2>1. timers' = Rearm(slot) /\ fired' = [fired EXCEPT ![timers[slot].id] = @ + 1]
    BY <1>4 DEF CheckSlot
  <2>2. timers[slot].active /\ timers[slot].id \in 1 .. next_timer_id
    BY <1>1, <1>4 DEF TimersInv, Slot
  <2>3. \A j \in Slot :
          /\ timers'[j].id = timers[j].id /\ timers'[j].owner = timers[j].owner
          /\ timers'[j].periodic = timers[j].periodic
          /\ timers'[j].active = IF j = slot THEN timers[slot].periodic ELSE timers[j].active
          /\ timers'[j] \in TimerRecord
    BY <1>1, <1>2, <2>1 DEF TimerRecord, Rearm
  <2>4. \A j \in Slot : timers'[j].active => timers[j].active
    BY <2>2, <2>3
  <2>5. TimersInv'
    <3>1. timers' \in [Slot -> TimerRecord]
      BY <1>2, <2>1, <2>3 DEF Rearm
    <3>2. fired' \in [1 .. next_timer_id' -> Nat]
      BY <1>1, <1>2, <2>1, <2>2
    <3>3. \A j \in Slot : timers'[j].active => timers'[j].id \in 1 .. next_timer_id'
      BY <1>1, <2>3, <2>4 DEF TimersInv
    <3>4. \A j, k \in Slot :
            timers'[j].active /\ timers'[k].active /\ timers'[j].id = timers'[k].id => j = k
      BY <2>3, <2>4 DEF TimersInv
    <3>5. slot' # NULL => \A j \in expired' : j >= slot' => timers'[j].active
      <4>1. ASSUME slot' # NULL, NEW j \in expired, j >= slot + 1
            PROVE  timers'[j].active
        <5>1. j \in Slot /\ slot \in Nat /\ j \in Nat /\ j >= slot /\ j # slot
          BY <1>2, <1>3, <4>1, TimerConstants DEF Slot
        <5> QED BY <1>1, <2>3, <4>1, <5>1 DEF TimersInv
      <4> QED BY <1>3, <4>1
    <3> QED BY <1>1, <1>2, <1>3, <3>1, <3>2, <3>3, <3>4, <3>5 DEF TimersInv
  <2>6. Promise(slot) \in Live
    BY <1>1, <2>2 DEF Live
  <2>7. Live' = IF timers[slot].periodic THEN Live ELSE Live \ {Promise(slot)}
    <3>1. Live' = {Promise(j) : j \in {k \in Slot : timers'[k].active}}
      <4>1. Live' = {Promise(j)' : j \in {k \in Slot : timers'[k].active}}
        BY DEF Live
      <4>2. \A j \in Slot : Promise(j)' = Promise(j)
        BY <2>3 DEF Promise
      <4> QED BY <4>1, <4>2
    <3>2. CASE timers[slot].periodic
      <4>1. {k \in Slot : timers'[k].active} = {k \in Slot : timers[k].active}
        BY <2>2, <2>3, <3>2
      <4> QED BY <3>1, <3>2, <4>1 DEF Live
    <3>3. CASE ~ timers[slot].periodic
      <4>1. {k \in Slot : timers'[k].active} = {k \in Slot : timers[k].active /\ k # slot}
        BY <2>3, <3>3
      <4>2. \A j \in Slot : timers[j].active /\ j # slot => Promise(j) # Promise(slot)
        BY <1>1, <2>2 DEF TimersInv, Promise
      <4> QED BY <3>1, <3>3, <4>1, <4>2 DEF Live
    <3> QED BY <3>2, <3>3
  <2>8. Promise(slot).id = timers[slot].id /\ Promise(slot).periodic = timers[slot].periodic
    BY DEF Promise
  <2>9. Service!Next
    BY <2>1, <2>6, <2>7, <2>8, ServiceSteps
  <2> QED BY <2>5, <2>9 DEF TimerStep
<1>5. CASE slot \notin expired
  <2>1. UNCHANGED <<timers, fired>>
    BY <1>5 DEF CheckSlot
  <2>2. slot' # NULL => \A j \in expired' : j >= slot' => timers'[j].active
    <3>1. ASSUME slot' # NULL, NEW j \in expired, j >= slot + 1
          PROVE  timers[j].active
      <4>1. slot \in Nat /\ j \in Nat /\ j >= slot
        BY <1>2, <1>3, <3>1, TimerConstants DEF Slot
      <4> QED BY <1>1, <4>1 DEF TimersInv
    <3> QED BY <1>3, <2>1, <3>1
  <2>3. TimersInv'
    BY <1>1, <1>3, <2>1, <2>2 DEF TimersInv
  <2>4. Live' = Live
    BY <2>1 DEF Live, Promise
  <2> QED BY <2>1, <2>3, <2>4 DEF TimerStep
<1> QED BY <1>4, <1>5

\* The start of a scan notes timers that are set; a timer ripens; the rest of
\* the system leaves the timers alone.
LEMMA OtherStep ==
  ASSUME TimersInv,
         \/ CheckStart
         \/ \E i \in Slot : Ripens(i)
         \/ UNCHANGED <<timerVars, scanVars>>
  PROVE  TimersInv' /\ TimerStep
<1>1. CASE CheckStart
  <2>1. /\ slot' = 1 /\ expired' = {i \in Slot : timers[i].active /\ timers[i].ripe}
        /\ UNCHANGED <<timers, next_timer_id, fired>>
    BY <1>1 DEF CheckStart, timerVars
  <2>2. slot' \in Slot
    BY <2>1, TimerConstants DEF Slot
  <2>3. TimersInv'
    BY <2>1, <2>2 DEF TimersInv
  <2>4. Live' = Live
    BY <2>1 DEF Live, Promise
  <2> QED BY <2>1, <2>3, <2>4 DEF TimerStep
<1>2. CASE \E i \in Slot : Ripens(i)
  <2>1. PICK i \in Slot : timers' = [timers EXCEPT ![i].ripe = TRUE]
    BY <1>2 DEF Ripens
  <2>2. UNCHANGED <<next_timer_id, fired, slot, expired>>
    BY <1>2 DEF Ripens, scanVars
  <2>3. timers \in [Slot -> TimerRecord]
    BY DEF TimersInv
  <2>4. \A j \in Slot :
          /\ timers'[j].id = timers[j].id /\ timers'[j].owner = timers[j].owner
          /\ timers'[j].periodic = timers[j].periodic
          /\ timers'[j].active = timers[j].active
          /\ timers'[j] \in TimerRecord
    BY <2>1, <2>3 DEF TimerRecord
  <2>5. timers' \in [Slot -> TimerRecord]
    BY <2>1, <2>3, <2>4
  <2>6. TimersInv'
    BY <2>2, <2>4, <2>5 DEF TimersInv
  <2>7. Live' = Live
    <3>1. Live' = {Promise(j)' : j \in {k \in Slot : timers'[k].active}}
      BY DEF Live
    <3>2. \A j \in Slot : Promise(j)' = Promise(j)
      BY <2>4 DEF Promise
    <3>3. {k \in Slot : timers'[k].active} = {k \in Slot : timers[k].active}
      BY <2>4
    <3> QED BY <3>1, <3>2, <3>3 DEF Live
  <2> QED BY <2>2, <2>6, <2>7 DEF TimerStep
<1>3. CASE UNCHANGED <<timerVars, scanVars>>
  <2>1. UNCHANGED <<timers, next_timer_id, fired, slot, expired>>
    BY <1>3 DEF timerVars, scanVars
  <2> QED BY <2>1 DEF TimersInv, TimerStep, Live, Promise
<1> QED BY <1>1, <1>2, <1>3

\* Every step of the deck keeps the invariant and is a step of the service, or
\* leaves it alone.
LEMMA DeckStep ==
  ASSUME DeckInv, [DeckNext]_deckVars
  PROVE  DeckInv' /\ TimerStep
<1>1. careless = 0 /\ TableInv /\ ListInv /\ TimersInv /\ TypeOK
  BY DEF DeckInv, TableInv
<1>2. careless' = 0 /\ TableInv' /\ ListInv'
  BY <1>1, DeckTasks
<1>3. TimersInv' /\ TimerStep
  <2>1. \/ \E periodic \in BOOLEAN : timer_create(periodic)
        \/ slot = NULL /\ \E n \in 1 .. MaxTimers : timer_cancel(n)
        \/ CheckSlot
        \/ CheckStart
        \/ \E i \in Slot : Ripens(i)
        \/ UNCHANGED <<timerVars, scanVars>>
    BY DEF DeckNext, deckVars, Check, timer_sleep
  <2> QED BY <1>1, <2>1, CreateStep, CancelStep, CheckStep, OtherStep
<1> QED BY <1>2, <1>3 DEF DeckInv

LEMMA DeckStart == DeckInit => DeckInv
<1> SUFFICES ASSUME DeckInit PROVE DeckInv
  OBVIOUS
<1>1. Init /\ TableInv /\ ListInv
  BY TableInit, ListInit DEF DeckInit
<1>2. TimersInv
  BY TimerConstants DEF DeckInit, TimersInv, TimerRecord, Inactive, Pointer, NULL
<1> QED BY <1>1, <1>2 DEF DeckInv, Init

\* For any number of tasks and of timers: a timer that goes off leaves the run
\* queue right, whatever has become of its owner.
THEOREM OwnersStayQueuedOnce == DeckSpec => []OwnersQueuedOnce
<1>1. DeckInit => DeckInv
  BY DeckStart
<1>2. DeckInv /\ [DeckNext]_deckVars => DeckInv'
  BY DeckStep
<1>3. DeckInv => OwnersQueuedOnce
  BY WellFormedIs, ListNow DEF DeckInv, TableInv, ListInv, RunnableQueued, OwnersQueuedOnce
<1> QED BY <1>1, <1>2, <1>3, PTL DEF DeckSpec

\* The table of slots, with its scan in steps, is a set of timers that go off
\* as often as they should and never after they are cancelled.
THEOREM DeckImplementsTimers == DeckSpec => ImplementsTimers
<1>1. DeckInit => DeckInv
  BY DeckStart
<1>2. DeckInv /\ [DeckNext]_deckVars => DeckInv'
  BY DeckStep
<1>3. DeckInit => Service!Init
  BY DEF DeckInit, Service!Init, Inactive
<1>4. DeckInv /\ [DeckNext]_deckVars => [Service!Next]_Service!timerVars
  BY DeckStep DEF TimerStep, Service!timerVars, Live, Promise
<1> QED BY <1>1, <1>2, <1>3, <1>4, PTL DEF DeckSpec, ImplementsTimers, Service!Spec
===============================================================================
