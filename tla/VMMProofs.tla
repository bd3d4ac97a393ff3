------------------------------ MODULE VMMProofs ------------------------------
(***************************************************************************)
(* For every number of frames, levels, entries and contexts, and every     *)
(* choice PMM makes: each frame has one use, a region stays mapped until   *)
(* it is freed and no other call maps over it, a failed call leaves        *)
(* nothing mapped, and the kernel heap is the same in every context.       *)
(***************************************************************************)
EXTENDS VMM, TLAPS, WellFoundedInduction

-------------------------------------------------------------------------------
(***************************************************************************)
(* Numbers and loops.                                                      *)
(***************************************************************************)
LEMMA VMMConstants ==
  /\ FRAMES \in Nat /\ 0 < FRAMES /\ ENTRIES \in Nat /\ 0 < ENTRIES
  /\ LEVELS \in Nat /\ 1 < LEVELS /\ Last \in Nat /\ 0 < Last /\ Last + 1 = LEVELS
  /\ BASE_PAGES \in Nat /\ HEAP_BASE \in Nat /\ HEAP_END \in Nat /\ HEAP_BASE <= HEAP_END
  /\ LOW_END \in Nat /\ USER_BASE \in Nat /\ USER_TOP \in Nat
  /\ \A n \in Sizes : n \in Nat /\ 0 < n
  /\ KERNEL \in Frame
BY VMMAssumption DEF Last, KERNEL, Frame

\* A set of numbers that is not empty has a least member, and Min finds it.
LEMMA LeastMember ==
  ASSUME NEW S, S \subseteq Nat, S # {}
  PROVE  Min(S) \in S /\ \A t \in S : Min(S) <= t
<1> DEFINE R == OpToRel(<, Nat)
<1>1. \E x \in S : \A y \in S : ~ (<<y, x>> \in R)
  <2> HIDE DEF R
  <2>1. IsWellFoundedOn(R, Nat)
    BY NatLessThanWellFounded DEF R
  <2> QED BY <2>1, WFMin
<1>2. \A x, y \in Nat : y < x => <<y, x>> \in R
  BY DEF OpToRel
<1>3. \E x \in S : \A y \in S : x <= y
  <2> HIDE DEF R
  <2>1. PICK x \in S : \A y \in S : ~ (<<y, x>> \in R)
    BY <1>1
  <2>2. ASSUME NEW y \in S PROVE x <= y
    <3>1. x \in Nat /\ y \in Nat /\ ~ (y < x)
      BY <1>2, <2>1
    <3> QED BY <3>1
  <2> QED BY <2>2
<1> QED BY <1>3 DEF Min

\* What holds before a loop and is kept by each turn holds after every turn.
LEMMA LoopKeeps ==
  ASSUME NEW S, NEW n \in Nat, NEW w, w[0] \in S,
         \A k \in 1 .. n : w[k - 1] \in S => w[k] \in S
  PROVE  \A k \in 0 .. n : w[k] \in S
<1> DEFINE bad == {k \in 0 .. n : w[k] \notin S}
<1>1. SUFFICES ASSUME bad # {} PROVE FALSE
  OBVIOUS
<1>2. PICK k : k \in bad /\ \A t \in bad : k <= t
  <2>1. bad \subseteq Nat
    OBVIOUS
  <2> HIDE DEF bad
  <2> QED BY <1>1, <2>1, LeastMember
<1>3. k \in 1 .. n /\ k - 1 \in 0 .. n
  <2>1. k \in 0 .. n /\ k # 0
    BY <1>2
  <2> QED BY <2>1
<1>4. k - 1 \notin bad
  <2>1. ~ (k <= k - 1)
    BY <1>3
  <2> QED BY <1>2, <2>1
<1>5. w[k - 1] \in S
  BY <1>3, <1>4
<1> QED BY <1>2, <1>3, <1>5

\* What holds of 0, and of each number if of the one before, holds up to n.
LEMMA CountUp ==
  ASSUME NEW S, NEW n \in Nat, 0 \in S, \A k \in 1 .. n : k - 1 \in S => k \in S
  PROVE  \A k \in 0 .. n : k \in S
<1> DEFINE w == [k \in 0 .. n |-> k]
<1>1. w[0] \in S /\ \A k \in 1 .. n : w[k - 1] \in S => w[k] \in S
  OBVIOUS
<1>2. \A k \in 0 .. n : w[k] = k
  OBVIOUS
<1> HIDE DEF w
<1>3. \A k \in 0 .. n : w[k] \in S
  BY <1>1, LoopKeeps
<1> QED BY <1>2, <1>3

LEMMA CountDown ==
  ASSUME NEW S, NEW n \in Nat, n \in S, \A k \in 1 .. n : k \in S => k - 1 \in S
  PROVE  \A k \in 0 .. n : k \in S
<1> DEFINE T == {k \in 0 .. n : n - k \in S}
<1>1. 0 \in T
  OBVIOUS
<1>2. ASSUME NEW k \in 1 .. n, k - 1 \in T PROVE k \in T
  <2>1. n - (k - 1) \in S /\ n - (k - 1) \in 1 .. n /\ n - (k - 1) - 1 = n - k
    BY <1>2
  <2> QED BY <2>1
<1> HIDE DEF T
<1>3. \A k \in 0 .. n : k \in T
  BY <1>1, <1>2, CountUp
<1> QED
  <2> TAKE k \in 0 .. n
  <2>1. n - k \in 0 .. n /\ n - (n - k) = k
    OBVIOUS
  <2> QED BY <1>3, <2>1 DEF T

\* A loop of n turns that starts with x and whose k-th turn is F[k] has a run g.
IsRun(g, S, n, x, F) ==
  g \in [0 .. n -> S] /\ g[0] = x /\ \A k \in 1 .. n : g[k] = F[k][g[k - 1]]

LEMMA LoopRuns ==
  ASSUME NEW S, NEW n \in Nat, NEW x \in S, NEW F \in [1 .. n -> [S -> S]]
  PROVE  \E g : IsRun(g, S, n, x, F)
<1> USE DEF IsRun
<1> DEFINE Turns(m, g) == g \in [0 .. m -> S] /\ g[0] = x /\ \A k \in 1 .. m : g[k] = F[k][g[k - 1]]
           bad == {m \in 0 .. n : ~ \E g : Turns(m, g)}
<1>1. SUFFICES ASSUME bad # {} PROVE FALSE
  <2>1. n \notin bad
    BY <1>1
  <2>2. \E g : Turns(n, g)
    BY <2>1
  <2> QED BY <2>2
<1>2. PICK m : m \in bad /\ \A t \in bad : m <= t
  <2>1. bad \subseteq Nat
    OBVIOUS
  <2> HIDE DEF bad
  <2> QED BY <1>1, <2>1, LeastMember
<1>3. m # 0
  <2>1. Turns(0, [k \in 0 .. 0 |-> x])
    OBVIOUS
  <2> QED BY <1>2, <2>1
<1>4. m \in 1 .. n /\ m - 1 \in 0 .. n /\ m - 1 \notin bad
  <2>1. m \in 0 .. n
    BY <1>2
  <2>2. m \in 1 .. n /\ m - 1 \in 0 .. n /\ ~ (m <= m - 1)
    BY <1>3, <2>1
  <2> QED BY <1>2, <2>2
<1>5. PICK g : Turns(m - 1, g)
  BY <1>4
<1> DEFINE h == [k \in 0 .. m |-> IF k = m THEN F[m][g[m - 1]] ELSE g[k]]
<1>6. Turns(m, h)
  <2>1. F[m][g[m - 1]] \in S
    BY <1>4, <1>5
  <2>2. h \in [0 .. m -> S] /\ h[0] = x
    BY <1>3, <1>4, <1>5, <2>1
  <2>3. ASSUME NEW k \in 1 .. m PROVE h[k] = F[k][h[k - 1]]
    <3>1. k \in 0 .. m /\ k - 1 \in 0 .. m /\ k - 1 # m /\ m - 1 \in 0 .. m
      BY <1>4, <2>3
    <3>2. CASE k = m
      BY <3>1, <3>2
    <3>3. CASE k # m
      <4>1. k \in 1 .. m - 1
        BY <1>4, <3>3
      <4> QED BY <1>5, <3>1, <3>3, <4>1
    <3> QED BY <3>2, <3>3
  <2> QED BY <2>2, <2>3
<1> QED BY <1>2, <1>6

-------------------------------------------------------------------------------
(***************************************************************************)
(* Pages and digits.                                                       *)
(***************************************************************************)
\* Each level covers ENTRIES times as many pages as the one below it.
LEMMA SpanGrows ==
  /\ \A j \in 0 .. LEVELS : span[j] \in Nat /\ 0 < span[j]
  /\ span[0] = 1
  /\ \A j \in 1 .. LEVELS : span[j] = ENTRIES * span[j - 1]
<1> DEFINE P == Nat \ {0}
           F == [j \in 1 .. LEVELS |-> [x \in P |-> ENTRIES * x]]
<1>1. F \in [1 .. LEVELS -> [P -> P]] /\ 1 \in P /\ LEVELS \in Nat
  BY VMMConstants
<1>2. PICK g : IsRun(g, P, LEVELS, 1, F)
  BY <1>1, LoopRuns
<1>3. g = [j \in 0 .. LEVELS |-> IF j = 0 THEN 1 ELSE ENTRIES * g[j - 1]]
  <2>1. g = [j \in 0 .. LEVELS |-> g[j]]
    BY <1>2 DEF IsRun
  <2>2. ASSUME NEW j \in 0 .. LEVELS
        PROVE  g[j] = IF j = 0 THEN 1 ELSE ENTRIES * g[j - 1]
    <3>1. CASE j = 0
      BY <1>2, <3>1 DEF IsRun
    <3>2. CASE j # 0
      <4>1. j \in 1 .. LEVELS /\ j - 1 \in 0 .. LEVELS
        BY <3>2, VMMConstants
      <4>2. g[j - 1] \in P /\ g[j] = F[j][g[j - 1]]
        BY <1>2, <4>1 DEF IsRun
      <4> QED BY <3>2, <4>1, <4>2
    <3> QED BY <3>1, <3>2
  <2> QED BY <2>1, <2>2
<1>4. span = [j \in 0 .. LEVELS |-> IF j = 0 THEN 1 ELSE ENTRIES * span[j - 1]]
  BY <1>3 DEF span
<1>5. \A j \in 1 .. LEVELS : span[j] = ENTRIES * span[j - 1]
  BY <1>4, VMMConstants
<1>6. span[0] = 1
  BY <1>4, VMMConstants
<1>7. \A j \in 0 .. LEVELS : span[j] \in P
  <2>1. \A j \in 1 .. LEVELS : span[j - 1] \in P => span[j] \in P
    BY <1>5, VMMConstants
  <2> HIDE DEF P
  <2> QED BY <1>1, <1>6, <2>1, LoopKeeps
<1> QED BY <1>5, <1>6, <1>7

LEMMA Division ==
  ASSUME NEW v \in Nat, NEW n \in Nat, 0 < n
  PROVE  \E q \in Nat, r \in Nat : v = n * q + r /\ r < n /\ v \div n = q /\ v % n = r
<1> DEFINE p == v \div n
           s == v % n
<1>1. p \in Nat /\ s \in Nat /\ s < n /\ v = n * p + s
  OBVIOUS
<1>2. v \div n = p /\ v % n = s
  OBVIOUS
<1> HIDE DEF p, s
<1> QED BY <1>1, <1>2

LEMMA Quotient ==
  ASSUME NEW v \in Nat, NEW n \in Nat, 0 < n, NEW q \in Nat, NEW r \in Nat, v = n * q + r, r < n
  PROVE  v \div n = q /\ v % n = r
<1>1. \A x, y \in Nat : x < y => n * x + n <= n * y
  <2> TAKE x, y \in Nat
  <2> HAVE x < y
  <2>1. y = x + 1 + (y - x - 1) /\ y - x - 1 \in Nat
    OBVIOUS
  <2>2. \A z \in Nat : n * z \in Nat /\ n * (x + 1 + z) = n * x + n + n * z
    OBVIOUS
  <2> QED BY <2>1, <2>2
<1>2. PICK p \in Nat, s \in Nat : v = n * p + s /\ s < n /\ v \div n = p /\ v % n = s
  BY Division
<1>3. n * p \in Nat /\ n * q \in Nat
  BY <1>2
<1>4. ~ (p < q) /\ ~ (q < p)
  BY <1>1, <1>2, <1>3
<1>5. p = q
  BY <1>2, <1>4
<1>6. r = s
  BY <1>2, <1>3, <1>5
<1> QED BY <1>2, <1>5, <1>6

\* Dividing twice is dividing by the product.
LEMMA DivideTwice ==
  ASSUME NEW v \in Nat, NEW a \in Nat, 0 < a, NEW b \in Nat, 0 < b
  PROVE  v \div (b * a) = (v \div a) \div b
<1>1. PICK q \in Nat, r \in Nat : v = a * q + r /\ r < a /\ v \div a = q
  BY Division
<1>2. PICK p \in Nat, s \in Nat : q = b * p + s /\ s < b /\ q \div b = p
  BY Division
<1>3. a * s + r \in Nat /\ a * s + r < b * a
  <2>1. a * s \in Nat /\ b * a \in Nat
    OBVIOUS
  <2>2. b = s + 1 + (b - s - 1) /\ b - s - 1 \in Nat
    BY <1>2
  <2>3. \A z \in Nat : (s + 1 + z) * a = a * s + a + a * z /\ a * z \in Nat
    OBVIOUS
  <2>4. a * s + a <= b * a
    BY <2>1, <2>2, <2>3
  <2> QED BY <1>1, <2>1, <2>4
<1>4. v = (b * a) * p + (a * s + r)
  <2>1. a * (b * p + s) = (b * a) * p + a * s
    OBVIOUS
  <2> QED BY <1>1, <1>2, <2>1
<1>5. b * a \in Nat /\ 0 < b * a
  OBVIOUS
<1>6. v \div (b * a) = p
  BY <1>3, <1>4, <1>5, Quotient
<1> QED BY <1>1, <1>2, <1>6

LEMMA DigitType ==
  ASSUME NEW v \in Nat, NEW k \in 1 .. LEVELS
  PROVE  Digit(v, k) \in Index
<1>1. LEVELS - k \in 0 .. LEVELS
  BY VMMConstants
<1>2. span[LEVELS - k] \in Nat /\ 0 < span[LEVELS - k]
  BY <1>1, SpanGrows
<1>3. \A x \in Nat : x % ENTRIES \in 0 .. ENTRIES - 1
  BY VMMConstants
<1>4. \A s \in Nat : 0 < s => v \div s \in Nat
  OBVIOUS
<1> QED BY <1>2, <1>3, <1>4 DEF Digit, Index

\* A page is told from the others by its digits.
LEMMA PageDigits ==
  ASSUME NEW u \in Page, NEW v \in Page, \A k \in 1 .. LEVELS : Digit(u, k) = Digit(v, k)
  PROVE  u = v
<1>1. u \in Nat /\ v \in Nat /\ u < span[LEVELS] /\ v < span[LEVELS]
  BY SpanGrows, VMMConstants DEF Page
<1> DEFINE w == [k \in 0 .. LEVELS |-> <<k, u \div span[LEVELS - k] = v \div span[LEVELS - k]>>]
           S == {<<k, TRUE>> : k \in 0 .. LEVELS}
<1>2. w[0] \in S
  <2>1. \A s \in Nat, x \in Nat : 0 < s /\ x < s => x \div s = 0
    OBVIOUS
  <2>2. span[LEVELS] \in Nat /\ 0 < span[LEVELS]
    BY SpanGrows, VMMConstants
  <2>3. u \div span[LEVELS] = 0 /\ v \div span[LEVELS] = 0
    BY <1>1, <2>1, <2>2
  <2>4. LEVELS - 0 = LEVELS /\ 0 \in 0 .. LEVELS
    BY VMMConstants
  <2>5. u \div span[LEVELS - 0] = v \div span[LEVELS - 0]
    BY <2>3, <2>4
  <2>6. w[0] = <<0, TRUE>>
    BY <2>4, <2>5
  <2> QED BY <2>4, <2>6
<1>3. ASSUME NEW k \in 1 .. LEVELS, w[k - 1] \in S PROVE w[k] \in S
  <2> DEFINE j == LEVELS - k
  <2>1. j \in 0 .. LEVELS /\ j + 1 \in 1 .. LEVELS /\ LEVELS - (k - 1) = j + 1
        /\ k \in 0 .. LEVELS /\ k - 1 \in 0 .. LEVELS /\ j + 1 - 1 = j
    BY VMMConstants
  <2>2. u \div span[j + 1] = v \div span[j + 1]
    BY <1>3, <2>1
  <2>3. span[j] \in Nat /\ 0 < span[j] /\ span[j + 1] = ENTRIES * span[j]
    BY <2>1, SpanGrows
  <2> HIDE DEF j
  <2>4. \A x \in Nat : x \div span[j + 1] = (x \div span[j]) \div ENTRIES
    BY <2>3, DivideTwice, VMMConstants
  <2>5. (u \div span[j]) \div ENTRIES = (v \div span[j]) \div ENTRIES
    BY <1>1, <2>2, <2>4
  <2>6. (u \div span[j]) % ENTRIES = (v \div span[j]) % ENTRIES
    BY DEF Digit, j
  <2>7. \A s \in Nat : 0 < s => u \div s \in Nat /\ v \div s \in Nat
    BY <1>1
  <2>8. PICK p \in Nat, r \in Nat : u \div span[j] = ENTRIES * p + r /\ r < ENTRIES
           /\ (u \div span[j]) \div ENTRIES = p /\ (u \div span[j]) % ENTRIES = r
    BY <2>3, <2>7, Division, VMMConstants
  <2>9. u \div span[j] = v \div span[j]
    <3>1. PICK q \in Nat, s \in Nat : v \div span[j] = ENTRIES * q + s /\ s < ENTRIES
             /\ (v \div span[j]) \div ENTRIES = q /\ (v \div span[j]) % ENTRIES = s
      BY <2>3, <2>7, Division, VMMConstants
    <3>2. p = q /\ r = s
      BY <2>5, <2>6, <2>8, <3>1
    <3>3. ENTRIES * p + r = ENTRIES * q + s
      BY <3>2
    <3>4. u \div span[j] = ENTRIES * p + r
      BY <2>8
    <3>5. v \div span[j] = ENTRIES * q + s
      BY <3>1
    <3> QED BY <3>3, <3>4, <3>5
  <2>10. w[k] = <<k, TRUE>>
    BY <2>1, <2>9 DEF j
  <2> QED BY <2>1, <2>10
<1> HIDE DEF w, S
<1>4. w[LEVELS] \in S
  BY <1>2, <1>3, LoopKeeps, VMMConstants
<1>5. u \div span[0] = v \div span[0]
  <2>1. LEVELS - LEVELS = 0 /\ LEVELS \in 0 .. LEVELS
    BY VMMConstants
  <2>2. <<LEVELS, u \div span[0] = v \div span[0]>> \in S
    BY <1>4, <2>1 DEF w
  <2> QED BY <2>2 DEF S
<1>6. u \div 1 = u /\ v \div 1 = v
  BY <1>1
<1> QED BY <1>5, <1>6, SpanGrows

-------------------------------------------------------------------------------
(***************************************************************************)
(* What the tables of a memory m look like when the contexts are C and the *)
(* frames of X have been taken for pages.  D[f] is how many steps below a  *)
(* top table f is, NULL when it is no table.                               *)
(***************************************************************************)
GoodEntry == {NoEntry} \cup [frame : Frame, flags : {"kernel", "user"}]
Panics == {"no", "double free", "invalid free", "unmapped table", "page fault"}
Memories == [free : SUBSET Frame, tab : [Frame -> [Index -> GoodEntry]], panic : Panics]
Depths == [Frame -> {NULL} \cup 0 .. Last]

\* The entries copied from the kernel's top table.
Copy(C, f, i) == f \in C /\ f # KERNEL /\ i \in Upper

\* The entry <<f, i>> owns the frame x; x is a page that is mapped.
Owns(D, m, C, f, i, x) == D[f] # NULL /\ m.tab[f][i].frame = x /\ ~Copy(C, f, i)
IsLeaf(D, m, x) == \E f \in Frame, i \in Index : D[f] = Last /\ m.tab[f][i].frame = x

\* Below a table is a table one step deeper, and above each one not a top one.
Levelled(D, m) ==
  /\ \A f \in Frame, i \in Index :
       D[f] \in 0 .. Last - 1 /\ m.tab[f][i] # NoEntry => D[m.tab[f][i].frame] = D[f] + 1
  /\ \A g \in Frame : D[g] \in 1 .. Last =>
       \E f \in Frame, i \in Index : D[f] = D[g] - 1 /\ m.tab[f][i].frame = g

\* The kernel's half of a context is a copy, or not filled yet.
Copied(m, C) == \A c \in C, i \in Upper : m.tab[c][i] \in {NoEntry, m.tab[KERNEL][i]}

\* No frame has two owners, and each is free, a top table, taken or owned.
OneOwner(D, m, C) ==
  \A f, g \in Frame, i, j \in Index, x \in Frame :
    Owns(D, m, C, f, i, x) /\ Owns(D, m, C, g, j, x) => f = g /\ i = j
Placed(D, m, C, X) ==
  /\ \A f \in Frame : D[f] = 0 <=> f \in C
  /\ \A f \in Frame, i \in Index, x \in Frame :
       Owns(D, m, C, f, i, x) => x \notin C /\ x \notin m.free
  /\ \A x \in X : D[x] = NULL /\ x \notin m.free
  /\ \A x \in C : x \notin m.free
  /\ \A x \in Frame : \/ x \in m.free \cup C \cup X
                      \/ \E f \in Frame, i \in Index : Owns(D, m, C, f, i, x)

Sound(D, m, C, X) ==
  /\ m \in Memories /\ m.panic # "double free" /\ D \in Depths
  /\ C \subseteq Frame /\ KERNEL \in C /\ X \subseteq Frame
  /\ Levelled(D, m) /\ Copied(m, C) /\ OneOwner(D, m, C) /\ Placed(D, m, C, X)

\* A context has its own tables below its lower entries, the kernel below all;
\* the home of page v of c is the context whose tables hold it.
Own(c, v) == c = KERNEL \/ Digit(v, 1) \notin Upper
Home(c, v) == IF Digit(v, 1) \in Upper THEN KERNEL ELSE c

\* A walk from c to v stays in tables of its home.
Reach(m, c, v) == Own(c, v) \/ m.tab[c][Digit(v, 1)] # NoEntry

LEMMA EntryType ==
  ASSUME NEW m \in Memories, NEW f \in Frame, NEW i \in Index
  PROVE  /\ m.tab[f][i] \in GoodEntry
         /\ m.tab[f][i].frame \in {0} \cup Frame
         /\ m.tab[f][i].frame = 0 <=> m.tab[f][i] = NoEntry
<1>1. m.tab[f][i] \in GoodEntry
  BY DEF Memories
<1>2. 0 \notin Frame /\ NoEntry.frame = 0
  BY DEF Frame, NoEntry
<1>3. CASE m.tab[f][i] = NoEntry
  BY <1>1, <1>2, <1>3
<1>4. CASE m.tab[f][i] \in [frame : Frame, flags : {"kernel", "user"}]
  <2>1. m.tab[f][i].frame \in Frame
    BY <1>4
  <2> QED BY <1>1, <1>2, <2>1
<1> QED BY <1>1, <1>3, <1>4 DEF GoodEntry

LEMMA PteType ==
  ASSUME NEW f \in Frame, NEW flags \in {"kernel", "user"}
  PROVE  /\ Pte(f, flags) \in GoodEntry /\ Pte(f, flags).frame = f
         /\ Pte(f, flags) # NoEntry /\ NoEntry \in GoodEntry /\ NoEntry.frame = 0 /\ 0 \notin Frame
BY DEF Pte, GoodEntry, NoEntry, Frame

\* The tables of a walk, step by step.
LEMMA WalkSteps ==
  ASSUME NEW m \in Memories, NEW c \in Frame, NEW v \in Nat
  PROVE  /\ \A k \in 0 .. Last : Walk(m, c, v)[k] \in {0} \cup Frame
         /\ Walk(m, c, v)[0] = c
         /\ \A k \in 1 .. Last :
              Walk(m, c, v)[k] = Below(m, Walk(m, c, v)[k - 1], Digit(v, k))
<1> DEFINE S == {0} \cup Frame
           F == [k \in 1 .. Last |-> [t \in S |-> Below(m, t, Digit(v, k))]]
           W == Walk(m, c, v)
<1>1. Last \in Nat /\ c \in S
  BY VMMConstants
<1>2. \A k \in 1 .. Last : Digit(v, k) \in Index
  BY DigitType, VMMConstants
<1>3. \A k \in 1 .. Last, t \in S : Below(m, t, Digit(v, k)) \in S
  BY <1>2, EntryType DEF Below
<1>4. F \in [1 .. Last -> [S -> S]]
  BY <1>3
<1> HIDE DEF S
<1>5. PICK g : IsRun(g, S, Last, c, F)
  BY <1>1, <1>4, LoopRuns
<1>6. \A k \in 1 .. Last : g[k] = Below(m, g[k - 1], Digit(v, k))
  <2> TAKE k \in 1 .. Last
  <2>1. k - 1 \in 0 .. Last
    BY <1>1
  <2>2. g[k - 1] \in S /\ g[k] = F[k][g[k - 1]]
    BY <1>5, <2>1 DEF IsRun
  <2> QED BY <2>2
<1>7. g = [k \in 0 .. Last |-> IF k = 0 THEN c ELSE Below(m, g[k - 1], Digit(v, k))]
  <2>1. g = [k \in 0 .. Last |-> g[k]]
    BY <1>5 DEF IsRun
  <2>2. ASSUME NEW k \in 0 .. Last
        PROVE  g[k] = IF k = 0 THEN c ELSE Below(m, g[k - 1], Digit(v, k))
    <3>1. CASE k = 0
      BY <1>5, <3>1 DEF IsRun
    <3>2. CASE k # 0
      <4>1. k \in 1 .. Last
        BY <3>2, <1>1
      <4> QED BY <1>6, <3>2, <4>1
    <3> QED BY <3>1, <3>2
  <2> QED BY <2>1, <2>2
<1>8. W = [k \in 0 .. Last |-> IF k = 0 THEN c ELSE Below(m, W[k - 1], Digit(v, k))]
  BY <1>7 DEF Walk
<1>9. W[0] = c /\ \A k \in 1 .. Last : W[k] = Below(m, W[k - 1], Digit(v, k))
  BY <1>1, <1>8
<1>10. \A k \in 0 .. Last : W[k] \in S
  <2>1. \A k \in 1 .. Last : W[k - 1] \in S => W[k] \in S
    BY <1>3, <1>9
  <2> HIDE DEF W
  <2> QED BY <1>1, <1>9, <2>1, LoopKeeps
<1> QED BY <1>9, <1>10 DEF S

LEMMA SoundParts ==
  ASSUME NEW D, NEW m, NEW C, NEW X, Sound(D, m, C, X)
  PROVE  /\ m \in Memories /\ m.panic # "double free" /\ D \in Depths
         /\ C \subseteq Frame /\ KERNEL \in C /\ X \subseteq Frame /\ KERNEL \in Frame
         /\ Levelled(D, m) /\ Copied(m, C) /\ OneOwner(D, m, C) /\ Placed(D, m, C, X)
         /\ \A f \in Frame : D[f] \in {NULL} \cup 0 .. Last
         /\ \A f \in Frame : D[f] = 0 <=> f \in C
         /\ m.free \subseteq Frame
<1>1. /\ m \in Memories /\ m.panic # "double free" /\ D \in Depths
      /\ C \subseteq Frame /\ KERNEL \in C /\ X \subseteq Frame /\ KERNEL \in Frame
      /\ Levelled(D, m) /\ Copied(m, C) /\ OneOwner(D, m, C) /\ Placed(D, m, C, X)
  BY VMMConstants DEF Sound
<1>2. \A f \in Frame : D[f] \in {NULL} \cup 0 .. Last
  BY <1>1 DEF Depths
<1>3. \A f \in Frame : D[f] = 0 <=> f \in C
  BY <1>1 DEF Placed
<1>4. m.free \subseteq Frame
  BY <1>1 DEF Memories
<1> QED BY <1>1, <1>2, <1>3, <1>4

LEMMA SoundLevels ==
  ASSUME NEW D, NEW m, NEW C, NEW X, Sound(D, m, C, X)
  PROVE  /\ \A f \in Frame, i \in Index :
              D[f] \in 0 .. Last - 1 /\ m.tab[f][i] # NoEntry => D[m.tab[f][i].frame] = D[f] + 1
         /\ \A g \in Frame : D[g] \in 1 .. Last =>
              \E f \in Frame, i \in Index : D[f] = D[g] - 1 /\ m.tab[f][i].frame = g
         /\ \A c \in C, i \in Upper : m.tab[c][i] \in {NoEntry, m.tab[KERNEL][i]}
<1>1. Levelled(D, m) /\ Copied(m, C)
  BY SoundParts
<1> QED BY <1>1 DEF Levelled, Copied

LEMMA SoundPlaces ==
  ASSUME NEW D, NEW m, NEW C, NEW X, Sound(D, m, C, X)
  PROVE  /\ \A f \in Frame : D[f] = 0 <=> f \in C
         /\ \A f \in Frame, i \in Index, x \in Frame :
              Owns(D, m, C, f, i, x) => x \notin C /\ x \notin m.free
         /\ \A x \in X : x \in Frame /\ D[x] = NULL /\ x \notin m.free
         /\ \A x \in C : x \in Frame /\ x \notin m.free
         /\ \A x \in Frame : x \notin m.free \cup C \cup X =>
              \E f \in Frame, i \in Index : Owns(D, m, C, f, i, x)
         /\ \A f, g \in Frame, i, j \in Index, x \in Frame :
              Owns(D, m, C, f, i, x) /\ Owns(D, m, C, g, j, x) => f = g /\ i = j
<1>1. Placed(D, m, C, X) /\ OneOwner(D, m, C) /\ C \subseteq Frame /\ X \subseteq Frame
  BY SoundParts
<1>2. \A f \in Frame : D[f] = 0 <=> f \in C
  BY <1>1 DEF Placed
<1>3. \A f \in Frame, i \in Index, x \in Frame :
              Owns(D, m, C, f, i, x) => x \notin C /\ x \notin m.free
  BY <1>1 DEF Placed
<1>4. /\ \A x \in X : x \in Frame /\ D[x] = NULL /\ x \notin m.free
      /\ \A x \in C : x \in Frame /\ x \notin m.free
  BY <1>1 DEF Placed
<1>5. \A x \in Frame : x \notin m.free \cup C \cup X =>
              \E f \in Frame, i \in Index : Owns(D, m, C, f, i, x)
  BY <1>1 DEF Placed
<1> QED BY <1>1, <1>2, <1>3, <1>4, <1>5 DEF OneOwner

\* A free frame is no table.
LEMMA FreeDepth ==
  ASSUME NEW D, NEW m, NEW C, NEW X, Sound(D, m, C, X), NEW x \in m.free
  PROVE  x \in Frame /\ D[x] = NULL /\ x \notin C /\ x \notin X
<1>1. x \in Frame
  BY SoundParts
<1>2. x \notin C /\ x \notin X
  BY SoundPlaces
<1>3. ASSUME D[x] # NULL PROVE FALSE
  <2>1. D[x] \in 1 .. Last
    <3>1. \A f \in Frame : D[f] \in {NULL} \cup 0 .. Last
      BY SoundParts
    <3>2. \A f \in Frame : D[f] = 0 <=> f \in C
      BY SoundParts
    <3> QED BY <1>1, <1>2, <1>3, <3>1, <3>2, VMMConstants
  <2>2. PICK f \in Frame, i \in Index : D[f] = D[x] - 1 /\ m.tab[f][i].frame = x
    BY <1>1, <2>1, SoundLevels
  <2>3. D[f] # NULL
    BY <2>1, <2>2, VMMConstants DEF NULL
  <2>4. D[KERNEL] # NULL /\ KERNEL \in Frame
    <3>1. KERNEL \in Frame /\ KERNEL \in C
      BY SoundParts
    <3>2. D[KERNEL] = 0
      BY <3>1, SoundPlaces
    <3> QED BY <3>1, <3>2 DEF NULL
  <2>5. \A g \in Frame, j \in Index : ~ Owns(D, m, C, g, j, x)
    BY <1>1, SoundPlaces
  <2>6. CASE Copy(C, f, i)
    <3>1. m.tab[f][i] # NoEntry
      BY <1>1, <2>2, PteType DEF NoEntry, Frame
    <3>2. f \in C /\ i \in Upper /\ ~ Copy(C, KERNEL, i)
      BY <2>6 DEF Copy
    <3>3. m.tab[f][i] = m.tab[KERNEL][i]
      BY <3>1, <3>2, SoundLevels
    <3>4. Owns(D, m, C, KERNEL, i, x)
      BY <2>2, <2>4, <3>2, <3>3 DEF Owns
    <3> QED BY <2>4, <2>5, <3>4
  <2>7. CASE ~ Copy(C, f, i)
    <3>1. Owns(D, m, C, f, i, x)
      BY <2>2, <2>3, <2>7 DEF Owns
    <3> QED BY <2>5, <3>1
  <2> QED BY <2>6, <2>7
<1> QED BY <1>1, <1>2, <1>3

\* The table of step k of a walk from a context is k steps deep.
LEMMA WalkDepth ==
  ASSUME NEW D, NEW m, NEW C, NEW X, Sound(D, m, C, X), NEW c \in C, NEW v \in Nat
  PROVE  \A k \in 0 .. Last : Walk(m, c, v)[k] # 0 => Walk(m, c, v)[k] \in Frame /\ D[Walk(m, c, v)[k]] = k
<1> DEFINE W == Walk(m, c, v)
           S == {k \in 0 .. Last : W[k] # 0 => W[k] \in Frame /\ D[W[k]] = k}
<1>0. Last \in Nat
  BY VMMConstants
<1>1. m \in Memories /\ c \in Frame /\ D[c] = 0 /\ Levelled(D, m) /\ Last \in Nat
  <2>1. m \in Memories /\ c \in Frame /\ Levelled(D, m)
    BY SoundParts
  <2>2. \A f \in Frame : D[f] = 0 <=> f \in C
    BY SoundParts
  <2> QED BY <1>0, <2>1, <2>2
<1>2. /\ \A k \in 0 .. Last : W[k] \in {0} \cup Frame
      /\ W[0] = c
      /\ \A k \in 1 .. Last : W[k] = Below(m, W[k - 1], Digit(v, k))
  BY <1>1, WalkSteps
<1> HIDE DEF W
<1>3. 0 \in S
  BY <1>1, <1>2
<1>4. ASSUME NEW k \in 1 .. Last, k - 1 \in S PROVE k \in S
  <2>1. SUFFICES ASSUME W[k] # 0 PROVE W[k] \in Frame /\ D[W[k]] = k
    BY <1>1
  <2>2. k \in 0 .. Last /\ k - 1 \in 0 .. Last - 1 /\ k - 1 + 1 = k /\ k \in 1 .. LEVELS
    BY VMMConstants
  <2>3. W[k - 1] # 0 /\ W[k - 1] \in Frame /\ D[W[k - 1]] = k - 1
    BY <1>2, <1>4, <2>1 DEF Below
  <2> DEFINE t == W[k - 1]
             i == Digit(v, k)
  <2>4. W[k] = m.tab[t][i].frame /\ i \in Index
    BY <1>2, <2>2, <2>3, DigitType DEF Below
  <2> HIDE DEF t, i
  <2>5. m.tab[t][i] # NoEntry /\ t \in Frame /\ D[t] = k - 1
    BY <2>1, <2>3, <2>4 DEF NoEntry, t
  <2>6. D[m.tab[t][i].frame] = D[t] + 1
    BY <1>1, <2>2, <2>4, <2>5 DEF Levelled
  <2>7. W[k] \in Frame
    BY <1>2, <2>1, <2>2
  <2> QED BY <2>2, <2>4, <2>5, <2>6, <2>7
<1> HIDE DEF S
<1>5. \A k \in 0 .. Last : k \in S
  BY <1>1, <1>3, <1>4, CountUp
<1> QED BY <1>5 DEF S, W

LEMMA TableDepth ==
  ASSUME NEW D, NEW m, NEW C, NEW X, Sound(D, m, C, X), NEW c \in C, NEW v \in Nat
  PROVE  /\ TableOf(m, c, v) \in {0} \cup Frame /\ 0 \notin Frame /\ Digit(v, LEVELS) \in Index
         /\ TableOf(m, c, v) # 0 => D[TableOf(m, c, v)] = Last /\ TableOf(m, c, v) \notin C
         /\ GetPte(m, c, v) \in GoodEntry
         /\ GetPte(m, c, v).frame \in {0} \cup Frame
         /\ GetPte(m, c, v).frame = 0 <=> GetPte(m, c, v) = NoEntry
<1>1. m \in Memories /\ c \in Frame /\ Last \in 0 .. Last /\ Last # 0 /\ \A f \in Frame : D[f] = 0 <=> f \in C
  <2>1. m \in Memories /\ c \in Frame
    BY SoundParts
  <2>2. \A f \in Frame : D[f] = 0 <=> f \in C
    BY SoundParts
  <2>3. Last \in 0 .. Last /\ Last # 0
    BY VMMConstants
  <2> QED BY <2>1, <2>2, <2>3
<1>2. TableOf(m, c, v) \in {0} \cup Frame
  BY <1>1, WalkSteps DEF TableOf
<1>3. TableOf(m, c, v) # 0 => D[TableOf(m, c, v)] = Last
  BY <1>1, WalkDepth DEF TableOf
<1>4. Digit(v, LEVELS) \in Index /\ 0 \notin Frame
  BY DigitType, VMMConstants DEF Frame
<1>5. CASE TableOf(m, c, v) = 0
  <2>1. GetPte(m, c, v) = NoEntry
    BY <1>5 DEF GetPte, PteIn
  <2> QED BY <1>2, <1>4, <1>5, <2>1, PteType DEF NoEntry, GoodEntry
<1>6. CASE TableOf(m, c, v) # 0
  <2>1. GetPte(m, c, v) = m.tab[TableOf(m, c, v)][Digit(v, LEVELS)] /\ TableOf(m, c, v) \in Frame
    BY <1>2, <1>6 DEF GetPte, PteIn
  <2> QED BY <1>1, <1>2, <1>3, <1>4, <1>6, <2>1, EntryType
<1> QED BY <1>5, <1>6

\* Two entries that point to one frame are one, or one is a copy.
LEMMA SameTarget ==
  ASSUME NEW D, NEW m, NEW C, NEW X, Sound(D, m, C, X),
         NEW f \in Frame, NEW g \in Frame, NEW i \in Index, NEW j \in Index,
         D[f] # NULL, D[g] # NULL, m.tab[f][i] # NoEntry, m.tab[f][i].frame = m.tab[g][j].frame
  PROVE  i = j /\ (f = g \/ (f \in C /\ g \in C /\ i \in Upper))
<1> DEFINE x == m.tab[f][i].frame
           Root(h, l) == IF Copy(C, h, l) THEN KERNEL ELSE h
<1>1. m \in Memories /\ x \in Frame /\ KERNEL \in C /\ KERNEL \in Frame /\ D[KERNEL] = 0
      /\ Copied(m, C) /\ OneOwner(D, m, C)
  <2>1. x \in Frame
    BY SoundParts, EntryType
  <2> QED BY <2>1, SoundParts
<1>2. ASSUME NEW h \in Frame, NEW l \in Index, D[h] # NULL, m.tab[h][l].frame = x
      PROVE  Root(h, l) \in Frame /\ Owns(D, m, C, Root(h, l), l, x)
  <2>1. CASE Copy(C, h, l)
    <3>1. m.tab[h][l] # NoEntry
      BY <1>1, <1>2, EntryType DEF NoEntry, Frame
    <3>2. h \in C /\ l \in Upper
      BY <2>1 DEF Copy
    <3>3. m.tab[h][l] = m.tab[KERNEL][l]
      BY <1>1, <3>1, <3>2 DEF Copied
    <3>4. m.tab[KERNEL][l].frame = x /\ ~ Copy(C, KERNEL, l) /\ D[KERNEL] # NULL
      BY <1>1, <1>2, <3>3 DEF Copy, NULL
    <3>5. Owns(D, m, C, KERNEL, l, x)
      BY <3>4 DEF Owns
    <3> QED BY <1>1, <2>1, <3>5
  <2>2. CASE ~ Copy(C, h, l)
    BY <1>2, <2>2 DEF Owns
  <2> QED BY <2>1, <2>2
<1> HIDE DEF x
<1>3. Root(f, i) \in Frame /\ Owns(D, m, C, Root(f, i), i, x)
  BY <1>2 DEF x
<1>4. Root(g, j) \in Frame /\ Owns(D, m, C, Root(g, j), j, x)
  BY <1>2 DEF x
<1>5. Root(f, i) = Root(g, j) /\ i = j
  BY <1>1, <1>3, <1>4 DEF OneOwner
<1> QED BY <1>1, <1>5 DEF Copy

\* Walks that meet at a table came the same way.
LEMMA WalksMeet ==
  ASSUME NEW D, NEW m, NEW C, NEW X, Sound(D, m, C, X),
         NEW c \in C, NEW d \in C, NEW u \in Nat, NEW v \in Nat, NEW k \in 1 .. Last,
         Walk(m, c, u)[k] # 0, Walk(m, c, u)[k] = Walk(m, d, v)[k]
  PROVE  /\ Digit(u, k) = Digit(v, k)
         /\ k # 1 => Walk(m, c, u)[k - 1] # 0 /\ Walk(m, c, u)[k - 1] = Walk(m, d, v)[k - 1]
         /\ k = 1 => c = d \/ Digit(u, 1) \in Upper
<1> DEFINE f == Walk(m, c, u)[k - 1]
           g == Walk(m, d, v)[k - 1]
           i == Digit(u, k)
           j == Digit(v, k)
<1>1. m \in Memories /\ c \in Frame /\ d \in Frame
  BY SoundParts
<1>2. k \in 0 .. Last /\ k - 1 \in 0 .. Last /\ k \in 1 .. LEVELS /\ (k # 1 => k - 1 # 0) /\ (k = 1 => k - 1 = 0)
  BY VMMConstants
<1>3. Walk(m, c, u)[k] = Below(m, f, i) /\ Walk(m, d, v)[k] = Below(m, g, j)
  BY <1>1, WalkSteps
<1>4. i \in Index /\ j \in Index
  BY <1>2, DigitType
<1>5. f # 0 /\ g # 0
  BY <1>3 DEF Below
<1>6. f \in Frame /\ D[f] = k - 1 /\ g \in Frame /\ D[g] = k - 1
  BY <1>2, <1>5, WalkDepth
<1>7. m.tab[f][i].frame = m.tab[g][j].frame /\ m.tab[f][i].frame # 0
  BY <1>3, <1>5 DEF Below
<1>8. m.tab[f][i] # NoEntry
  BY <1>7, PteType DEF NoEntry
<1>9. D[f] # NULL /\ D[g] # NULL
  BY <1>2, <1>6 DEF NULL
<1> HIDE DEF f, g, i, j
<1>10. i = j /\ (f = g \/ (f \in C /\ g \in C /\ i \in Upper))
  BY <1>4, <1>6, <1>7, <1>8, <1>9, SameTarget
<1>11. ASSUME k # 1 PROVE f # 0 /\ f = g
  <2>1. f \notin C
    <3>1. D[f] # 0
      BY <1>2, <1>6, <1>11
    <3>2. \A h \in Frame : D[h] = 0 <=> h \in C
      BY SoundParts
    <3> QED BY <1>6, <3>1, <3>2
  <2> QED BY <1>5, <1>10, <2>1
<1>12. ASSUME k = 1 PROVE c = d \/ Digit(u, 1) \in Upper
  <2>1. f = c /\ g = d
    BY <1>1, <1>2, <1>12, WalkSteps DEF f, g
  <2> QED BY <1>10, <1>12, <2>1 DEF i
<1> QED BY <1>10, <1>11, <1>12 DEF f, g, i, j

\* Two pages have one entry only if they are one page, of one context or of the
\* kernel's half.
LEMMA OneEntry ==
  ASSUME NEW D, NEW m, NEW C, NEW X, Sound(D, m, C, X),
         NEW c \in C, NEW d \in C, NEW u \in Page, NEW v \in Page,
         TableOf(m, c, u) # 0, TableOf(m, c, u) = TableOf(m, d, v), Digit(u, LEVELS) = Digit(v, LEVELS)
  PROVE  u = v /\ (c = d \/ Digit(u, 1) \in Upper)
<1> DEFINE S == {k \in 0 .. Last : k # 0 => /\ Walk(m, c, u)[k] # 0
                                            /\ Walk(m, c, u)[k] = Walk(m, d, v)[k]}
<1>1. u \in Nat /\ v \in Nat /\ Last \in Nat /\ Last # 0
  BY VMMConstants, SpanGrows DEF Page
<1>2. Last \in S
  BY <1>1 DEF TableOf
<1>3. ASSUME NEW k \in 1 .. Last, k \in S PROVE k - 1 \in S
  <2>1. k - 1 \in 0 .. Last /\ (k - 1 # 0 => k # 1) /\ k # 0
    BY <1>1
  <2>2. k # 1 => Walk(m, c, u)[k - 1] # 0 /\ Walk(m, c, u)[k - 1] = Walk(m, d, v)[k - 1]
    BY <1>1, <1>3, <2>1, WalksMeet
  <2> QED BY <2>1, <2>2
<1> HIDE DEF S
<1>4. \A k \in 0 .. Last : k \in S
  BY <1>1, <1>2, <1>3, CountDown
<1>5. ASSUME NEW k \in 1 .. Last PROVE Digit(u, k) = Digit(v, k) /\ (k = 1 => c = d \/ Digit(u, 1) \in Upper)
  <2>1. k \in 0 .. Last /\ k # 0
    BY <1>1
  <2>2. Walk(m, c, u)[k] # 0 /\ Walk(m, c, u)[k] = Walk(m, d, v)[k]
    BY <1>4, <2>1 DEF S
  <2> QED BY <1>1, <2>2, WalksMeet
<1>6. \A k \in 1 .. LEVELS : Digit(u, k) = Digit(v, k)
  <2> TAKE k \in 1 .. LEVELS
  <2>1. k \in 1 .. Last \/ k = LEVELS
    BY VMMConstants
  <2> QED BY <1>5, <2>1
<1>7. 1 \in 1 .. Last
  BY VMMConstants
<1> QED BY <1>5, <1>6, <1>7, PageDigits

LEMMA PteInjective ==
  ASSUME NEW D, NEW m, NEW C, NEW X, Sound(D, m, C, X),
         NEW c \in C, NEW d \in C, NEW u \in Page, NEW v \in Page,
         GetPte(m, c, u) # NoEntry, GetPte(m, c, u).frame = GetPte(m, d, v).frame
  PROVE  u = v /\ (c = d \/ Digit(u, 1) \in Upper)
<1> DEFINE f == TableOf(m, c, u)
           g == TableOf(m, d, v)
           i == Digit(u, LEVELS)
           j == Digit(v, LEVELS)
<1>1. u \in Nat /\ v \in Nat
  BY VMMConstants, SpanGrows DEF Page
<1>2. GetPte(m, c, u).frame # 0
  BY <1>1, TableDepth
<1>3. f # 0 /\ g # 0 /\ GetPte(m, c, u) = m.tab[f][i] /\ GetPte(m, d, v) = m.tab[g][j]
  BY <1>2 DEF GetPte, PteIn, NoEntry
<1>4. f \in Frame /\ D[f] = Last /\ f \notin C /\ i \in Index
  BY <1>1, <1>3, TableDepth
<1>5. g \in Frame /\ D[g] = Last /\ g \notin C /\ j \in Index
  BY <1>1, <1>3, TableDepth
<1>6. D[f] # NULL /\ D[g] # NULL
  BY <1>4, <1>5, VMMConstants DEF NULL
<1>7. m.tab[f][i] # NoEntry /\ m.tab[f][i].frame = m.tab[g][j].frame
  BY <1>3
<1> HIDE DEF f, g, i, j
<1>8. i = j /\ (f = g \/ (f \in C /\ g \in C /\ i \in Upper))
  BY <1>4, <1>5, <1>6, <1>7, SameTarget
<1>9. f = g
  BY <1>4, <1>8
<1> QED BY <1>3, <1>8, <1>9, OneEntry DEF f, g, i, j

\* Contexts with one entry on top walk alike below it.
LEMMA SharedWalk ==
  ASSUME NEW m \in Memories, NEW c \in Frame, NEW d \in Frame, NEW v \in Nat,
         m.tab[c][Digit(v, 1)] = m.tab[d][Digit(v, 1)]
  PROVE  TableOf(m, c, v) = TableOf(m, d, v) /\ GetPte(m, c, v) = GetPte(m, d, v)
<1> DEFINE W == Walk(m, c, v)
           V == Walk(m, d, v)
           S == {k \in 0 .. Last : k # 0 => W[k] = V[k]}
<1>1. Last \in Nat /\ Last # 0
  BY VMMConstants
<1>2. /\ W[0] = c /\ V[0] = d
      /\ \A k \in 1 .. Last : W[k] = Below(m, W[k - 1], Digit(v, k))
      /\ \A k \in 1 .. Last : V[k] = Below(m, V[k - 1], Digit(v, k))
  BY WalkSteps
<1> HIDE DEF W, V
<1>3. 0 \in S
  BY <1>1
<1>4. ASSUME NEW k \in 1 .. Last, k - 1 \in S PROVE k \in S
  <2>1. k \in 0 .. Last
    BY <1>1
  <2>2. CASE k = 1
    <3>1. c # 0 /\ d # 0
      BY DEF Frame
    <3>2. k - 1 = 0
      BY <2>2
    <3>3. W[k] = Below(m, c, Digit(v, 1)) /\ V[k] = Below(m, d, Digit(v, 1))
      BY <1>2, <2>2, <3>2
    <3> QED BY <2>1, <3>1, <3>3 DEF Below
  <2>3. CASE k # 1
    <3>1. k - 1 # 0
      BY <2>3
    <3>2. W[k - 1] = V[k - 1]
      BY <1>4, <3>1
    <3> QED BY <1>2, <2>1, <3>2
  <2> QED BY <2>2, <2>3
<1> HIDE DEF S
<1>5. \A k \in 0 .. Last : k \in S
  BY <1>1, <1>3, <1>4, CountUp
<1>6. W[Last] = V[Last]
  BY <1>1, <1>5 DEF S
<1> QED BY <1>6 DEF W, V, TableOf, GetPte

\* A page that can be reached is where its home has it.
LEMMA AtHome ==
  ASSUME NEW D, NEW m, NEW C, NEW X, Sound(D, m, C, X),
         NEW c \in C, NEW v \in Nat, Reach(m, c, v)
  PROVE  /\ Home(c, v) \in C /\ Own(Home(c, v), v)
         /\ TableOf(m, c, v) = TableOf(m, Home(c, v), v) /\ GetPte(m, c, v) = GetPte(m, Home(c, v), v)
<1>1. m \in Memories /\ c \in Frame /\ KERNEL \in Frame /\ KERNEL \in C /\ Copied(m, C)
  BY SoundParts
<1>2. Home(c, v) \in C /\ Own(Home(c, v), v)
  BY <1>1 DEF Home, Own
<1>3. CASE Home(c, v) = c
  BY <1>2, <1>3
<1>4. CASE Home(c, v) # c
  <2>1. Digit(v, 1) \in Upper /\ Home(c, v) = KERNEL /\ m.tab[c][Digit(v, 1)] # NoEntry
    BY <1>4 DEF Home, Reach, Own
  <2>2. m.tab[c][Digit(v, 1)] = m.tab[KERNEL][Digit(v, 1)]
    BY <1>1, <2>1 DEF Copied
  <2> QED BY <1>1, <1>2, <2>1, <2>2, SharedWalk
<1> QED BY <1>3, <1>4

-------------------------------------------------------------------------------
(***************************************************************************)
(* One entry of a last table changes.                                      *)
(***************************************************************************)
Put(m, m2, t, i, e) ==
  /\ m2 \in Memories /\ m2.free = m.free /\ m2.panic = m.panic
  /\ \A f \in Frame, j \in Index : m2.tab[f][j] = IF f = t /\ j = i THEN e ELSE m.tab[f][j]

LEMMA PutIs ==
  ASSUME NEW m \in Memories, NEW t \in Frame, NEW i \in Index, NEW e \in GoodEntry
  PROVE  Put(m, [m EXCEPT !.tab[t][i] = e], t, i, e)
<1> DEFINE b == [m.tab EXCEPT ![t][i] = e]
           m2 == [m EXCEPT !.tab[t][i] = e]
<1>1. /\ m.tab \in [Frame -> [Index -> GoodEntry]] /\ m.free \in SUBSET Frame /\ m.panic \in Panics
      /\ m = [free |-> m.free, tab |-> m.tab, panic |-> m.panic]
  BY DEF Memories
<1>2. b \in [Frame -> [Index -> GoodEntry]]
  BY <1>1
<1>3. \A f \in Frame, j \in Index : b[f][j] = IF f = t /\ j = i THEN e ELSE m.tab[f][j]
  BY <1>1
<1>4. m2 = [m EXCEPT !.tab = b]
  OBVIOUS
<1> HIDE DEF b
<1>5. m2 \in Memories /\ m2.free = m.free /\ m2.panic = m.panic /\ m2.tab = b
  BY <1>2, <1>4 DEF Memories
<1> QED BY <1>3, <1>5 DEF Put

\* A walk is as long as the entries it uses point where they did.
LEMMA WalkKeeps ==
  ASSUME NEW m \in Memories, NEW m2 \in Memories, NEW c \in Frame, NEW v \in Nat,
         \A k \in 1 .. Last : Walk(m, c, v)[k - 1] # 0 =>
           Below(m2, Walk(m, c, v)[k - 1], Digit(v, k)) = Below(m, Walk(m, c, v)[k - 1], Digit(v, k))
  PROVE  TableOf(m2, c, v) = TableOf(m, c, v)
<1> DEFINE W == Walk(m, c, v)
           V == Walk(m2, c, v)
           S == {k \in 0 .. Last : V[k] = W[k]}
<1>1. Last \in Nat
  BY VMMConstants
<1>2. /\ W[0] = c /\ V[0] = c
      /\ \A k \in 1 .. Last : W[k] = Below(m, W[k - 1], Digit(v, k))
      /\ \A k \in 1 .. Last : V[k] = Below(m2, V[k - 1], Digit(v, k))
  BY WalkSteps
<1>3. \A k \in 1 .. Last : W[k - 1] # 0 => Below(m2, W[k - 1], Digit(v, k)) = Below(m, W[k - 1], Digit(v, k))
  OBVIOUS
<1> HIDE DEF W, V
<1>4. 0 \in S
  BY <1>1, <1>2
<1>5. ASSUME NEW k \in 1 .. Last, k - 1 \in S PROVE k \in S
  <2>1. k \in 0 .. Last /\ V[k - 1] = W[k - 1]
    BY <1>1, <1>5
  <2>2. CASE W[k - 1] = 0
    <3>1. Below(m, W[k - 1], Digit(v, k)) = 0 /\ Below(m2, W[k - 1], Digit(v, k)) = 0
      BY <2>2 DEF Below
    <3> QED BY <1>2, <2>1, <3>1
  <2>3. CASE W[k - 1] # 0
    BY <1>2, <1>3, <2>1, <2>3
  <2> QED BY <2>2, <2>3
<1> HIDE DEF S
<1>6. \A k \in 0 .. Last : k \in S
  BY <1>1, <1>4, <1>5, CountUp
<1>7. V[Last] = W[Last]
  BY <1>1, <1>6 DEF S
<1> QED BY <1>7 DEF V, W, TableOf

\* The walks of the contexts use no entry of a last table.
LEMMA PutWalks ==
  ASSUME NEW D, NEW m, NEW C, NEW X, Sound(D, m, C, X),
         NEW t \in Frame, D[t] = Last, NEW i \in Index, NEW e \in GoodEntry,
         NEW m2, Put(m, m2, t, i, e), NEW c \in C, NEW v \in Nat
  PROVE  TableOf(m2, c, v) = TableOf(m, c, v)
<1>1. m \in Memories /\ m2 \in Memories /\ c \in Frame
  BY SoundParts DEF Put
<1>2. ASSUME NEW k \in 1 .. Last, Walk(m, c, v)[k - 1] # 0
      PROVE  Below(m2, Walk(m, c, v)[k - 1], Digit(v, k)) = Below(m, Walk(m, c, v)[k - 1], Digit(v, k))
  <2>1. k - 1 \in 0 .. Last /\ k \in 1 .. LEVELS /\ k - 1 # Last
    BY VMMConstants
  <2>2. Walk(m, c, v)[k - 1] \in Frame /\ D[Walk(m, c, v)[k - 1]] = k - 1
    BY <1>2, <2>1, WalkDepth
  <2>3. Walk(m, c, v)[k - 1] # t /\ Digit(v, k) \in Index
    BY <2>1, <2>2, DigitType
  <2>4. m2.tab[Walk(m, c, v)[k - 1]][Digit(v, k)] = m.tab[Walk(m, c, v)[k - 1]][Digit(v, k)]
    BY <2>2, <2>3 DEF Put
  <2> QED BY <2>4 DEF Below
<1> QED BY <1>1, <1>2, WalkKeeps

\* Of the pages of their own, one context sees the change at one page.
LEMMA PutViews ==
  ASSUME NEW D, NEW m, NEW C, NEW X, Sound(D, m, C, X),
         NEW c \in C, NEW v \in Page, Reach(m, c, v), TableOf(m, c, v) # 0, NEW e \in GoodEntry,
         NEW m2, Put(m, m2, TableOf(m, c, v), Digit(v, LEVELS), e)
  PROVE  /\ GetPte(m2, Home(c, v), v) = e
         /\ \A d \in C, u \in Page : Own(d, u) /\ (u = v => d # Home(c, v)) =>
              GetPte(m2, d, u) = GetPte(m, d, u)
<1> DEFINE t == TableOf(m, c, v)
           i == Digit(v, LEVELS)
           h == Home(c, v)
<1>1. v \in Nat /\ Page \subseteq Nat
  BY VMMConstants, SpanGrows DEF Page
<1>2. t \in Frame /\ D[t] = Last /\ i \in Index
  BY <1>1, TableDepth
<1>3. h \in C /\ Own(h, v) /\ t = TableOf(m, h, v)
  BY <1>1, AtHome
<1>4. \A d \in C, u \in Nat : TableOf(m2, d, u) = TableOf(m, d, u)
  BY <1>2, PutWalks
<1>5. \A f \in Frame, j \in Index : m2.tab[f][j] = IF f = t /\ j = i THEN e ELSE m.tab[f][j]
  BY DEF Put
<1>6. t # 0
  OBVIOUS
<1> HIDE DEF t
<1>7. GetPte(m2, h, v) = e
  <2>1. TableOf(m2, h, v) = t
    BY <1>1, <1>3, <1>4
  <2>2. PteIn(m2, t, v) = e
    BY <1>2, <1>5, <1>6 DEF PteIn
  <2> QED BY <2>1, <2>2 DEF GetPte
<1>8. ASSUME NEW d \in C, NEW u \in Page, Own(d, u), u = v => d # h
      PROVE  GetPte(m2, d, u) = GetPte(m, d, u)
  <2> DEFINE s == TableOf(m, d, u)
             j == Digit(u, LEVELS)
  <2>1. u \in Nat /\ TableOf(m2, d, u) = s /\ s \in {0} \cup Frame /\ j \in Index
    <3>1. u \in Nat
      BY <1>1
    <3> QED BY <1>4, <3>1, TableDepth
  <2>2. ~ (s = t /\ j = i)
    <3>1. SUFFICES ASSUME s = t, j = i PROVE FALSE
      OBVIOUS
    <3>2. TableOf(m, c, v) = TableOf(m, d, u) /\ TableOf(m, c, v) # 0
      BY <3>1 DEF t
    <3>3. v = u /\ (c = d \/ Digit(v, 1) \in Upper)
      BY <3>1, <3>2, OneEntry
    <3>4. h = d
      BY <1>8, <3>3 DEF Home, Own
    <3> QED BY <1>8, <3>3, <3>4
  <2> HIDE DEF s
  <2>3. PteIn(m2, s, u) = PteIn(m, s, u)
    BY <1>5, <2>1, <2>2 DEF PteIn
  <2> QED BY <2>1, <2>3 DEF GetPte, s
<1> QED BY <1>7, <1>8

\* A page that is mapped is no table and not free.
LEMMA LeafPlace ==
  ASSUME NEW D, NEW m, NEW C, NEW X, Sound(D, m, C, X),
         NEW f \in Frame, NEW i \in Index, D[f] = Last, NEW x \in Frame, m.tab[f][i].frame = x
  PROVE  D[x] = NULL /\ x \notin m.free /\ x \notin C /\ Owns(D, m, C, f, i, x)
<1>1. f \notin C /\ D[f] # NULL
  <2>1. \A g \in Frame : D[g] = 0 <=> g \in C
    BY SoundParts
  <2>2. Last # 0 /\ Last # NULL
    BY VMMConstants DEF NULL
  <2> QED BY <2>1, <2>2
<1>2. Owns(D, m, C, f, i, x)
  BY <1>1 DEF Owns, Copy
<1>3. x \notin m.free /\ x \notin C
  BY <1>2, SoundPlaces
<1>4. D[x] = NULL
  <2>1. SUFFICES ASSUME D[x] # NULL PROVE FALSE
    OBVIOUS
  <2>2. D[x] \in 1 .. Last
    <3>1. \A g \in Frame : D[g] \in {NULL} \cup 0 .. Last
      BY SoundParts
    <3>2. \A g \in Frame : D[g] = 0 <=> g \in C
      BY SoundParts
    <3> QED BY <1>3, <2>1, <3>1, <3>2, VMMConstants
  <2>3. PICK g \in Frame, j \in Index : D[g] = D[x] - 1 /\ m.tab[g][j].frame = x
    BY <2>2, SoundLevels
  <2>4. D[g] # NULL /\ D[g] # Last
    BY <2>2, <2>3, VMMConstants DEF NULL
  <2>5. m.tab[f][i] # NoEntry
    BY PteType DEF NoEntry, Frame
  <2>6. f = g
    BY <1>1, <2>3, <2>4, <2>5, SameTarget
  <2> QED BY <2>4, <2>6
<1> QED BY <1>2, <1>3, <1>4

\* A frame held for a page is owned by nothing but the entry of a last table.
LEMMA HeldOwner ==
  ASSUME NEW D, NEW m, NEW C, NEW X, Sound(D, m, C, X),
         NEW f \in Frame, NEW i \in Index, NEW x \in X, Owns(D, m, C, f, i, x)
  PROVE  IsLeaf(D, m, x)
<1>1. x \in Frame /\ D[x] = NULL /\ x \notin m.free
  BY SoundPlaces
<1>2. D[f] # NULL /\ m.tab[f][i].frame = x
  BY DEF Owns
<1>3. D[f] = Last
  <2>1. SUFFICES ASSUME D[f] # Last PROVE FALSE
    OBVIOUS
  <2>2. D[f] \in 0 .. Last - 1
    <3>1. D[f] \in {NULL} \cup 0 .. Last
      BY SoundParts
    <3> QED BY <1>2, <2>1, <3>1, VMMConstants
  <2>3. m.tab[f][i] # NoEntry
    BY <1>1, <1>2 DEF NoEntry, Frame
  <2>4. D[x] = D[f] + 1
    BY <1>2, <2>2, <2>3, SoundLevels
  <2> QED BY <1>1, <2>2, <2>4 DEF NULL
<1> QED BY <1>2, <1>3 DEF IsLeaf

PutEffect(D, m, C, t, i, e, m2) ==
  /\ m2 \in Memories /\ m2.panic # "double free" /\ Levelled(D, m2) /\ Copied(m2, C)
  /\ \A f \in Frame, j \in Index, x \in Frame :
       Owns(D, m2, C, f, j, x) <=> IF f = t /\ j = i THEN e.frame = x ELSE Owns(D, m, C, f, j, x)
  /\ \A x \in Frame :
       IsLeaf(D, m2, x) <=>
         \/ e.frame = x
         \/ \E f \in Frame, j \in Index : D[f] = Last /\ ~ (f = t /\ j = i) /\ m.tab[f][j].frame = x

\* Shared by the three ways to change an entry of a last table.
LEMMA PutShape ==
  ASSUME NEW D, NEW m, NEW C, NEW X, Sound(D, m, C, X),
         NEW t \in Frame, D[t] = Last, NEW i \in Index, NEW e \in GoodEntry,
         NEW m2, Put(m, m2, t, i, e)
  PROVE  PutEffect(D, m, C, t, i, e, m2)
<1>1. m2 \in Memories /\ m2.free = m.free /\ m2.panic = m.panic
      /\ \A f \in Frame, j \in Index : m2.tab[f][j] = IF f = t /\ j = i THEN e ELSE m.tab[f][j]
  BY DEF Put
<1>2. t \notin C /\ D[t] # NULL /\ D[t] \notin 0 .. Last - 1
  <2>1. \A g \in Frame : D[g] = 0 <=> g \in C
    BY SoundParts
  <2>2. Last # 0 /\ Last # NULL /\ Last \notin 0 .. Last - 1
    BY VMMConstants DEF NULL
  <2> QED BY <2>1, <2>2
<1>3. KERNEL \in C /\ C \subseteq Frame /\ KERNEL \in Frame /\ m.panic # "double free"
  BY SoundParts
<1>4. Levelled(D, m2)
  <2>1. ASSUME NEW f \in Frame, NEW j \in Index, D[f] \in 0 .. Last - 1, m2.tab[f][j] # NoEntry
        PROVE  D[m2.tab[f][j].frame] = D[f] + 1
    <3>1. m2.tab[f][j] = m.tab[f][j]
      BY <1>1, <1>2, <2>1
    <3> QED BY <2>1, <3>1, SoundLevels
  <2>2. ASSUME NEW g \in Frame, D[g] \in 1 .. Last
        PROVE  \E f \in Frame, j \in Index : D[f] = D[g] - 1 /\ m2.tab[f][j].frame = g
    <3>1. PICK f \in Frame, j \in Index : D[f] = D[g] - 1 /\ m.tab[f][j].frame = g
      BY <2>2, SoundLevels
    <3>2. D[f] # Last
      BY <2>2, <3>1, VMMConstants
    <3>3. m2.tab[f][j] = m.tab[f][j]
      BY <1>1, <3>2
    <3> QED BY <3>1, <3>3
  <2> QED BY <2>1, <2>2 DEF Levelled
<1>5. Copied(m2, C)
  <2>1. ASSUME NEW c \in C, NEW j \in Upper PROVE m2.tab[c][j] \in {NoEntry, m2.tab[KERNEL][j]}
    <3>1. j \in Index
      BY VMMConstants DEF Upper, Index
    <3>2. m2.tab[c][j] = m.tab[c][j] /\ m2.tab[KERNEL][j] = m.tab[KERNEL][j]
      BY <1>1, <1>2, <1>3, <3>1
    <3> QED BY <3>2, SoundLevels
  <2> QED BY <2>1 DEF Copied
<1>6. ASSUME NEW f \in Frame, NEW j \in Index, NEW x \in Frame
      PROVE  Owns(D, m2, C, f, j, x) <=> IF f = t /\ j = i THEN e.frame = x ELSE Owns(D, m, C, f, j, x)
  <2>1. CASE f = t /\ j = i
    BY <1>1, <1>2, <2>1 DEF Owns, Copy
  <2>2. CASE ~ (f = t /\ j = i)
    <3>1. m2.tab[f][j] = m.tab[f][j]
      BY <1>1, <2>2
    <3> QED BY <2>2, <3>1 DEF Owns
  <2> QED BY <2>1, <2>2
<1>7. ASSUME NEW x \in Frame
      PROVE  IsLeaf(D, m2, x) <=>
                \/ e.frame = x
                \/ \E f \in Frame, j \in Index : D[f] = Last /\ ~ (f = t /\ j = i) /\ m.tab[f][j].frame = x
  <2>1. ASSUME IsLeaf(D, m2, x), e.frame # x
        PROVE  \E f \in Frame, j \in Index : D[f] = Last /\ ~ (f = t /\ j = i) /\ m.tab[f][j].frame = x
    <3>1. PICK f \in Frame, j \in Index : D[f] = Last /\ m2.tab[f][j].frame = x
      BY <2>1 DEF IsLeaf
    <3>2. ~ (f = t /\ j = i)
      BY <1>1, <2>1, <3>1
    <3>3. m2.tab[f][j] = m.tab[f][j]
      BY <1>1, <3>2
    <3> QED BY <3>1, <3>2, <3>3
  <2>2. ASSUME e.frame = x PROVE IsLeaf(D, m2, x)
    <3>1. m2.tab[t][i] = e
      BY <1>1
    <3> QED BY <2>2, <3>1 DEF IsLeaf
  <2>3. ASSUME NEW f \in Frame, NEW j \in Index, D[f] = Last, ~ (f = t /\ j = i), m.tab[f][j].frame = x
        PROVE  IsLeaf(D, m2, x)
    <3>1. m2.tab[f][j] = m.tab[f][j]
      BY <1>1, <2>3
    <3> QED BY <2>3, <3>1 DEF IsLeaf
  <2> QED BY <2>1, <2>2, <2>3
<1> QED BY <1>1, <1>3, <1>4, <1>5, <1>6, <1>7 DEF PutEffect

\* A frame taken for a page, and not mapped, gets an entry.
LEMMA PutPage ==
  ASSUME NEW D, NEW m, NEW C, NEW X, Sound(D, m, C, X),
         NEW t \in Frame, D[t] = Last, NEW i \in Index, NEW e \in GoodEntry,
         NEW m2, Put(m, m2, t, i, e),
         m.tab[t][i] = NoEntry, e.frame \in X, ~ IsLeaf(D, m, e.frame)
  PROVE  /\ Sound(D, m2, C, X)
         /\ \A x \in Frame : IsLeaf(D, m2, x) <=> IsLeaf(D, m, x) \/ x = e.frame
<1>0. PutEffect(D, m, C, t, i, e, m2)
  BY PutShape
<1>1. /\ m2 \in Memories /\ m2.panic # "double free" /\ Levelled(D, m2) /\ Copied(m2, C)
      /\ \A f \in Frame, j \in Index, x \in Frame :
           Owns(D, m2, C, f, j, x) <=> IF f = t /\ j = i THEN e.frame = x ELSE Owns(D, m, C, f, j, x)
  BY <1>0 DEF PutEffect
<1>2. m2.free = m.free
  BY DEF Put
<1>3. \A x \in Frame : ~ Owns(D, m, C, t, i, x)
  BY PteType DEF Owns, NoEntry, Frame
<1>4. ASSUME NEW f \in Frame, NEW j \in Index PROVE ~ Owns(D, m, C, f, j, e.frame)
  BY HeldOwner
<1>5. OneOwner(D, m2, C)
  <2>1. ASSUME NEW f \in Frame, NEW g \in Frame, NEW j \in Index, NEW l \in Index, NEW x \in Frame,
               Owns(D, m2, C, f, j, x), Owns(D, m2, C, g, l, x)
        PROVE  f = g /\ j = l
    <3>1. OneOwner(D, m, C)
      BY SoundParts
    <3>2. CASE x = e.frame
      BY <1>1, <1>4, <2>1, <3>2
    <3>3. CASE x # e.frame
      <4>1. Owns(D, m, C, f, j, x) /\ Owns(D, m, C, g, l, x)
        BY <1>1, <2>1, <3>3
      <4> QED BY <3>1, <4>1 DEF OneOwner
    <3> QED BY <3>2, <3>3
  <2> QED BY <2>1 DEF OneOwner
<1>6. Placed(D, m2, C, X)
  <2>0. Placed(D, m, C, X) /\ X \subseteq Frame /\ D \in Depths
    BY SoundParts
  <2>1. \A f \in Frame : D[f] = 0 <=> f \in C
    BY SoundParts
  <2>2. ASSUME NEW f \in Frame, NEW j \in Index, NEW x \in Frame, Owns(D, m2, C, f, j, x)
        PROVE  x \notin C /\ x \notin m2.free
    <3>1. CASE x = e.frame
      <4>1. D[x] = NULL /\ x \notin m.free
        BY <2>0, <3>1 DEF Placed
      <4> QED BY <1>2, <2>1, <4>1 DEF NULL
    <3>2. CASE x # e.frame
      <4>1. Owns(D, m, C, f, j, x)
        BY <1>1, <2>2, <3>2
      <4> QED BY <1>2, <4>1, SoundPlaces
    <3> QED BY <3>1, <3>2
  <2>3. \A x \in X : D[x] = NULL /\ x \notin m2.free
    BY <1>2, <2>0 DEF Placed
  <2>4. \A x \in C : x \notin m2.free
    BY <1>2, <2>0 DEF Placed
  <2>5. ASSUME NEW x \in Frame, x \notin m2.free \cup C \cup X
        PROVE  \E f \in Frame, j \in Index : Owns(D, m2, C, f, j, x)
    <3>1. PICK f \in Frame, j \in Index : Owns(D, m, C, f, j, x)
      BY <1>2, <2>5, SoundPlaces
    <3>2. ~ (f = t /\ j = i)
      BY <1>3, <3>1
    <3>3. Owns(D, m2, C, f, j, x)
      BY <1>1, <3>1, <3>2
    <3> QED BY <3>3
  <2> QED BY <2>1, <2>2, <2>3, <2>4, <2>5 DEF Placed
<1>7. ASSUME NEW x \in Frame
      PROVE  IsLeaf(D, m2, x) <=> IsLeaf(D, m, x) \/ x = e.frame
  <2>1. IsLeaf(D, m2, x) <=>
          \/ e.frame = x
          \/ \E f \in Frame, j \in Index : D[f] = Last /\ ~ (f = t /\ j = i) /\ m.tab[f][j].frame = x
    BY <1>0 DEF PutEffect
  <2>2. m.tab[t][i].frame # x
    BY PteType DEF NoEntry, Frame
  <2>3. ASSUME IsLeaf(D, m, x)
        PROVE  \E f \in Frame, j \in Index : D[f] = Last /\ ~ (f = t /\ j = i) /\ m.tab[f][j].frame = x
    BY <2>2, <2>3 DEF IsLeaf
  <2>4. ASSUME NEW f \in Frame, NEW j \in Index, D[f] = Last, m.tab[f][j].frame = x
        PROVE  IsLeaf(D, m, x)
    BY <2>4 DEF IsLeaf
  <2> QED BY <2>1, <2>3, <2>4
<1> QED BY <1>1, <1>5, <1>6, <1>7, SoundParts DEF Sound

\* An entry that points where it did.
LEMMA PutSame ==
  ASSUME NEW D, NEW m, NEW C, NEW X, Sound(D, m, C, X),
         NEW t \in Frame, D[t] = Last, NEW i \in Index, NEW e \in GoodEntry,
         NEW m2, Put(m, m2, t, i, e), e.frame = m.tab[t][i].frame
  PROVE  /\ Sound(D, m2, C, X)
         /\ \A x \in Frame : IsLeaf(D, m2, x) <=> IsLeaf(D, m, x)
<1>0. PutEffect(D, m, C, t, i, e, m2)
  BY PutShape
<1>1. m2.free = m.free
  BY DEF Put
<1>2. t \notin C /\ D[t] # NULL
  <2>1. \A g \in Frame : D[g] = 0 <=> g \in C
    BY SoundParts
  <2>2. Last # 0 /\ Last # NULL
    BY VMMConstants DEF NULL
  <2> QED BY <2>1, <2>2
<1>3. \A x \in Frame : Owns(D, m, C, t, i, x) <=> e.frame = x
  BY <1>2 DEF Owns, Copy
<1>4. ASSUME NEW f \in Frame, NEW j \in Index, NEW x \in Frame
      PROVE  Owns(D, m2, C, f, j, x) <=> Owns(D, m, C, f, j, x)
  <2>1. Owns(D, m2, C, f, j, x) <=> IF f = t /\ j = i THEN e.frame = x ELSE Owns(D, m, C, f, j, x)
    BY <1>0 DEF PutEffect
  <2>2. CASE f = t /\ j = i
    BY <1>3, <2>1, <2>2
  <2>3. CASE ~ (f = t /\ j = i)
    BY <2>1, <2>3
  <2> QED BY <2>2, <2>3
<1>5. OneOwner(D, m2, C)
  BY <1>4, SoundPlaces DEF OneOwner
<1>6. Placed(D, m2, C, X)
  <2>1. Placed(D, m, C, X)
    BY SoundParts
  <2> QED BY <1>1, <1>4, <2>1 DEF Placed
<1>7. ASSUME NEW x \in Frame PROVE IsLeaf(D, m2, x) <=> IsLeaf(D, m, x)
  <2>1. IsLeaf(D, m2, x) <=>
          \/ e.frame = x
          \/ \E f \in Frame, j \in Index : D[f] = Last /\ ~ (f = t /\ j = i) /\ m.tab[f][j].frame = x
    BY <1>0 DEF PutEffect
  <2>2. ASSUME e.frame = x PROVE IsLeaf(D, m, x)
    BY <2>2 DEF IsLeaf
  <2>3. ASSUME IsLeaf(D, m, x), e.frame # x
        PROVE  \E f \in Frame, j \in Index : D[f] = Last /\ ~ (f = t /\ j = i) /\ m.tab[f][j].frame = x
    BY <2>3 DEF IsLeaf
  <2>4. ASSUME NEW f \in Frame, NEW j \in Index, D[f] = Last, m.tab[f][j].frame = x
        PROVE  IsLeaf(D, m, x)
    BY <2>4 DEF IsLeaf
  <2> QED BY <2>1, <2>2, <2>3, <2>4
<1>8. m2 \in Memories /\ m2.panic # "double free" /\ Levelled(D, m2) /\ Copied(m2, C)
  BY <1>0 DEF PutEffect
<1> QED BY <1>5, <1>6, <1>7, <1>8, SoundParts DEF Sound

\* An entry is cleared: the page it owned is taken, and mapped no more.
LEMMA PutNone ==
  ASSUME NEW D, NEW m, NEW C, NEW X, Sound(D, m, C, X),
         NEW t \in Frame, D[t] = Last, NEW i \in Index,
         NEW m2, Put(m, m2, t, i, NoEntry), NEW old \in Frame, m.tab[t][i].frame = old
  PROVE  /\ Sound(D, m2, C, X \cup {old})
         /\ \A x \in Frame : IsLeaf(D, m2, x) <=> IsLeaf(D, m, x) /\ x # old
<1>0. NoEntry \in GoodEntry /\ NoEntry.frame = 0 /\ 0 \notin Frame
  BY DEF GoodEntry, NoEntry, Frame
<1>1. PutEffect(D, m, C, t, i, NoEntry, m2)
  BY <1>0, PutShape
<1>2. m2.free = m.free
  BY DEF Put
<1>3. D[old] = NULL /\ old \notin m.free /\ old \notin C /\ Owns(D, m, C, t, i, old)
  BY LeafPlace
<1>4. ASSUME NEW f \in Frame, NEW j \in Index, NEW x \in Frame
      PROVE  Owns(D, m2, C, f, j, x) <=> Owns(D, m, C, f, j, x) /\ ~ (f = t /\ j = i)
  <2>1. Owns(D, m2, C, f, j, x)
          <=> IF f = t /\ j = i THEN NoEntry.frame = x ELSE Owns(D, m, C, f, j, x)
    BY <1>1 DEF PutEffect
  <2>2. CASE f = t /\ j = i
    BY <1>0, <2>1, <2>2
  <2>3. CASE ~ (f = t /\ j = i)
    BY <2>1, <2>3
  <2> QED BY <2>2, <2>3
<1>5. OneOwner(D, m2, C)
  BY <1>4, SoundPlaces DEF OneOwner
<1>6. Placed(D, m2, C, X \cup {old})
  <2>1. \A f \in Frame : D[f] = 0 <=> f \in C
    BY SoundPlaces
  <2>2. \A f \in Frame, j \in Index, x \in Frame : Owns(D, m2, C, f, j, x) => x \notin C /\ x \notin m2.free
    BY <1>2, <1>4, SoundPlaces
  <2>3. \A x \in X \cup {old} : D[x] = NULL /\ x \notin m2.free
    BY <1>2, <1>3, SoundPlaces
  <2>4. \A x \in C : x \notin m2.free
    BY <1>2, SoundPlaces
  <2>5. ASSUME NEW x \in Frame, x \notin m2.free \cup C \cup (X \cup {old})
        PROVE  \E f \in Frame, j \in Index : Owns(D, m2, C, f, j, x)
    <3>1. PICK f \in Frame, j \in Index : Owns(D, m, C, f, j, x)
      BY <1>2, <2>5, SoundPlaces
    <3>2. ~ (f = t /\ j = i)
      <4>1. x # old
        BY <2>5
      <4> QED BY <3>1, <4>1 DEF Owns
    <3> QED BY <1>4, <3>1, <3>2
  <2> QED BY <2>1, <2>2, <2>3, <2>4, <2>5 DEF Placed
<1>7. ASSUME NEW x \in Frame PROVE IsLeaf(D, m2, x) <=> IsLeaf(D, m, x) /\ x # old
  <2>1. IsLeaf(D, m2, x) <=>
          \E f \in Frame, j \in Index : D[f] = Last /\ ~ (f = t /\ j = i) /\ m.tab[f][j].frame = x
    BY <1>0, <1>1 DEF PutEffect
  <2>2. ASSUME IsLeaf(D, m, x), x # old
        PROVE  \E f \in Frame, j \in Index : D[f] = Last /\ ~ (f = t /\ j = i) /\ m.tab[f][j].frame = x
    BY <2>2 DEF IsLeaf
  <2>3. ASSUME NEW f \in Frame, NEW j \in Index, D[f] = Last, ~ (f = t /\ j = i), m.tab[f][j].frame = x
        PROVE  IsLeaf(D, m, x) /\ x # old
    <3>1. IsLeaf(D, m, x)
      BY <2>3 DEF IsLeaf
    <3>2. x # old
      <4>1. Owns(D, m, C, f, j, x)
        BY <2>3, LeafPlace
      <4> QED BY <1>3, <2>3, <4>1, SoundPlaces
    <3> QED BY <3>1, <3>2
  <2> QED BY <2>1, <2>2, <2>3
<1>8. m2 \in Memories /\ m2.panic # "double free" /\ Levelled(D, m2) /\ Copied(m2, C)
  BY <1>1 DEF PutEffect
<1> QED BY <1>5, <1>6, <1>7, <1>8, SoundParts DEF Sound

-------------------------------------------------------------------------------
(***************************************************************************)
(* Frames are taken from PMM, given to an entry, or given back.            *)
(***************************************************************************)
LEMMA TakenIs ==
  ASSUME NEW m \in Memories, NEW S \in SUBSET Frame
  PROVE  /\ Taken(m, S) \in Memories /\ Taken(m, S).tab = m.tab /\ Taken(m, S).panic = m.panic
         /\ Taken(m, S).free = m.free \ S
BY DEF Taken, Memories

LEMMA FreedIs ==
  ASSUME NEW m \in Memories, NEW S \in SUBSET Frame, S \cap m.free = {}
  PROVE  /\ Freed(m, S) \in Memories /\ Freed(m, S).tab = m.tab /\ Freed(m, S).panic = m.panic
         /\ Freed(m, S).free = m.free \cup S
BY DEF Freed, Memories

\* What a memory looks like follows from its tables, but for the free frames.
LEMMA SameTables ==
  ASSUME NEW D, NEW m, NEW m2, NEW C, m2.tab = m.tab
  PROVE  /\ Levelled(D, m2) <=> Levelled(D, m)
         /\ Copied(m2, C) <=> Copied(m, C)
         /\ OneOwner(D, m2, C) <=> OneOwner(D, m, C)
         /\ \A f, i, x : Owns(D, m2, C, f, i, x) <=> Owns(D, m, C, f, i, x)
         /\ \A x : IsLeaf(D, m2, x) <=> IsLeaf(D, m, x)
         /\ \A c, v : TableOf(m2, c, v) = TableOf(m, c, v) /\ GetPte(m2, c, v) = GetPte(m, c, v)
<1>1. \A c, v : Walk(m2, c, v) = Walk(m, c, v)
  BY DEF Walk, Below
<1> QED BY <1>1 DEF Levelled, Copied, OneOwner, Owns, IsLeaf, TableOf, GetPte, PteIn

LEMMA TakenSound ==
  ASSUME NEW D, NEW m, NEW C, NEW X, Sound(D, m, C, X), NEW S, S \subseteq m.free
  PROVE  Sound(D, Taken(m, S), C, X \cup S) /\ \A x \in S : x \in Frame /\ x \notin X /\ ~ IsLeaf(D, m, x)
<1> DEFINE m2 == Taken(m, S)
<1>1. m \in Memories /\ S \in SUBSET Frame /\ D \in Depths
  BY SoundParts
<1>2. m2 \in Memories /\ m2.tab = m.tab /\ m2.panic = m.panic /\ m2.free = m.free \ S
  BY <1>1, TakenIs
<1> HIDE DEF m2
<1>3. /\ Levelled(D, m2) <=> Levelled(D, m)
      /\ Copied(m2, C) <=> Copied(m, C)
      /\ OneOwner(D, m2, C) <=> OneOwner(D, m, C)
      /\ \A f, i, x : Owns(D, m2, C, f, i, x) <=> Owns(D, m, C, f, i, x)
  BY <1>2, SameTables
<1>4. \A x \in S : D[x] = NULL
  <2> TAKE x \in S
  <2>1. x \in m.free
    OBVIOUS
  <2> QED BY <2>1, FreeDepth
<1>5. Placed(D, m2, C, X \cup S)
  <2>1. \A f \in Frame : D[f] = 0 <=> f \in C
    BY SoundPlaces
  <2>2. \A f \in Frame, j \in Index, x \in Frame : Owns(D, m2, C, f, j, x) => x \notin C /\ x \notin m2.free
    BY <1>2, <1>3, SoundPlaces
  <2>3. \A x \in X \cup S : D[x] = NULL /\ x \notin m2.free
    BY <1>2, <1>4, SoundPlaces
  <2>4. \A x \in C : x \notin m2.free
    BY <1>2, SoundPlaces
  <2>5. \A x \in Frame : x \notin m2.free \cup C \cup (X \cup S) =>
          \E f \in Frame, j \in Index : Owns(D, m2, C, f, j, x)
    BY <1>2, <1>3, SoundPlaces
  <2> QED BY <2>1, <2>2, <2>3, <2>4, <2>5 DEF Placed
<1>6. ASSUME NEW x \in S PROVE x \in Frame /\ x \notin X /\ ~ IsLeaf(D, m, x)
  <2>1. x \in Frame /\ x \in m.free
    BY <1>1
  <2>2. x \notin X
    BY <2>1, SoundPlaces
  <2>3. ASSUME IsLeaf(D, m, x) PROVE FALSE
    <3>1. PICK f \in Frame, i \in Index : D[f] = Last /\ m.tab[f][i].frame = x
      BY <2>3 DEF IsLeaf
    <3> QED BY <2>1, <3>1, LeafPlace
  <2> QED BY <2>1, <2>2, <2>3
<1>7. Levelled(D, m) /\ Copied(m, C) /\ OneOwner(D, m, C) /\ m.panic # "double free"
      /\ C \subseteq Frame /\ KERNEL \in C /\ X \subseteq Frame
  BY SoundParts
<1>8. Sound(D, m2, C, X \cup S)
  BY <1>1, <1>2, <1>3, <1>5, <1>7 DEF Sound
<1> QED BY <1>6, <1>8 DEF m2

LEMMA FreedSound ==
  ASSUME NEW D, NEW m, NEW C, NEW X, Sound(D, m, C, X),
         NEW S, S \subseteq X, \A x \in S : ~ IsLeaf(D, m, x)
  PROVE  Sound(D, Freed(m, S), C, X \ S) /\ Freed(m, S).panic = m.panic /\ Freed(m, S).tab = m.tab
<1> DEFINE m2 == Freed(m, S)
<1>1. m \in Memories /\ S \in SUBSET Frame /\ D \in Depths
  BY SoundParts
<1>2. S \cap m.free = {}
  BY SoundPlaces
<1>3. m2 \in Memories /\ m2.tab = m.tab /\ m2.panic = m.panic /\ m2.free = m.free \cup S
  BY <1>1, <1>2, FreedIs
<1> HIDE DEF m2
<1>4. /\ Levelled(D, m2) <=> Levelled(D, m)
      /\ Copied(m2, C) <=> Copied(m, C)
      /\ OneOwner(D, m2, C) <=> OneOwner(D, m, C)
      /\ \A f, i, x : Owns(D, m2, C, f, i, x) <=> Owns(D, m, C, f, i, x)
  BY <1>3, SameTables
<1>5. \A x \in S, f \in Frame, i \in Index : ~ Owns(D, m, C, f, i, x)
  BY HeldOwner
<1>6. \A x \in X : x \in Frame /\ D[x] = NULL /\ x \notin C
  <2>1. \A x \in X : x \in Frame /\ D[x] = NULL
    BY SoundPlaces
  <2>2. \A f \in Frame : D[f] = 0 <=> f \in C
    BY SoundPlaces
  <2> QED BY <2>1, <2>2 DEF NULL
<1>7. Placed(D, m2, C, X \ S)
  <2>1. \A f \in Frame : D[f] = 0 <=> f \in C
    BY SoundPlaces
  <2>2. ASSUME NEW f \in Frame, NEW j \in Index, NEW x \in Frame, Owns(D, m2, C, f, j, x)
        PROVE  x \notin C /\ x \notin m2.free
    <3>1. Owns(D, m, C, f, j, x)
      BY <1>4, <2>2
    <3>2. x \notin S
      BY <1>5, <3>1
    <3> QED BY <1>3, <3>1, <3>2, SoundPlaces
  <2>3. \A x \in X \ S : D[x] = NULL /\ x \notin m2.free
    BY <1>3, SoundPlaces
  <2>4. \A x \in C : x \notin m2.free
    BY <1>3, <1>6, SoundPlaces
  <2>5. \A x \in Frame : x \notin m2.free \cup C \cup (X \ S) =>
          \E f \in Frame, j \in Index : Owns(D, m2, C, f, j, x)
    BY <1>3, <1>4, SoundPlaces
  <2> QED BY <2>1, <2>2, <2>3, <2>4, <2>5 DEF Placed
<1>8. Levelled(D, m) /\ Copied(m, C) /\ OneOwner(D, m, C) /\ m.panic # "double free"
      /\ C \subseteq Frame /\ KERNEL \in C /\ X \subseteq Frame
  BY SoundParts
<1>9. Sound(D, m2, C, X \ S)
  BY <1>1, <1>3, <1>4, <1>7, <1>8 DEF Sound
<1> QED BY <1>3, <1>9 DEF m2

LEMMA FreedSoundAs ==
  ASSUME NEW D, NEW m, NEW C, NEW X, Sound(D, m, C, X),
         NEW S, S \subseteq X, \A x \in S : ~ IsLeaf(D, m, x),
         NEW m2, m2 = Freed(m, S), NEW Z, Z = X \ S
  PROVE  Sound(D, m2, C, Z) /\ m2.tab = m.tab
BY FreedSound

\* Frames that are mapped need not be held.
LEMMA DropHeld ==
  ASSUME NEW D, NEW m, NEW C, NEW X, Sound(D, m, C, X),
         NEW S, \A x \in S : IsLeaf(D, m, x)
  PROVE  Sound(D, m, C, X \ S)
<1>1. Placed(D, m, C, X \ S)
  <2>1. \A f \in Frame : D[f] = 0 <=> f \in C
    BY SoundPlaces
  <2>2. \A f \in Frame, j \in Index, x \in Frame : Owns(D, m, C, f, j, x) => x \notin C /\ x \notin m.free
    BY SoundPlaces
  <2>3. \A x \in X \ S : D[x] = NULL /\ x \notin m.free
    BY SoundPlaces
  <2>4. \A x \in C : x \notin m.free
    BY SoundPlaces
  <2>5. ASSUME NEW x \in Frame, x \notin m.free \cup C \cup (X \ S)
        PROVE  \E f \in Frame, j \in Index : Owns(D, m, C, f, j, x)
    <3>1. CASE x \in S
      <4>1. PICK f \in Frame, i \in Index : D[f] = Last /\ m.tab[f][i].frame = x
        BY <3>1 DEF IsLeaf
      <4> QED BY <4>1, LeafPlace
    <3>2. CASE x \notin S
      BY <2>5, <3>2, SoundPlaces
    <3> QED BY <3>1, <3>2
  <2> QED BY <2>1, <2>2, <2>3, <2>4, <2>5 DEF Placed
<1> QED BY <1>1, SoundParts DEF Sound

-------------------------------------------------------------------------------
(***************************************************************************)
(* A walk adds a table.                                                    *)
(***************************************************************************)
Link(m, m2, t, i, new) ==
  /\ m2 \in Memories /\ m2.free = m.free \ {new} /\ m2.panic \in {m.panic, "unmapped table"}
  /\ \A f \in Frame, j \in Index :
       m2.tab[f][j] = IF f = new THEN NoEntry
                      ELSE IF f = t /\ j = i THEN Pte(new, "kernel") ELSE m.tab[f][j]

LEMMA LinkIs ==
  ASSUME NEW w, w.mem \in Memories, w.table \in Frame, NEW i \in Index, NEW new \in Frame
  PROVE  /\ AddTable(w, i, new).mem \in Memories
         /\ new # w.table => Link(w.mem, AddTable(w, i, new).mem, w.table, i, new)
<1> DEFINE m == w.mem
           t == w.table
           m1 == NewTable(m, new)
           m2 == AddTable(w, i, new).mem
<1>1. /\ m.tab \in [Frame -> [Index -> GoodEntry]] /\ m.free \in SUBSET Frame /\ m.panic \in Panics
      /\ Pte(new, "kernel") \in GoodEntry /\ NoEntry \in GoodEntry
  BY PteType DEF Memories
<1>2. Taken(m, {new}) \in Memories /\ Taken(m, {new}).tab = m.tab
      /\ Taken(m, {new}).panic = m.panic /\ Taken(m, {new}).free = m.free \ {new}
  BY <1>1, TakenIs
<1> DEFINE b == [m.tab EXCEPT ![new] = EmptyTable]
           p == IF new \in Direct THEN m.panic ELSE "unmapped table"
<1>3. b \in [Frame -> [Index -> GoodEntry]] /\ p \in Panics /\ p \in {m.panic, "unmapped table"}
  BY <1>1 DEF EmptyTable, Panics
<1>4. m1 = [Taken(m, {new}) EXCEPT !.tab = b, !.panic = p]
  BY <1>2 DEF NewTable
<1>5. m1 \in Memories /\ m1.free = m.free \ {new} /\ m1.panic = p /\ m1.tab = b
  <2> HIDE DEF b, p, m1
  <2> QED BY <1>2, <1>3, <1>4 DEF Memories
<1>6. m2 = [m1 EXCEPT !.tab[t][i] = Pte(new, "kernel")]
  BY DEF AddTable
<1> HIDE DEF m1, m2
<1>7. Put(m1, m2, t, i, Pte(new, "kernel"))
  BY <1>1, <1>5, <1>6, PutIs
<1>8. \A f \in Frame, j \in Index : m1.tab[f][j] = IF f = new THEN NoEntry ELSE m.tab[f][j]
  <2>1. \A f \in Frame : b[f] = IF f = new THEN EmptyTable ELSE m.tab[f]
    BY <1>1
  <2>2. \A j \in Index : EmptyTable[j] = NoEntry
    BY DEF EmptyTable
  <2>3. m1.tab = b
    BY <1>5
  <2> HIDE DEF b
  <2> QED BY <2>1, <2>2, <2>3
<1> HIDE DEF b, p
<1>9. /\ m2 \in Memories /\ m2.free = m1.free /\ m2.panic = m1.panic
      /\ \A f \in Frame, j \in Index :
           m2.tab[f][j] = IF f = t /\ j = i THEN Pte(new, "kernel") ELSE m1.tab[f][j]
  BY <1>7 DEF Put
<1>10. ASSUME new # t, NEW f \in Frame, NEW j \in Index
       PROVE
         m2.tab[f][j] = IF f = new THEN NoEntry
                        ELSE IF f = t /\ j = i THEN Pte(new, "kernel") ELSE m.tab[f][j]
  BY <1>8, <1>9, <1>10
<1>11. new # t => Link(m, m2, t, i, new)
  BY <1>3, <1>5, <1>9, <1>10 DEF Link
<1> QED BY <1>9, <1>11 DEF m2

\* Every context sees the pages it saw: the new table is empty.
LEMMA LinkViews ==
  ASSUME NEW D, NEW m, NEW C, NEW X, Sound(D, m, C, X),
         NEW t \in Frame, D[t] \in 0 .. Last - 1, NEW i \in Index, m.tab[t][i] = NoEntry,
         NEW new \in m.free, NEW m2, Link(m, m2, t, i, new), NEW c \in C, NEW v \in Nat
  PROVE  /\ \A k \in 0 .. Last : Walk(m, c, v)[k] # 0 => Walk(m2, c, v)[k] = Walk(m, c, v)[k]
         /\ GetPte(m2, c, v) = GetPte(m, c, v)
<1> DEFINE W == Walk(m, c, v)
           V == Walk(m2, c, v)
           S == {k \in 0 .. Last : V[k] = W[k] \/ (W[k] = 0 /\ V[k] = new)}
<1>1. m \in Memories /\ m2 \in Memories /\ c \in Frame /\ Last \in Nat /\ new \in Frame /\ 0 \notin Frame
  <2>1. m \in Memories /\ c \in Frame /\ new \in Frame
    <3>1. m \in Memories /\ c \in Frame
      BY SoundParts
    <3>2. new \in Frame
      BY FreeDepth
    <3> QED BY <3>1, <3>2
  <2>2. m2 \in Memories
    BY DEF Link
  <2>3. Last \in Nat /\ 0 \notin Frame
    BY VMMConstants DEF Frame
  <2> QED BY <2>1, <2>2, <2>3
<1>2. /\ W[0] = c /\ V[0] = c
      /\ \A k \in 1 .. Last : W[k] = Below(m, W[k - 1], Digit(v, k))
      /\ \A k \in 1 .. Last : V[k] = Below(m2, V[k - 1], Digit(v, k))
  BY <1>1, WalkSteps
<1>3. \A k \in 0 .. Last : W[k] \in {0} \cup Frame /\ W[k] # new
  <2> TAKE k \in 0 .. Last
  <2>1. W[k] \in {0} \cup Frame
    BY <1>1, WalkSteps
  <2>2. ASSUME W[k] = new PROVE FALSE
    <3>1. D[W[k]] = k
      BY <1>1, <2>2, WalkDepth
    <3>2. D[new] = NULL
      BY FreeDepth
    <3> QED BY <1>1, <2>2, <3>1, <3>2 DEF NULL
  <2> QED BY <2>1, <2>2
<1>4. \A f \in Frame, j \in Index :
        m2.tab[f][j] = IF f = new THEN NoEntry
                       ELSE IF f = t /\ j = i THEN Pte(new, "kernel") ELSE m.tab[f][j]
  BY DEF Link
<1>5. Pte(new, "kernel").frame = new /\ NoEntry.frame = 0
  BY DEF Pte, NoEntry
<1>6. \A k \in 1 .. LEVELS : Digit(v, k) \in Index
  BY DigitType
<1> HIDE DEF W, V
<1>7. 0 \in S
  BY <1>1, <1>2
<1>8. ASSUME NEW k \in 1 .. Last, k - 1 \in S PROVE k \in S
  <2> DEFINE f == W[k - 1]
             j == Digit(v, k)
  <2>1. k \in 0 .. Last /\ k - 1 \in 0 .. Last /\ j \in Index
    BY <1>6, VMMConstants
  <2>2. f \in {0} \cup Frame /\ f # new /\ W[k] = Below(m, f, j)
    BY <1>2, <1>3, <2>1
  <2>3. CASE f = 0 /\ V[k - 1] = 0
    BY <1>2, <2>1, <2>2, <2>3 DEF Below
  <2>4. CASE f = 0 /\ V[k - 1] = new
    <3>1. V[k] = 0
      BY <1>1, <1>2, <1>4, <1>5, <2>1, <2>4 DEF Below
    <3> QED BY <2>1, <2>2, <2>4, <3>1 DEF Below
  <2>5. CASE f # 0 /\ V[k - 1] = f
    <3>1. V[k] = m2.tab[f][j].frame /\ W[k] = m.tab[f][j].frame /\ f \in Frame
      BY <1>2, <2>2, <2>5 DEF Below
    <3>2. CASE f = t /\ j = i
      <4>1. m2.tab[f][j] = Pte(new, "kernel") /\ m.tab[f][j] = NoEntry
        BY <1>4, <2>1, <2>2, <3>1, <3>2
      <4>2. W[k] = 0 /\ V[k] = new
        BY <1>5, <3>1, <4>1
      <4> QED BY <2>1, <4>2
    <3>3. CASE ~ (f = t /\ j = i)
      <4>1. m2.tab[f][j] = m.tab[f][j]
        BY <1>4, <2>1, <2>2, <3>1, <3>3
      <4> QED BY <2>1, <3>1, <4>1
    <3> QED BY <3>2, <3>3
  <2>6. V[k - 1] = f \/ (f = 0 /\ V[k - 1] = new)
    BY <1>8
  <2> QED BY <2>3, <2>4, <2>5, <2>6
<1> HIDE DEF S
<1>9. \A k \in 0 .. Last : k \in S
  BY <1>1, <1>7, <1>8, CountUp
<1>10. \A k \in 0 .. Last : V[k] = W[k] \/ (W[k] = 0 /\ V[k] = new)
  BY <1>9 DEF S
<1>11. GetPte(m2, c, v) = GetPte(m, c, v)
  <2> DEFINE f == W[Last]
             g == V[Last]
             j == Digit(v, LEVELS)
  <2>1. f \in {0} \cup Frame /\ f # new /\ (g = f \/ (f = 0 /\ g = new)) /\ j \in Index
    BY <1>1, <1>3, <1>6, <1>10, VMMConstants
  <2>2. GetPte(m, c, v) = PteIn(m, f, v) /\ GetPte(m2, c, v) = PteIn(m2, g, v)
    BY DEF GetPte, TableOf, W, V
  <2>3. CASE g = new
    <3>1. PteIn(m2, g, v) = NoEntry
      BY <1>1, <1>4, <2>1, <2>3 DEF PteIn
    <3>2. PteIn(m, f, v) = NoEntry
      BY <2>1, <2>3 DEF PteIn
    <3> QED BY <2>2, <3>1, <3>2
  <2>4. CASE g = f /\ f = 0
    BY <2>2, <2>4 DEF PteIn
  <2>5. CASE g = f /\ f # 0
    <3>1. PteIn(m2, g, v) = m2.tab[f][j] /\ PteIn(m, f, v) = m.tab[f][j] /\ f \in Frame
      BY <2>1, <2>5 DEF PteIn
    <3>2. ~ (f = t /\ j = i)
      <4>1. Last \in 0 .. Last /\ Last \notin 0 .. Last - 1
        BY <1>1
      <4>2. D[f] = Last
        BY <1>1, <2>5, <4>1, WalkDepth DEF W
      <4> QED BY <4>1, <4>2
    <3>3. m2.tab[f][j] = m.tab[f][j]
      BY <1>4, <2>1, <3>1, <3>2
    <3> QED BY <2>2, <3>1, <3>3
  <2> QED BY <2>1, <2>3, <2>4, <2>5
<1> QED BY <1>10, <1>11 DEF W, V

\* The new table is one step below the one that points to it.
LEMMA LinkSound ==
  ASSUME NEW D, NEW m, NEW C, NEW X, Sound(D, m, C, X),
         NEW t \in Frame, NEW k \in 1 .. Last, D[t] = k - 1, NEW i \in Index, m.tab[t][i] = NoEntry,
         ~ Copy(C, t, i), NEW new \in m.free, NEW m2, Link(m, m2, t, i, new)
  PROVE  /\ Sound([D EXCEPT ![new] = k], m2, C, X)
         /\ \A x \in Frame : IsLeaf([D EXCEPT ![new] = k], m2, x) <=> IsLeaf(D, m, x)
<1> DEFINE E == [D EXCEPT ![new] = k]
           e == Pte(new, "kernel")
<1>1. /\ m2 \in Memories /\ m2.free = m.free \ {new} /\ m2.panic \in {m.panic, "unmapped table"}
      /\ \A f \in Frame, j \in Index :
           m2.tab[f][j] = IF f = new THEN NoEntry ELSE IF f = t /\ j = i THEN e ELSE m.tab[f][j]
  BY DEF Link
<1>0. k \in Nat /\ k # 0 /\ k <= Last /\ Last \in Nat /\ NULL = -1
  BY VMMConstants DEF NULL
<1>2. /\ m \in Memories /\ new \in Frame /\ 0 \notin Frame /\ m.panic # "double free"
      /\ C \subseteq Frame /\ KERNEL \in C /\ X \subseteq Frame
  <2>2. m \in Memories /\ m.panic # "double free" /\ C \subseteq Frame /\ KERNEL \in C /\ X \subseteq Frame
    BY SoundParts
  <2>4. new \in Frame /\ 0 \notin Frame
    <3>1. new \in Frame
      BY FreeDepth
    <3> QED BY <3>1 DEF Frame
  <2> QED BY <2>2, <2>4
<1>3. D[new] = NULL /\ new \notin C /\ new \notin X /\ new # t
  <2>1. D[new] = NULL /\ new \notin C /\ new \notin X
    BY FreeDepth
  <2> QED BY <2>1 DEF NULL
<1>4. E \in Depths /\ \A f \in Frame : E[f] = IF f = new THEN k ELSE D[f]
  <2>1. D \in Depths
    BY SoundParts
  <2>2. k \in {NULL} \cup 0 .. Last
    BY <1>0
  <2> HIDE DEF NULL
  <2> QED BY <1>2, <2>1, <2>2 DEF Depths
<1>5. \A f \in Frame : D[f] \in {NULL} \cup 0 .. Last
  BY SoundParts
<1>6. e.frame = new /\ e # NoEntry /\ NoEntry.frame = 0
  BY <1>2, PteType
<1> HIDE DEF E, e
<1>7. ASSUME NEW f \in Frame, NEW j \in Index, D[f] # NULL PROVE m.tab[f][j].frame # new
  <2> SUFFICES ASSUME m.tab[f][j].frame = new PROVE FALSE
    OBVIOUS
  <2>0. new \in Frame
    BY <1>2
  <2>1. CASE D[f] = Last
    BY <2>0, <2>1, LeafPlace
  <2>2. CASE D[f] # Last
    <3>1. D[f] \in 0 .. Last - 1
      BY <1>0, <1>5, <1>7, <2>2
    <3>2. m.tab[f][j] # NoEntry
      BY <1>2, <1>6
    <3>3. D[new] = D[f] + 1
      BY <3>1, <3>2, SoundLevels
    <3> QED BY <1>3, <3>1, <3>3 DEF NULL
  <2> QED BY <2>1, <2>2
<1>8. D[t] # NULL /\ E[t] = D[t] /\ E[new] = k /\ D[t] = k - 1
  <2>1. k - 1 # NULL
    BY <1>0
  <2>2. E[t] = D[t] /\ E[new] = k
    BY <1>2, <1>3, <1>4
  <2> QED BY <2>1, <2>2
<1>9. Levelled(E, m2)
  <2>1. ASSUME NEW f \in Frame, NEW j \in Index, E[f] \in 0 .. Last - 1, m2.tab[f][j] # NoEntry
        PROVE  E[m2.tab[f][j].frame] = E[f] + 1
    <3>1. f # new /\ E[f] = D[f]
      BY <1>1, <1>4, <2>1
    <3>2. CASE f = t /\ j = i
      <4>1. m2.tab[f][j] = e
        BY <1>1, <3>1, <3>2
      <4>2. E[m2.tab[f][j].frame] = k /\ E[f] = k - 1
        BY <1>6, <1>8, <3>2, <4>1
      <4> QED BY <1>0, <4>2
    <3>3. CASE ~ (f = t /\ j = i)
      <4>1. m2.tab[f][j] = m.tab[f][j]
        BY <1>1, <3>1, <3>3
      <4>2. D[m.tab[f][j].frame] = D[f] + 1
        BY <2>1, <3>1, <4>1, SoundLevels
      <4>3. D[f] # NULL
        BY <2>1, <3>1 DEF NULL
      <4>4. m.tab[f][j].frame \in Frame /\ m.tab[f][j].frame # new
        <5>1. m \in Memories
          BY SoundParts
        <5>2. m.tab[f][j].frame \in {0} \cup Frame /\ (m.tab[f][j].frame = 0 <=> m.tab[f][j] = NoEntry)
          BY <5>1, EntryType
        <5>3. m.tab[f][j] # NoEntry
          BY <2>1, <4>1
        <5> QED BY <1>7, <4>3, <5>2, <5>3
      <4> QED BY <1>4, <3>1, <4>1, <4>2, <4>4
    <3> QED BY <3>2, <3>3
  <2>2. ASSUME NEW g \in Frame, E[g] \in 1 .. Last
        PROVE  \E f \in Frame, j \in Index : E[f] = E[g] - 1 /\ m2.tab[f][j].frame = g
    <3>1. CASE g = new
      <4>1. m2.tab[t][i].frame = new
        BY <1>1, <1>3, <1>6
      <4>2. E[t] = E[new] - 1
        BY <1>0, <1>8
      <4> QED BY <3>1, <4>1, <4>2
    <3>2. CASE g # new
      <4>1. D[g] \in 1 .. Last /\ E[g] = D[g]
        BY <1>4, <2>2, <3>2
      <4>2. PICK f \in Frame, j \in Index : D[f] = D[g] - 1 /\ m.tab[f][j].frame = g
        BY <4>1, SoundLevels
      <4>3. f # new
        <5>1. D[f] # NULL
          BY <4>1, <4>2, VMMConstants DEF NULL
        <5> QED BY <1>3, <5>1
      <4>4. ~ (f = t /\ j = i)
        BY <1>2, <1>6, <4>2
      <4>5. m2.tab[f][j] = m.tab[f][j] /\ E[f] = D[f]
        BY <1>1, <1>4, <4>3, <4>4
      <4> QED BY <4>1, <4>2, <4>5
    <3> QED BY <3>1, <3>2
  <2> QED BY <2>1, <2>2 DEF Levelled
<1>10. Copied(m2, C)
  <2>1. ASSUME NEW c \in C, NEW j \in Upper PROVE m2.tab[c][j] \in {NoEntry, m2.tab[KERNEL][j]}
    <3>1. j \in Index /\ c \in Frame /\ c # new /\ KERNEL # new /\ KERNEL \in Frame
      <4>1. j \in Index
        BY VMMConstants DEF Upper, Index
      <4>2. KERNEL \in Frame /\ KERNEL \in C /\ c \in Frame
        BY SoundParts
      <4> QED BY <1>3, <4>1, <4>2
    <3>2. m.tab[c][j] \in {NoEntry, m.tab[KERNEL][j]}
      BY SoundLevels
    <3>3. CASE c = KERNEL
      BY <3>3
    <3>4. CASE c # KERNEL
      <4>1. ~ (c = t /\ j = i)
        BY <3>4 DEF Copy
      <4>2. m2.tab[c][j] = m.tab[c][j]
        BY <1>1, <3>1, <4>1
      <4>3. CASE KERNEL = t /\ j = i
        <5>1. m.tab[c][j] = NoEntry
          BY <3>2, <4>3
        <5> QED BY <4>2, <5>1
      <4>4. CASE ~ (KERNEL = t /\ j = i)
        <5>1. m2.tab[KERNEL][j] = m.tab[KERNEL][j]
          BY <1>1, <3>1, <4>4
        <5> QED BY <3>2, <4>2, <5>1
      <4> QED BY <4>3, <4>4
    <3> QED BY <3>3, <3>4
  <2> QED BY <2>1 DEF Copied
<1>11. ASSUME NEW f \in Frame, NEW j \in Index, NEW x \in Frame
       PROVE  Owns(E, m2, C, f, j, x) <=> IF f = t /\ j = i THEN x = new ELSE Owns(D, m, C, f, j, x)
  <2>1. CASE f = new
    <3>1. m2.tab[f][j].frame # x
      BY <1>1, <1>2, <1>6, <2>1
    <3> QED BY <1>3, <2>1, <3>1 DEF Owns
  <2>2. CASE f = t /\ j = i
    <3>1. m2.tab[f][j].frame = new /\ E[f] # NULL /\ ~ Copy(C, f, j)
      BY <1>1, <1>3, <1>6, <1>8, <2>2
    <3> QED BY <2>2, <3>1 DEF Owns
  <2>3. CASE f # new /\ ~ (f = t /\ j = i)
    <3>1. m2.tab[f][j] = m.tab[f][j] /\ E[f] = D[f]
      BY <1>1, <1>4, <2>3
    <3> QED BY <2>3, <3>1 DEF Owns
  <2> QED BY <1>3, <2>1, <2>2, <2>3
<1>12. \A f \in Frame, j \in Index : ~ Owns(D, m, C, f, j, new)
  BY <1>7 DEF Owns
<1>13. OneOwner(E, m2, C)
  <2>1. ASSUME NEW f \in Frame, NEW g \in Frame, NEW j \in Index, NEW l \in Index, NEW x \in Frame,
               Owns(E, m2, C, f, j, x), Owns(E, m2, C, g, l, x)
        PROVE  f = g /\ j = l
    <3>1. CASE x = new
      BY <1>11, <1>12, <2>1, <3>1
    <3>2. CASE x # new
      <4>1. Owns(D, m, C, f, j, x) /\ Owns(D, m, C, g, l, x)
        BY <1>11, <2>1, <3>2
      <4> QED BY <4>1, SoundPlaces
    <3> QED BY <3>1, <3>2
  <2> QED BY <2>1 DEF OneOwner
<1>14. Placed(E, m2, C, X)
  <2>1. \A f \in Frame : E[f] = 0 <=> f \in C
    <3>1. \A f \in Frame : D[f] = 0 <=> f \in C
      BY SoundPlaces
    <3>2. k # 0
      BY <1>0
    <3> QED BY <1>3, <1>4, <3>1, <3>2
  <2>2. ASSUME NEW f \in Frame, NEW j \in Index, NEW x \in Frame, Owns(E, m2, C, f, j, x)
        PROVE  x \notin C /\ x \notin m2.free
    <3>1. CASE x = new
      BY <1>1, <1>3, <3>1
    <3>2. CASE x # new
      <4>1. Owns(D, m, C, f, j, x)
        BY <1>11, <2>2, <3>2
      <4>2. x \notin C /\ x \notin m.free
        BY <4>1, SoundPlaces
      <4> QED BY <1>1, <4>2
    <3> QED BY <3>1, <3>2
  <2>3. ASSUME NEW x \in X PROVE E[x] = NULL /\ x \notin m2.free
    <3>1. x \in Frame /\ D[x] = NULL /\ x \notin m.free
      BY SoundPlaces
    <3> QED BY <1>1, <1>3, <1>4, <3>1
  <2>4. ASSUME NEW x \in C PROVE x \notin m2.free
    <3>1. x \notin m.free
      BY SoundPlaces
    <3> QED BY <1>1, <3>1
  <2>5. ASSUME NEW x \in Frame, x \notin m2.free \cup C \cup X
        PROVE  \E f \in Frame, j \in Index : Owns(E, m2, C, f, j, x)
    <3>1. CASE x = new
      BY <1>11, <3>1
    <3>2. CASE x # new
      <4>0. x \notin m.free \cup C \cup X
        <5>1. m2.free = m.free \ {new}
          BY <1>1
        <5> QED BY <2>5, <3>2, <5>1
      <4>1. PICK f \in Frame, j \in Index : Owns(D, m, C, f, j, x)
        BY <4>0, SoundPlaces
      <4>2. ~ (f = t /\ j = i)
        BY <1>2, <1>6, <4>1 DEF Owns
      <4>3. Owns(E, m2, C, f, j, x)
        BY <1>11, <4>1, <4>2
      <4> QED BY <4>3
    <3> QED BY <3>1, <3>2
  <2> QED BY <2>1, <2>2, <2>3, <2>4, <2>5 DEF Placed
<1>15. ASSUME NEW x \in Frame PROVE IsLeaf(E, m2, x) <=> IsLeaf(D, m, x)
  <2>1. ASSUME NEW f \in Frame, NEW j \in Index
        PROVE  E[f] = Last /\ m2.tab[f][j].frame = x <=> D[f] = Last /\ m.tab[f][j].frame = x
    <3>1. Last # NULL /\ D[t] # Last
      BY VMMConstants DEF NULL
    <3>2. CASE f = new
      BY <1>1, <1>2, <1>3, <1>6, <3>1, <3>2
    <3>3. CASE f = t /\ j = i
      BY <1>8, <3>1, <3>3
    <3>4. CASE f # new /\ ~ (f = t /\ j = i)
      BY <1>1, <1>4, <3>4
    <3> QED BY <3>2, <3>3, <3>4
  <2> QED BY <2>1 DEF IsLeaf
<1>16. Sound(E, m2, C, X)
  <2>1. m2.panic # "double free"
    BY <1>1, <1>2
  <2> QED BY <1>1, <1>2, <1>4, <1>9, <1>10, <1>13, <1>14, <2>1 DEF Sound
<1> QED BY <1>15, <1>16 DEF E

-------------------------------------------------------------------------------
(***************************************************************************)
(* The walk of vmm_get_or_create_table.                                    *)
(***************************************************************************)
Walkers == [mem : Memories, table : Frame, ok : BOOLEAN]

\* pmm_alloc takes what is free.
LEMMA PmmTakes ==
  ASSUME NEW S \in SUBSET Frame, NEW n \in Sizes \cup {1}, RunsIn(S, n) # {}
  PROVE  PmmChoice(S, n) \in Frame /\ Run(PmmChoice(S, n), n) \subseteq S
BY VMMAssumption DEF RunsIn

LEMMA PmmTakesOne ==
  ASSUME NEW S \in SUBSET Frame, S # {}
  PROVE  PmmChoice(S, 1) \in S
<1>1. ASSUME NEW f \in Frame PROVE Run(f, 1) = {f}
  BY DEF Run, Frame
<1>2. PICK f : f \in S
  OBVIOUS
<1>3. f \in RunsIn(S, 1)
  BY <1>1, <1>2 DEF RunsIn
<1>4. PmmChoice(S, 1) \in Frame /\ Run(PmmChoice(S, 1), 1) \subseteq S
  BY <1>3, PmmTakes
<1> QED BY <1>1, <1>4

LEMMA DescendType ==
  ASSUME NEW w \in Walkers, NEW i \in Index
  PROVE  Descend(w, i) \in Walkers
<1> DEFINE here == w.mem.tab[w.table][i].frame
           new == PmmChoice(w.mem.free, 1)
<1>1. w.mem \in Memories /\ w.table \in Frame /\ w.ok \in BOOLEAN
      /\ w = [mem |-> w.mem, table |-> w.table, ok |-> w.ok]
  BY DEF Walkers
<1>2. here \in {0} \cup Frame
  BY <1>1, EntryType
<1>3. ASSUME w.mem.free # {} PROVE AddTable(w, i, new) \in Walkers
  <2>1. new \in Frame
    <3>1. w.mem.free \in SUBSET Frame
      BY <1>1 DEF Memories
    <3> QED BY <1>3, <3>1, PmmTakesOne
  <2>2. AddTable(w, i, new).mem \in Memories
    BY <1>1, <2>1, LinkIs
  <2>3. AddTable(w, i, new) = [ok |-> TRUE, table |-> new, mem |-> AddTable(w, i, new).mem]
    BY DEF AddTable
  <2>4. ASSUME NEW m \in Memories, NEW f \in Frame
        PROVE  [ok |-> TRUE, table |-> f, mem |-> m] \in Walkers
    BY DEF Walkers
  <2> QED BY <2>1, <2>2, <2>3, <2>4
<1>4. CASE ~ w.ok
  BY <1>4 DEF Descend
<1>5. CASE w.ok /\ here # 0
  <2>1. Descend(w, i) = [w EXCEPT !.table = here]
    BY <1>5 DEF Descend
  <2> HIDE DEF here
  <2> QED BY <1>1, <1>2, <1>5, <2>1 DEF Walkers
<1>6. CASE w.ok /\ here = 0 /\ w.mem.free = {}
  <2>1. Descend(w, i) = [w EXCEPT !.ok = FALSE]
    BY <1>6 DEF Descend
  <2> QED BY <1>1, <2>1 DEF Walkers
<1>7. CASE w.ok /\ here = 0 /\ w.mem.free # {}
  <2>1. Descend(w, i) = AddTable(w, i, new)
    BY <1>7 DEF Descend
  <2> QED BY <1>3, <1>7, <2>1
<1> QED BY <1>4, <1>5, <1>6, <1>7

LEMMA DescendSteps ==
  ASSUME NEW m \in Memories, NEW c \in Frame, NEW v \in Nat
  PROVE  \E w : /\ w[0] = [mem |-> m, table |-> c, ok |-> TRUE]
                /\ \A k \in 1 .. Last : w[k] = Descend(w[k - 1], Digit(v, k))
                /\ \A k \in 0 .. Last : w[k] \in Walkers
                /\ GetOrCreate(m, c, v) = w[Last]
<1> DEFINE start == [mem |-> m, table |-> c, ok |-> TRUE]
           F == [k \in 1 .. Last |-> [w \in Walkers |-> Descend(w, Digit(v, k))]]
           W == CHOOSE w : w = [k \in 0 .. Last |-> IF k = 0 THEN [mem |-> m, table |-> c, ok |-> TRUE]
                                                   ELSE Descend(w[k - 1], Digit(v, k))]
<1>1. GetOrCreate(m, c, v) = W[Last]
  BY DEF GetOrCreate
<1>2. Last \in Nat /\ start \in Walkers
  BY VMMConstants DEF Walkers
<1>3. \A k \in 1 .. Last : Digit(v, k) \in Index
  BY DigitType, VMMConstants
<1>4. F \in [1 .. Last -> [Walkers -> Walkers]]
  BY <1>3, DescendType
<1> HIDE DEF start
<1>5. PICK g : IsRun(g, Walkers, Last, start, F)
  BY <1>2, <1>4, LoopRuns
<1>6. \A k \in 1 .. Last : g[k] = Descend(g[k - 1], Digit(v, k))
  <2> TAKE k \in 1 .. Last
  <2>1. k - 1 \in 0 .. Last
    BY <1>2
  <2>2. g[k - 1] \in Walkers /\ g[k] = F[k][g[k - 1]]
    BY <1>5, <2>1 DEF IsRun
  <2> QED BY <2>2
<1>7. g[0] = start /\ g = [k \in 0 .. Last |-> g[k]] /\ \A k \in 0 .. Last : g[k] \in Walkers
  BY <1>5 DEF IsRun
<1>8. g = [k \in 0 .. Last |-> IF k = 0 THEN start ELSE Descend(g[k - 1], Digit(v, k))]
  <2>1. ASSUME NEW k \in 0 .. Last
        PROVE  g[k] = IF k = 0 THEN start ELSE Descend(g[k - 1], Digit(v, k))
    <3>1. CASE k = 0
      BY <1>7, <3>1
    <3>2. CASE k # 0
      <4>1. k \in 1 .. Last
        BY <3>2, <1>2
      <4> QED BY <1>6, <3>2, <4>1
    <3> QED BY <3>1, <3>2
  <2> QED BY <1>7, <2>1
<1>9. W = [k \in 0 .. Last |-> IF k = 0 THEN start ELSE Descend(W[k - 1], Digit(v, k))]
  BY <1>8 DEF start
<1> HIDE DEF W
<1>10. W[0] = start /\ \A k \in 1 .. Last : W[k] = Descend(W[k - 1], Digit(v, k))
  BY <1>2, <1>9
<1>11. \A k \in 0 .. Last : W[k] \in Walkers
  <2>1. \A k \in 1 .. Last : W[k - 1] \in Walkers => W[k] \in Walkers
    BY <1>3, <1>10, DescendType
  <2> QED BY <1>2, <1>10, <2>1, LoopKeeps
<1> QED BY <1>1, <1>10, <1>11 DEF start

\* Entries of the top tables that are there stay.
Tops(m, m2, C) == \A d \in C, i \in Index : m.tab[d][i] # NoEntry => m2.tab[d][i] # NoEntry

\* Tables may have been added; the pages are what they were.
Grown(D, m, C, X, D2, m2) ==
  /\ Sound(D2, m2, C, X) /\ Tops(m, m2, C)
  /\ \A x \in Frame : IsLeaf(D2, m2, x) <=> IsLeaf(D, m, x)
  /\ \A d \in C, u \in Nat : GetPte(m2, d, u) = GetPte(m, d, u)

LEMMA GrownTwice ==
  ASSUME NEW D, NEW m, NEW C, NEW X, NEW D1, NEW m1, NEW D2, NEW m2,
         Grown(D, m, C, X, D1, m1), Grown(D1, m1, C, X, D2, m2)
  PROVE  Grown(D, m, C, X, D2, m2)
BY DEF Grown, Tops

LEMMA LinkGrows ==
  ASSUME NEW D, NEW m, NEW C, NEW X, Sound(D, m, C, X),
         NEW t \in Frame, NEW k \in 1 .. Last, D[t] = k - 1, NEW i \in Index, m.tab[t][i] = NoEntry,
         ~ Copy(C, t, i), NEW new \in m.free, NEW m2, Link(m, m2, t, i, new)
  PROVE  Grown(D, m, C, X, [D EXCEPT ![new] = k], m2)
<1>1. D[t] \in 0 .. Last - 1
  BY VMMConstants
<1>2. /\ Sound([D EXCEPT ![new] = k], m2, C, X)
      /\ \A x \in Frame : IsLeaf([D EXCEPT ![new] = k], m2, x) <=> IsLeaf(D, m, x)
  BY LinkSound
<1>3. \A d \in C, u \in Nat : GetPte(m2, d, u) = GetPte(m, d, u)
  BY <1>1, LinkViews
<1>4. Tops(m, m2, C)
  <2>1. ASSUME NEW d \in C, NEW j \in Index, m.tab[d][j] # NoEntry PROVE m2.tab[d][j] # NoEntry
    <3>1. d \in Frame /\ d # new
      <4>1. d \in Frame
        BY SoundParts
      <4>2. new \notin C
        BY FreeDepth
      <4> QED BY <4>1, <4>2
    <3>2. m2.tab[d][j] = m.tab[d][j]
      BY <2>1, <3>1 DEF Link
    <3> QED BY <2>1, <3>2
  <2> QED BY <2>1 DEF Tops
<1> QED BY <1>2, <1>3, <1>4 DEF Grown

\* One step of the walk, in the tables it finds or adds.
LEMMA DescendGrows ==
  ASSUME NEW D, NEW C, NEW X, NEW w \in Walkers, Sound(D, w.mem, C, X),
         NEW c \in C, NEW v \in Nat, Reach(w.mem, c, v), NEW k \in 1 .. Last,
         w.ok => Walk(w.mem, c, v)[k - 1] = w.table
  PROVE  LET w2 == Descend(w, Digit(v, k))
         IN  \E D2 : /\ Grown(D, w.mem, C, X, D2, w2.mem)
                     /\ w2.ok => Walk(w2.mem, c, v)[k] = w2.table
<1> DEFINE m == w.mem
           t == w.table
           i == Digit(v, k)
           here == m.tab[t][i].frame
           w2 == Descend(w, i)
           new == PmmChoice(m.free, 1)
<1>0. /\ m \in Memories /\ t \in Frame /\ w.ok \in BOOLEAN /\ c \in Frame
      /\ k \in 0 .. Last /\ k - 1 \in 0 .. Last /\ k \in 1 .. LEVELS /\ 0 \notin Frame
  <2>1. m \in Memories /\ t \in Frame /\ w.ok \in BOOLEAN
    BY DEF Walkers
  <2>2. c \in Frame
    BY SoundParts
  <2>3. k \in 0 .. Last /\ k - 1 \in 0 .. Last /\ k \in 1 .. LEVELS /\ 0 \notin Frame
    BY VMMConstants DEF Frame
  <2> QED BY <2>1, <2>2, <2>3
<1>1. i \in Index
  BY <1>0, DigitType
<1>2. Grown(D, m, C, X, D, m)
  BY DEF Grown, Tops
<1>3. CASE ~ w.ok
  BY <1>2, <1>3 DEF Descend
<1>4. CASE w.ok /\ here # 0
  <2>1. w2 = [w EXCEPT !.table = here]
    BY <1>4 DEF Descend
  <2>2. w2.mem = m /\ w2.table = here
    <3> HIDE DEF here
    <3> QED BY <2>1 DEF Walkers
  <2>3. Walk(m, c, v)[k] = here
    <3>1. Walk(m, c, v)[k] = Below(m, Walk(m, c, v)[k - 1], i)
      BY <1>0, WalkSteps
    <3> QED BY <1>0, <1>4, <3>1 DEF Below
  <2> QED BY <1>2, <2>2, <2>3
<1>5. CASE w.ok /\ here = 0 /\ m.free = {}
  <2>1. w2 = [w EXCEPT !.ok = FALSE]
    BY <1>5 DEF Descend
  <2>2. w2.mem = m /\ ~ w2.ok
    BY <2>1 DEF Walkers
  <2> QED BY <1>2, <2>2
<1>6. CASE w.ok /\ here = 0 /\ m.free # {}
  <2>1. w2 = AddTable(w, i, new)
    BY <1>6 DEF Descend
  <2>2. new \in m.free /\ new \in Frame
    <3>1. m.free \in SUBSET Frame
      BY <1>0 DEF Memories
    <3> QED BY <1>6, <3>1, PmmTakesOne
  <2>3. D[t] = k - 1
    BY <1>0, <1>6, WalkDepth
  <2>4. m.tab[t][i] = NoEntry
    BY <1>0, <1>1, <1>6, EntryType
  <2>5. new # t
    <3>1. D[new] = NULL
      BY <2>2, FreeDepth
    <3> QED BY <1>0, <2>3, <3>1 DEF NULL
  <2>6. ~ Copy(C, t, i)
    <3>1. SUFFICES ASSUME t \in C, t # KERNEL, i \in Upper PROVE FALSE
      BY DEF Copy
    <3>2. D[t] = 0
      BY <1>0, <3>1, SoundPlaces
    <3>3. k = 1 /\ k - 1 = 0
      BY <1>0, <2>3, <3>2
    <3>4. t = c
      BY <1>0, <1>6, <3>3, WalkSteps
    <3>5. m.tab[c][i] # NoEntry
      BY <3>1, <3>3, <3>4 DEF Reach, Own
    <3> QED BY <2>4, <3>4, <3>5
  <2>7. Link(m, w2.mem, t, i, new) /\ w2.table = new
    <3>1. Link(m, AddTable(w, i, new).mem, t, i, new)
      BY <1>0, <1>1, <2>2, <2>5, LinkIs
    <3>2. AddTable(w, i, new).table = new
      BY DEF AddTable
    <3> QED BY <2>1, <3>1, <3>2
  <2> HIDE DEF w2, new, i, t, m
  <2>8. Grown(D, m, C, X, [D EXCEPT ![new] = k], w2.mem)
    BY <1>0, <1>1, <2>2, <2>3, <2>4, <2>6, <2>7, LinkGrows DEF m
  <2>9. Walk(w2.mem, c, v)[k] = new
    <3>1. D[t] \in 0 .. Last - 1
      BY <2>3, VMMConstants
    <3>2. Walk(m, c, v)[k - 1] # 0 => Walk(w2.mem, c, v)[k - 1] = Walk(m, c, v)[k - 1]
      BY <1>0, <1>1, <2>2, <2>4, <2>7, <3>1, LinkViews DEF m
    <3>3. Walk(w2.mem, c, v)[k - 1] = t
      BY <1>0, <1>6, <3>2 DEF m, t
    <3>4. w2.mem \in Memories /\ w2.mem.tab[t][i] = Pte(new, "kernel")
      BY <1>0, <1>1, <2>5, <2>7 DEF Link
    <3>5. Walk(w2.mem, c, v)[k] = Below(w2.mem, t, i)
      <4>1. Walk(w2.mem, c, v)[k] = Below(w2.mem, Walk(w2.mem, c, v)[k - 1], Digit(v, k))
        BY <1>0, <3>4, WalkSteps
      <4> QED BY <3>3, <4>1 DEF i
    <3> QED BY <1>0, <3>4, <3>5 DEF Below, Pte
  <2> QED BY <2>7, <2>8, <2>9 DEF w2, i, m
<1> QED BY <1>0, <1>3, <1>4, <1>5, <1>6

\* vmm_get_or_create_table finds the last table, or has only added some.
LEMMA CreateGrows ==
  ASSUME NEW D, NEW m, NEW C, NEW X, Sound(D, m, C, X), NEW c \in C, NEW v \in Nat, Reach(m, c, v)
  PROVE  LET w == GetOrCreate(m, c, v)
         IN  /\ w \in Walkers
             /\ w.ok => TableOf(w.mem, c, v) = w.table
             /\ \E D2 : Grown(D, m, C, X, D2, w.mem)
<1>1. m \in Memories /\ c \in Frame /\ Last \in Nat
  <2>1. m \in Memories /\ c \in Frame
    BY SoundParts
  <2> QED BY <2>1, VMMConstants
<1>2. PICK w : /\ w[0] = [mem |-> m, table |-> c, ok |-> TRUE]
               /\ \A k \in 1 .. Last : w[k] = Descend(w[k - 1], Digit(v, k))
               /\ \A k \in 0 .. Last : w[k] \in Walkers
               /\ GetOrCreate(m, c, v) = w[Last]
  BY <1>1, DescendSteps
<1> DEFINE S == {k \in 0 .. Last : /\ \E D2 : Grown(D, m, C, X, D2, w[k].mem)
                                   /\ w[k].ok => Walk(w[k].mem, c, v)[k] = w[k].table}
<1>3. 0 \in S
  <2>1. Grown(D, m, C, X, D, m)
    BY DEF Grown, Tops
  <2>2. Walk(m, c, v)[0] = c
    BY <1>1, WalkSteps
  <2> QED BY <1>1, <1>2, <2>1, <2>2
<1>4. ASSUME NEW k \in 1 .. Last, k - 1 \in S PROVE k \in S
  <2>1. k \in 0 .. Last /\ k - 1 \in 0 .. Last
    BY <1>1
  <2>2. PICK a : a = w[k - 1]
    OBVIOUS
  <2>3. a \in Walkers /\ w[k] = Descend(a, Digit(v, k))
    BY <1>2, <2>1, <2>2
  <2>4. PICK D1 : Grown(D, m, C, X, D1, a.mem)
    BY <1>4, <2>2
  <2>5. a.ok => Walk(a.mem, c, v)[k - 1] = a.table
    BY <1>4, <2>2
  <2>6. Sound(D1, a.mem, C, X)
    BY <2>4 DEF Grown
  <2>7. Reach(a.mem, c, v)
    <3>1. Digit(v, 1) \in Index
      BY DigitType, VMMConstants
    <3> QED BY <2>4, <3>1 DEF Grown, Tops, Reach
  <2> HIDE DEF S
  <2>8. PICK b : b = Descend(a, Digit(v, k))
    OBVIOUS
  <2>9. \E D2 : Grown(D1, a.mem, C, X, D2, b.mem) /\ (b.ok => Walk(b.mem, c, v)[k] = b.table)
    <3>1. a \in Walkers
      BY <2>3
    <3>2. LET w2 == Descend(a, Digit(v, k))
          IN  \E D2 : Grown(D1, a.mem, C, X, D2, w2.mem) /\ (w2.ok => Walk(w2.mem, c, v)[k] = w2.table)
      BY <2>5, <2>6, <2>7, <3>1, DescendGrows
    <3> QED BY <2>8, <3>2
  <2>10. PICK D2 : Grown(D1, a.mem, C, X, D2, b.mem) /\ (b.ok => Walk(b.mem, c, v)[k] = b.table)
    BY <2>9
  <2>11. Grown(D, m, C, X, D2, b.mem)
    BY <2>4, <2>10, GrownTwice
  <2>12. w[k] = b
    BY <2>3, <2>8
  <2> QED BY <2>1, <2>10, <2>11, <2>12 DEF S
<1> HIDE DEF S
<1>5. \A k \in 0 .. Last : k \in S
  BY <1>1, <1>3, <1>4, CountUp
<1>6. Last \in S /\ Last \in 0 .. Last
  BY <1>1, <1>5
<1>7. /\ w[Last] \in Walkers
      /\ \E D2 : Grown(D, m, C, X, D2, w[Last].mem)
      /\ w[Last].ok => TableOf(w[Last].mem, c, v) = w[Last].table
  BY <1>2, <1>6 DEF S, TableOf
<1>8. PICK b : b = w[Last]
  OBVIOUS
<1> QED BY <1>2, <1>7

-------------------------------------------------------------------------------
(***************************************************************************)
(* vmm_map_page.                                                           *)
(***************************************************************************)
LEMMA GrownReach ==
  ASSUME NEW m, NEW C, NEW m2, Tops(m, m2, C), NEW c \in C, NEW v \in Nat, Reach(m, c, v)
  PROVE  Reach(m2, c, v)
<1>1. Digit(v, 1) \in Index
  BY DigitType, VMMConstants
<1> QED BY <1>1 DEF Tops, Reach

\* It writes the entry it finds empty, or only adds tables.
LEMMA MapPageIs ==
  ASSUME NEW D, NEW m, NEW C, NEW X, Sound(D, m, C, X), NEW c \in C, NEW v \in Nat, Reach(m, c, v),
         NEW pte, NEW r, r = MapPage(m, c, v, pte)
  PROVE  /\ r.ok \in BOOLEAN
         /\ \E D2, m2 :
              /\ Grown(D, m, C, X, D2, m2)
              /\ \/ r.mem = m2 /\ (r.ok => GetPte(m, c, v) = pte)
                 \/ /\ r.ok /\ GetPte(m2, c, v) = NoEntry /\ TableOf(m2, c, v) # 0
                    /\ r.mem = SetPte(m2, TableOf(m2, c, v), v, pte)
<1>1. PICK w : w = GetOrCreate(m, c, v)
  OBVIOUS
<1>2. w \in Walkers /\ (w.ok => TableOf(w.mem, c, v) = w.table)
  BY <1>1, CreateGrows
<1>3. \E D2 : Grown(D, m, C, X, D2, w.mem)
  BY <1>1, CreateGrows
<1>4. PICK D2 : Grown(D, m, C, X, D2, w.mem)
  BY <1>3
<1>5. w.mem \in Memories /\ w.table \in Frame /\ w.ok \in BOOLEAN /\ w.table # 0
  BY <1>2 DEF Walkers, Frame
<1>6. GetPte(w.mem, c, v) = GetPte(m, c, v)
  BY <1>4 DEF Grown
<1>7. w.ok => PteIn(w.mem, w.table, v) = GetPte(w.mem, c, v)
  BY <1>2 DEF GetPte
<1>8. r = SetNewPte(w, v, pte)
  BY <1>1 DEF MapPage
<1>9. CASE w.ok /\ PteIn(w.mem, w.table, v) = NoEntry
  <2>1. r = [mem |-> SetPte(w.mem, w.table, v, pte), ok |-> TRUE]
    BY <1>8, <1>9 DEF SetNewPte
  <2>2. r.ok /\ r.mem = SetPte(w.mem, TableOf(w.mem, c, v), v, pte)
    BY <1>2, <1>9, <2>1
  <2>3. r.ok \in BOOLEAN
    BY <2>1
  <2> QED BY <1>2, <1>4, <1>5, <1>7, <1>9, <2>2, <2>3
<1>10. CASE ~ (w.ok /\ PteIn(w.mem, w.table, v) = NoEntry)
  <2>1. r = [mem |-> w.mem, ok |-> w.ok /\ PteIn(w.mem, w.table, v) = pte]
    BY <1>8, <1>10 DEF SetNewPte
  <2>2. r.mem = w.mem /\ r.ok = (w.ok /\ PteIn(w.mem, w.table, v) = pte)
    BY <2>1
  <2>3. r.ok => GetPte(m, c, v) = pte
    BY <1>6, <1>7, <2>2
  <2> QED BY <1>4, <2>2, <2>3
<1> QED BY <1>9, <1>10

\* The first n pages from base of c have been mapped, to frames from first on.
Mapping(D, m, C, X, D2, m2, c, base, first, n, flags) ==
  /\ Sound(D2, m2, C, X) /\ Tops(m, m2, C)
  /\ \A x \in Frame : IsLeaf(D2, m2, x) <=> IsLeaf(D, m, x) \/ x \in Run(first, n)
  /\ \A j \in 0 .. n - 1 : /\ GetPte(m, Home(c, base + j), base + j) = NoEntry
                           /\ GetPte(m2, Home(c, base + j), base + j) = Pte(first + j, flags)
  /\ \A d \in C, u \in Page : Own(d, u) /\ (u \in Run(base, n) => d # Home(c, u)) =>
       GetPte(m2, d, u) = GetPte(m, d, u)

LEMMA GrownMapping ==
  ASSUME NEW D, NEW m, NEW C, NEW X, NEW D2, NEW m2, NEW c, NEW base, NEW first \in Int, NEW flags,
         Grown(D, m, C, X, D2, m2)
  PROVE  Mapping(D, m, C, X, D2, m2, c, base, first, 0, flags)
<1>1. 0 .. 0 - 1 = {} /\ \A x \in Frame : x \in Nat
  BY DEF Frame
<1>2. \A x \in Frame : x \notin Run(first, 0)
  BY DEF Run, Frame
<1> QED BY <1>1, <1>2, SpanGrows, VMMConstants DEF Mapping, Grown, Page

\* Writing the empty entry of a page for a frame held.
LEMMA PutMapping ==
  ASSUME NEW D, NEW m, NEW C, NEW X, Sound(D, m, C, X), NEW c \in C, NEW v \in Page, Reach(m, c, v),
         NEW f \in X, ~ IsLeaf(D, m, f), NEW flags \in {"kernel", "user"},
         GetPte(m, c, v) = NoEntry, TableOf(m, c, v) # 0
  PROVE  Mapping(D, m, C, X, D, SetPte(m, TableOf(m, c, v), v, Pte(f, flags)), c, v, f, 1, flags)
<1> DEFINE t == TableOf(m, c, v)
           i == Digit(v, LEVELS)
           e == Pte(f, flags)
           m2 == SetPte(m, t, v, e)
<1>1. v \in Nat /\ m \in Memories /\ f \in Frame
  <2>1. m \in Memories
    BY SoundParts
  <2>2. f \in Frame
    BY SoundPlaces
  <2> QED BY <2>1, <2>2, SpanGrows, VMMConstants DEF Page
<1>2. t \in Frame /\ D[t] = Last /\ i \in Index /\ t \notin C
  BY <1>1, TableDepth
<1>3. e \in GoodEntry /\ e.frame = f
  BY <1>1, PteType
<1>4. Put(m, m2, t, i, e)
  BY <1>1, <1>2, <1>3, PutIs DEF SetPte
<1>5. m.tab[t][i] = NoEntry
  BY DEF GetPte, PteIn
<1>6. GetPte(m, Home(c, v), v) = NoEntry
  BY <1>1, AtHome
<1>7. GetPte(m2, Home(c, v), v) = e
  BY <1>3, <1>4, PutViews
<1>8. \A d \in C, u \in Page : Own(d, u) /\ (u = v => d # Home(c, v)) => GetPte(m2, d, u) = GetPte(m, d, u)
  BY <1>3, <1>4, PutViews
<1> HIDE DEF t, i, e, m2
<1>9. Sound(D, m2, C, X) /\ \A x \in Frame : IsLeaf(D, m2, x) <=> IsLeaf(D, m, x) \/ x = f
  BY <1>2, <1>3, <1>4, <1>5, PutPage
<1>10. Tops(m, m2, C)
  <2>1. \A d \in C, j \in Index : d \in Frame /\ d # t
    BY <1>2, SoundPlaces
  <2> QED BY <1>4, <2>1 DEF Put, Tops
<1>11. Run(v, 1) = {v} /\ Run(f, 1) = {f}
  BY <1>1 DEF Run, Frame
<1>12. ASSUME NEW j \in 0 .. 1 - 1
       PROVE  GetPte(m, Home(c, v + j), v + j) = NoEntry /\ GetPte(m2, Home(c, v + j), v + j) = Pte(f + j, flags)
  <2>1. j = 0 /\ v + j = v /\ f + j = f
    BY <1>1 DEF Frame
  <2> QED BY <1>6, <1>7, <2>1 DEF e
<1>13. Mapping(D, m, C, X, D, m2, c, v, f, 1, flags)
  BY <1>8, <1>9, <1>10, <1>11, <1>12 DEF Mapping
<1> QED BY <1>13 DEF m2, t, e

LEMMA HomeOwn ==
  ASSUME NEW C, KERNEL \in C, NEW c \in C, NEW v
  PROVE  Home(c, v) \in C /\ Own(Home(c, v), v)
BY DEF Home, Own

LEMMA PageNat ==
  \A v \in Page : v \in Nat
BY SpanGrows, VMMConstants DEF Page

\* What a context maps is a page that is mapped.
LEMMA PteLeaf ==
  ASSUME NEW D, NEW m, NEW C, NEW X, Sound(D, m, C, X), NEW c \in C, NEW v \in Nat,
         NEW x \in Frame, GetPte(m, c, v).frame = x
  PROVE  IsLeaf(D, m, x)
<1>1. TableOf(m, c, v) # 0 /\ 0 \notin Frame
  BY DEF GetPte, PteIn, NoEntry, Frame
<1>2. TableOf(m, c, v) \in Frame /\ Digit(v, LEVELS) \in Index /\ D[TableOf(m, c, v)] = Last
  BY <1>1, TableDepth
<1>3. m.tab[TableOf(m, c, v)][Digit(v, LEVELS)].frame = x
  BY <1>1 DEF GetPte, PteIn
<1> QED BY <1>2, <1>3 DEF IsLeaf

LEMMA MappingMore ==
  ASSUME NEW D, NEW m, NEW C, NEW X, NEW D1, NEW m1, NEW D2, NEW m2, NEW c \in C,
         NEW base \in Nat, NEW first \in Nat, NEW n \in Nat, NEW one \in {0, 1}, NEW flags,
         Mapping(D, m, C, X, D1, m1, c, base, first, n, flags),
         Mapping(D1, m1, C, X, D2, m2, c, base + n, first + n, one, flags),
         Run(base, n + one) \subseteq Page
  PROVE  Mapping(D, m, C, X, D2, m2, c, base, first, n + one, flags)
<1>1. /\ Sound(D1, m1, C, X) /\ Sound(D2, m2, C, X) /\ Tops(m, m1, C) /\ Tops(m1, m2, C)
      /\ \A x \in Frame : IsLeaf(D1, m1, x) <=> IsLeaf(D, m, x) \/ x \in Run(first, n)
      /\ \A x \in Frame : IsLeaf(D2, m2, x) <=> IsLeaf(D1, m1, x) \/ x \in Run(first + n, one)
  BY DEF Mapping
<1>2. \A j \in 0 .. n - 1 : /\ GetPte(m, Home(c, base + j), base + j) = NoEntry
                            /\ GetPte(m1, Home(c, base + j), base + j) = Pte(first + j, flags)
  BY DEF Mapping
<1>3. \A j \in 0 .. one - 1 : /\ GetPte(m1, Home(c, base + n + j), base + n + j) = NoEntry
                              /\ GetPte(m2, Home(c, base + n + j), base + n + j) = Pte(first + n + j, flags)
  BY DEF Mapping
<1>4. \A d \in C, u \in Page : Own(d, u) /\ (u \in Run(base, n) => d # Home(c, u)) =>
        GetPte(m1, d, u) = GetPte(m, d, u)
  BY DEF Mapping
<1>5. \A d \in C, u \in Page : Own(d, u) /\ (u \in Run(base + n, one) => d # Home(c, u)) =>
        GetPte(m2, d, u) = GetPte(m1, d, u)
  BY DEF Mapping
<1>6. \A x \in Int : /\ x \in Run(base, n + one) <=> x \in Run(base, n) \/ x \in Run(base + n, one)
                     /\ x \in Run(first, n + one) <=> x \in Run(first, n) \/ x \in Run(first + n, one)
                     /\ ~ (x \in Run(base, n) /\ x \in Run(base + n, one))
  BY DEF Run
<1>7. \A v : Home(c, v) \in C /\ Own(Home(c, v), v)
  <2>1. KERNEL \in C
    BY <1>1, SoundParts
  <2> QED BY <2>1, HomeOwn
<1>8. \A x \in Frame : IsLeaf(D2, m2, x) <=> IsLeaf(D, m, x) \/ x \in Run(first, n + one)
  <2>1. \A x \in Frame : x \in Int
    BY DEF Frame
  <2> QED BY <1>1, <1>6, <2>1
<1>9. ASSUME NEW j \in 0 .. n + one - 1
      PROVE  /\ GetPte(m, Home(c, base + j), base + j) = NoEntry
             /\ GetPte(m2, Home(c, base + j), base + j) = Pte(first + j, flags)
  <2>1. base + j \in Page
    <3>1. base + j \in Run(base, n + one)
      BY DEF Run
    <3> QED BY <3>1
  <2>2. CASE j \in 0 .. n - 1
    <3>1. base + j \notin Run(base + n, one)
      BY <2>2 DEF Run
    <3>2. GetPte(m2, Home(c, base + j), base + j) = GetPte(m1, Home(c, base + j), base + j)
      BY <1>5, <1>7, <2>1, <3>1
    <3> QED BY <1>2, <2>2, <3>2
  <2>3. CASE j \notin 0 .. n - 1
    <3>1. one = 1 /\ j = n /\ base + n + 0 = base + j /\ first + n + 0 = first + j /\ 0 \in 0 .. one - 1
      BY <2>3
    <3>2. /\ GetPte(m1, Home(c, base + j), base + j) = NoEntry
          /\ GetPte(m2, Home(c, base + j), base + j) = Pte(first + j, flags)
      BY <1>3, <3>1
    <3>3. base + j \notin Run(base, n)
      BY <3>1 DEF Run
    <3>4. GetPte(m1, Home(c, base + j), base + j) = GetPte(m, Home(c, base + j), base + j)
      BY <1>4, <1>7, <2>1, <3>3
    <3> QED BY <3>2, <3>4
  <2> QED BY <2>2, <2>3
<1>10. ASSUME NEW d \in C, NEW u \in Page, Own(d, u), u \in Run(base, n + one) => d # Home(c, u)
       PROVE  GetPte(m2, d, u) = GetPte(m, d, u)
  <2>1. u \in Int
    BY PageNat
  <2>2. GetPte(m1, d, u) = GetPte(m, d, u)
    BY <1>4, <1>6, <1>10, <2>1
  <2>3. GetPte(m2, d, u) = GetPte(m1, d, u)
    BY <1>5, <1>6, <1>10, <2>1
  <2> QED BY <2>2, <2>3
<1>11. Tops(m, m2, C)
  BY <1>1 DEF Tops
<1> QED BY <1>1, <1>8, <1>9, <1>10, <1>11 DEF Mapping

\* A frame held and not mapped is mapped, or nothing is.
LEMMA PageMapped ==
  ASSUME NEW D, NEW m, NEW C, NEW X, Sound(D, m, C, X), NEW c \in C, NEW v \in Page, Reach(m, c, v),
         NEW f \in X, ~ IsLeaf(D, m, f), NEW flags \in {"kernel", "user"},
         NEW r, r = MapPage(m, c, v, Pte(f, flags))
  PROVE  /\ r.ok \in BOOLEAN
         /\ \E D2 : Mapping(D, m, C, X, D2, r.mem, c, v, f, IF r.ok THEN 1 ELSE 0, flags)
<1> DEFINE pte == Pte(f, flags)
<1>0. v \in Nat /\ f \in Frame /\ f \in Nat
  <2>1. f \in Frame
    BY SoundPlaces
  <2> QED BY <2>1, PageNat DEF Frame
<1>1. pte.frame = f
  BY <1>0, PteType
<1> HIDE DEF pte
<1>2. r = MapPage(m, c, v, pte)
  BY DEF pte
<1>3. /\ r.ok \in BOOLEAN
      /\ \E D2, m2 :
           /\ Grown(D, m, C, X, D2, m2)
           /\ \/ r.mem = m2 /\ (r.ok => GetPte(m, c, v) = pte)
              \/ /\ r.ok /\ GetPte(m2, c, v) = NoEntry /\ TableOf(m2, c, v) # 0
                 /\ r.mem = SetPte(m2, TableOf(m2, c, v), v, pte)
  BY <1>0, <1>2, MapPageIs
<1>4. PICK D2, m2 :
        /\ Grown(D, m, C, X, D2, m2)
        /\ \/ r.mem = m2 /\ (r.ok => GetPte(m, c, v) = pte)
           \/ /\ r.ok /\ GetPte(m2, c, v) = NoEntry /\ TableOf(m2, c, v) # 0
              /\ r.mem = SetPte(m2, TableOf(m2, c, v), v, pte)
  BY <1>3
<1>5. CASE r.mem = m2 /\ (r.ok => GetPte(m, c, v) = pte)
  <2>1. ~ r.ok
    <3>1. SUFFICES ASSUME r.ok PROVE FALSE
      OBVIOUS
    <3>2. GetPte(m, c, v).frame = f
      BY <1>1, <1>5, <3>1
    <3> QED BY <1>0, <3>2, PteLeaf
  <2>2. Mapping(D, m, C, X, D2, m2, c, v, f, 0, flags)
    BY <1>0, <1>4, GrownMapping
  <2> QED BY <1>3, <1>5, <2>1, <2>2
<1>6. CASE /\ r.ok /\ GetPte(m2, c, v) = NoEntry /\ TableOf(m2, c, v) # 0
           /\ r.mem = SetPte(m2, TableOf(m2, c, v), v, pte)
  <2>1. Sound(D2, m2, C, X) /\ Tops(m, m2, C) /\ ~ IsLeaf(D2, m2, f)
    BY <1>0, <1>4 DEF Grown
  <2>2. Reach(m2, c, v)
    BY <1>0, <2>1, GrownReach
  <2>3. Mapping(D2, m2, C, X, D2, r.mem, c, v, f, 1, flags)
    BY <1>6, <2>1, <2>2, PutMapping DEF pte
  <2>4. Mapping(D, m, C, X, D2, m2, c, v, f, 0, flags)
    BY <1>0, <1>4, GrownMapping
  <2>5. v + 0 = v /\ f + 0 = f /\ 0 + 1 = 1 /\ Run(v, 1) = {v}
    BY <1>0 DEF Run
  <2>6. Mapping(D2, m2, C, X, D2, r.mem, c, v + 0, f + 0, 1, flags) /\ Run(v, 0 + 1) \subseteq Page
    BY <2>3, <2>5
  <2>7. Mapping(D, m, C, X, D2, r.mem, c, v, f, 0 + 1, flags)
    BY <1>0, <2>4, <2>6, MappingMore
  <2>8. Mapping(D, m, C, X, D2, r.mem, c, v, f, 1, flags)
    BY <2>5, <2>7
  <2> QED BY <1>3, <1>6, <2>8
<1> QED BY <1>4, <1>5, <1>6

-------------------------------------------------------------------------------
(***************************************************************************)
(* vmm_unmap_page and the loops that call it.                              *)
(***************************************************************************)
FramesOf(m, c, P) == {x \in Frame : \E v \in P : GetPte(m, c, v).frame = x}

\* The n pages from base on have been unmapped; their frames are held now.
Cutting(D, m, C, X, m2, c, base, n) ==
  /\ Sound(D, m2, C, X \cup FramesOf(m, c, Run(base, n))) /\ Tops(m, m2, C)
  /\ \A x \in Frame :
       IsLeaf(D, m2, x) <=> IsLeaf(D, m, x) /\ x \notin FramesOf(m, c, Run(base, n))
  /\ \A v \in Run(base, n) : GetPte(m2, Home(c, v), v) = NoEntry
  /\ \A d \in C, u \in Page : Own(d, u) /\ (u \in Run(base, n) => d # Home(c, u)) =>
       GetPte(m2, d, u) = GetPte(m, d, u)

LEMMA UnmapType ==
  ASSUME NEW m \in Memories, NEW c \in Frame, NEW v \in Nat
  PROVE  UnmapPage(m, c, v) \in Memories
<1> DEFINE t == TableOf(m, c, v)
<1>1. t \in {0} \cup Frame
  BY WalkSteps, VMMConstants DEF TableOf
<1>2. Digit(v, LEVELS) \in Index
  BY DigitType, VMMConstants
<1>3. CASE IsMapped(m, c, v)
  <2>1. t # 0
    BY <1>3 DEF IsMapped, GetPte, PteIn
  <2>2. SetPte(m, t, v, NoEntry) \in Memories
    BY <1>1, <1>2, <2>1, PutIs DEF SetPte, Put, GoodEntry
  <2> QED BY <1>3, <2>2 DEF UnmapPage
<1>4. CASE ~ IsMapped(m, c, v)
  BY <1>4 DEF UnmapPage
<1> QED BY <1>3, <1>4

LEMMA UnmapCuts ==
  ASSUME NEW D, NEW m, NEW C, NEW X, Sound(D, m, C, X), NEW c \in C, NEW v \in Page, Reach(m, c, v),
         NEW m2, m2 = UnmapPage(m, c, v)
  PROVE  Cutting(D, m, C, X, m2, c, v, 1)
<1>0. v \in Nat /\ Run(v, 1) = {v} /\ m \in Memories /\ 0 \notin Frame
  <2>1. v \in Nat
    BY PageNat
  <2>2. m \in Memories
    BY SoundParts
  <2> QED BY <2>1, <2>2 DEF Run, Frame
<1>1. /\ Home(c, v) \in C /\ Own(Home(c, v), v)
      /\ TableOf(m, c, v) = TableOf(m, Home(c, v), v) /\ GetPte(m, c, v) = GetPte(m, Home(c, v), v)
  BY <1>0, AtHome
<1>2. CASE ~ IsMapped(m, c, v)
  <2>1. m2 = m /\ GetPte(m, c, v) = NoEntry
    BY <1>2 DEF UnmapPage, IsMapped
  <2>2. FramesOf(m, c, Run(v, 1)) = {}
    BY <1>0, <2>1 DEF FramesOf, NoEntry
  <2>3. X \cup {} = X
    OBVIOUS
  <2>4. Tops(m, m2, C)
    BY <2>1 DEF Tops
  <2>5. \A u \in Run(v, 1) : GetPte(m2, Home(c, u), u) = NoEntry
    BY <1>0, <1>1, <2>1
  <2> QED BY <2>1, <2>2, <2>3, <2>4, <2>5 DEF Cutting
<1>3. CASE IsMapped(m, c, v)
  <2> DEFINE t == TableOf(m, c, v)
             i == Digit(v, LEVELS)
             old == GetPte(m, c, v).frame
  <2>1. t # 0 /\ GetPte(m, c, v) = m.tab[t][i] /\ m2 = SetPte(m, t, v, NoEntry)
    BY <1>3 DEF IsMapped, GetPte, PteIn, UnmapPage
  <2>2. t \in Frame /\ D[t] = Last /\ i \in Index /\ t \notin C /\ old \in {0} \cup Frame /\ old # 0
    BY <1>0, <1>3, <2>1, TableDepth DEF IsMapped
  <2>3. NoEntry \in GoodEntry
    BY DEF GoodEntry
  <2>4. Put(m, m2, t, i, NoEntry)
    BY <1>0, <2>1, <2>2, <2>3, PutIs DEF SetPte
  <2>5. GetPte(m2, Home(c, v), v) = NoEntry
    BY <2>1, <2>3, <2>4, PutViews
  <2>6. \A d \in C, u \in Page : Own(d, u) /\ (u = v => d # Home(c, v)) => GetPte(m2, d, u) = GetPte(m, d, u)
    BY <2>1, <2>3, <2>4, PutViews
  <2>7. old \in Frame /\ m.tab[t][i].frame = old
    BY <2>1, <2>2
  <2>8. FramesOf(m, c, Run(v, 1)) = {old}
    BY <1>0, <2>7 DEF FramesOf
  <2> HIDE DEF t, i, old
  <2>9. Sound(D, m2, C, X \cup {old}) /\ \A x \in Frame : IsLeaf(D, m2, x) <=> IsLeaf(D, m, x) /\ x # old
    BY <2>2, <2>4, <2>7, PutNone
  <2>10. Tops(m, m2, C)
    <3>1. \A d \in C, j \in Index : d \in Frame /\ d # t
      BY <2>2, SoundPlaces
    <3> QED BY <2>4, <3>1 DEF Put, Tops
  <2> QED BY <1>0, <2>5, <2>6, <2>8, <2>9, <2>10 DEF Cutting
<1> QED BY <1>2, <1>3

LEMMA CuttingMore ==
  ASSUME NEW D, NEW m, NEW C, NEW X, Sound(D, m, C, X), NEW m1, NEW m2, NEW c \in C,
         NEW base \in Nat, NEW n \in Nat, Run(base, n + 1) \subseteq Page,
         \A v \in Run(base, n + 1) : Reach(m, c, v),
         Cutting(D, m, C, X, m1, c, base, n),
         Cutting(D, m1, C, X \cup FramesOf(m, c, Run(base, n)), m2, c, base + n, 1)
  PROVE  Cutting(D, m, C, X, m2, c, base, n + 1)
<1> DEFINE v == base + n
           P == Run(base, n)
           S == FramesOf(m, c, P)
           T == FramesOf(m1, c, Run(v, 1))
<1>1. /\ Run(v, 1) = {v} /\ Run(base, n + 1) = P \cup {v} /\ v \notin P /\ v \in Nat
  BY DEF Run
<1>2. v \in Page
  BY <1>1
<1>3. /\ Sound(D, m1, C, X \cup S) /\ Tops(m, m1, C)
      /\ \A x \in Frame : IsLeaf(D, m1, x) <=> IsLeaf(D, m, x) /\ x \notin S
      /\ \A u \in P : GetPte(m1, Home(c, u), u) = NoEntry
      /\ \A d \in C, u \in Page : Own(d, u) /\ (u \in P => d # Home(c, u)) =>
           GetPte(m1, d, u) = GetPte(m, d, u)
  BY DEF Cutting
<1>4. /\ Sound(D, m2, C, (X \cup S) \cup T) /\ Tops(m1, m2, C)
      /\ \A x \in Frame : IsLeaf(D, m2, x) <=> IsLeaf(D, m1, x) /\ x \notin T
      /\ \A u \in Run(v, 1) : GetPte(m2, Home(c, u), u) = NoEntry
      /\ \A d \in C, u \in Page : Own(d, u) /\ (u \in Run(v, 1) => d # Home(c, u)) =>
           GetPte(m2, d, u) = GetPte(m1, d, u)
  BY DEF Cutting
<1>5. Reach(m, c, v) /\ Reach(m1, c, v)
  <2>1. Reach(m, c, v)
    BY <1>1
  <2> QED BY <1>1, <1>3, <2>1, GrownReach
<1>6. \A u : Home(c, u) \in C /\ Own(Home(c, u), u)
  <2>1. KERNEL \in C
    BY SoundParts
  <2> QED BY <2>1, HomeOwn
<1>7. GetPte(m1, c, v) = GetPte(m, c, v)
  <2>1. GetPte(m, c, v) = GetPte(m, Home(c, v), v)
    BY <1>1, <1>5, AtHome
  <2>2. GetPte(m1, c, v) = GetPte(m1, Home(c, v), v)
    BY <1>1, <1>3, <1>5, AtHome
  <2>3. GetPte(m1, Home(c, v), v) = GetPte(m, Home(c, v), v)
    BY <1>1, <1>2, <1>3, <1>6
  <2> QED BY <2>1, <2>2, <2>3
<1>8. FramesOf(m, c, Run(base, n + 1)) = S \cup T
  BY <1>1, <1>7 DEF FramesOf
<1> HIDE DEF v, P, S, T
<1>9. (X \cup S) \cup T = X \cup (S \cup T)
  OBVIOUS
<1>10. Tops(m, m2, C)
  BY <1>3, <1>4 DEF Tops
<1>11. \A x \in Frame : IsLeaf(D, m2, x) <=> IsLeaf(D, m, x) /\ x \notin S \cup T
  BY <1>3, <1>4
<1>12. ASSUME NEW u \in Run(base, n + 1) PROVE GetPte(m2, Home(c, u), u) = NoEntry
  <2>1. CASE u = v
    BY <1>1, <1>4, <2>1
  <2>2. CASE u # v
    <3>1. u \in P /\ u \notin Run(v, 1) /\ u \in Page
      BY <1>1, <2>2
    <3> QED BY <1>3, <1>4, <1>6, <3>1
  <2> QED BY <2>1, <2>2
<1>13. ASSUME NEW d \in C, NEW u \in Page, Own(d, u), u \in Run(base, n + 1) => d # Home(c, u)
       PROVE  GetPte(m2, d, u) = GetPte(m, d, u)
  BY <1>1, <1>3, <1>4, <1>13
<1> QED BY <1>4, <1>8, <1>9, <1>10, <1>11, <1>12, <1>13 DEF Cutting

LEMMA UnmapSteps ==
  ASSUME NEW m \in Memories, NEW c \in Frame, NEW base \in Nat, NEW n \in Nat
  PROVE  \E u : /\ u[0] = m
                /\ \A k \in 1 .. n : u[k] = UnmapPage(u[k - 1], c, base + k - 1)
                /\ UnmapPages(m, c, base, n) = u[n]
<1> DEFINE F == [k \in 1 .. n |-> [x \in Memories |-> UnmapPage(x, c, base + k - 1)]]
           W == CHOOSE u : u = [k \in 0 .. n |-> IF k = 0 THEN m ELSE UnmapPage(u[k - 1], c, base + k - 1)]
<1>1. UnmapPages(m, c, base, n) = W[n]
  BY DEF UnmapPages
<1>2. F \in [1 .. n -> [Memories -> Memories]]
  <2>1. ASSUME NEW k \in 1 .. n, NEW x \in Memories PROVE UnmapPage(x, c, base + k - 1) \in Memories
    <3>1. base + k - 1 \in Nat
      OBVIOUS
    <3> QED BY <3>1, UnmapType
  <2> QED BY <2>1
<1>3. PICK g : IsRun(g, Memories, n, m, F)
  BY <1>2, LoopRuns
<1>4. \A k \in 1 .. n : g[k] = UnmapPage(g[k - 1], c, base + k - 1)
  <2> TAKE k \in 1 .. n
  <2>1. k - 1 \in 0 .. n
    OBVIOUS
  <2>2. g[k - 1] \in Memories /\ g[k] = F[k][g[k - 1]]
    BY <1>3, <2>1 DEF IsRun
  <2> QED BY <2>2
<1>5. g[0] = m /\ g = [k \in 0 .. n |-> g[k]]
  BY <1>3 DEF IsRun
<1>6. g = [k \in 0 .. n |-> IF k = 0 THEN m ELSE UnmapPage(g[k - 1], c, base + k - 1)]
  <2>1. ASSUME NEW k \in 0 .. n
        PROVE  g[k] = IF k = 0 THEN m ELSE UnmapPage(g[k - 1], c, base + k - 1)
    <3>1. CASE k = 0
      BY <1>5, <3>1
    <3>2. CASE k # 0
      <4>1. k \in 1 .. n
        BY <3>2
      <4> QED BY <1>4, <3>2, <4>1
    <3> QED BY <3>1, <3>2
  <2> QED BY <1>5, <2>1
<1>7. W = [k \in 0 .. n |-> IF k = 0 THEN m ELSE UnmapPage(W[k - 1], c, base + k - 1)]
  BY <1>6
<1> HIDE DEF W
<1>8. W[0] = m /\ \A k \in 1 .. n : W[k] = UnmapPage(W[k - 1], c, base + k - 1)
  BY <1>7
<1> QED BY <1>1, <1>8

LEMMA UnmapPagesCuts ==
  ASSUME NEW D, NEW m, NEW C, NEW X, Sound(D, m, C, X), NEW c \in C,
         NEW base \in Nat, NEW n \in Nat, Run(base, n) \subseteq Page,
         \A v \in Run(base, n) : Reach(m, c, v)
  PROVE  Cutting(D, m, C, X, UnmapPages(m, c, base, n), c, base, n)
<1>1. m \in Memories /\ c \in Frame
  BY SoundParts
<1>2. PICK u : /\ u[0] = m
               /\ \A k \in 1 .. n : u[k] = UnmapPage(u[k - 1], c, base + k - 1)
               /\ UnmapPages(m, c, base, n) = u[n]
  BY <1>1, UnmapSteps
<1> DEFINE S == {k \in 0 .. n : Cutting(D, m, C, X, u[k], c, base, k)}
<1>3. 0 \in S
  <2>1. Run(base, 0) = {}
    BY DEF Run
  <2>2. FramesOf(m, c, Run(base, 0)) = {} /\ X \cup {} = X
    BY <2>1 DEF FramesOf
  <2>3. Tops(m, m, C)
    BY DEF Tops
  <2>4. Cutting(D, m, C, X, m, c, base, 0)
    BY <2>1, <2>2, <2>3 DEF Cutting
  <2> QED BY <1>2, <2>4
<1>4. ASSUME NEW k \in 1 .. n, k - 1 \in S PROVE k \in S
  <2>1. PICK l : l = k - 1
    OBVIOUS
  <2>2. l \in Nat /\ k = l + 1 /\ base + k - 1 = base + l /\ k \in 0 .. n
    BY <2>1
  <2>3. Run(base, l + 1) \subseteq Run(base, n) /\ base + l \in Run(base, l + 1)
    BY <2>2 DEF Run
  <2>4. PICK m1 : m1 = u[l]
    OBVIOUS
  <2>5. Cutting(D, m, C, X, m1, c, base, l)
    BY <1>4, <2>1, <2>4
  <2>6. PICK m2 : m2 = u[k]
    OBVIOUS
  <2>7. m2 = UnmapPage(m1, c, base + l)
    BY <1>2, <2>1, <2>2, <2>4, <2>6
  <2> HIDE DEF S
  <2>8. base + l \in Page /\ Reach(m, c, base + l) /\ base + l \in Nat
    BY <2>2, <2>3
  <2>9. Sound(D, m1, C, X \cup FramesOf(m, c, Run(base, l))) /\ Tops(m, m1, C)
    BY <2>5 DEF Cutting
  <2>10. Reach(m1, c, base + l)
    BY <2>8, <2>9, GrownReach
  <2>11. Cutting(D, m1, C, X \cup FramesOf(m, c, Run(base, l)), m2, c, base + l, 1)
    BY <2>7, <2>8, <2>9, <2>10, UnmapCuts
  <2>12. Cutting(D, m, C, X, m2, c, base, l + 1)
    BY <2>2, <2>3, <2>5, <2>11, CuttingMore
  <2>13. Cutting(D, m, C, X, u[k], c, base, k)
    BY <2>2, <2>6, <2>12
  <2> QED BY <2>2, <2>13 DEF S
<1> HIDE DEF S
<1>5. \A k \in 0 .. n : k \in S
  BY <1>3, <1>4, CountUp
<1>6. n \in S
  BY <1>5
<1> QED BY <1>2, <1>6 DEF S

-------------------------------------------------------------------------------
(***************************************************************************)
(* Mapping a run of frames, page by page, and its rollback.                *)
(***************************************************************************)
\* The pages of c that a run of frames is to be mapped at can be reached, and
\* the frames are held and not mapped.
Ready(D, m, C, X, c, base, first, n) ==
  /\ Run(base, n) \subseteq Page /\ Run(first, n) \subseteq X
  /\ \A x \in Run(first, n) : ~ IsLeaf(D, m, x)
  /\ \A v \in Run(base, n) : Reach(m, c, v)

MapLoops(n) == [mem : Memories, ok : BOOLEAN, done : 0 .. n]

\* What holds of a, after k turns of the loop.
LoopAt(D, m, C, X, c, base, first, n, flags, k, a) ==
  /\ a \in MapLoops(n) /\ a.done <= k /\ (a.ok => a.done = k)
  /\ \E D1 : Mapping(D, m, C, X, D1, a.mem, c, base, first, a.done, flags)

LEMMA MapNextGrows ==
  ASSUME NEW D, NEW m, NEW C, NEW X, NEW c \in C, NEW base \in Nat, NEW first \in Nat, NEW n \in Nat,
         NEW flags \in {"kernel", "user"}, Ready(D, m, C, X, c, base, first, n),
         NEW k \in 1 .. n, NEW a, LoopAt(D, m, C, X, c, base, first, n, flags, k - 1, a),
         NEW b, b = MapNext(a, c, base, first, flags)
  PROVE  LoopAt(D, m, C, X, c, base, first, n, flags, k, b)
<1>4. /\ a \in MapLoops(n) /\ a.done <= k - 1 /\ (a.ok => a.done = k - 1)
      /\ \E D1 : Mapping(D, m, C, X, D1, a.mem, c, base, first, a.done, flags)
  BY DEF LoopAt
<1>0. a.mem \in Memories /\ a.ok \in BOOLEAN /\ a.done \in 0 .. n /\ a.done <= k - 1 /\ (a.ok => a.done = k - 1)
  BY <1>4 DEF MapLoops
<1>3. /\ Run(base, n) \subseteq Page /\ Run(first, n) \subseteq X
      /\ \A x \in Run(first, n) : ~ IsLeaf(D, m, x)
      /\ \A v \in Run(base, n) : Reach(m, c, v)
  BY DEF Ready
<1>1. CASE ~ a.ok
  <2>1. b = a
    BY <1>1 DEF MapNext
  <2>2. b.done <= k
    BY <1>0, <2>1
  <2> QED BY <1>1, <1>4, <2>1, <2>2 DEF LoopAt
<1>2. CASE a.ok
  <2> DEFINE j == a.done
             v == base + j
             f == first + j
  <2>1. j = k - 1 /\ j \in Nat /\ j + 1 <= n /\ j \in 0 .. n - 1
    BY <1>0, <1>2
  <2>2. PICK D1 : Mapping(D, m, C, X, D1, a.mem, c, base, first, j, flags)
    BY <1>4
  <2>3. PICK one : one = MapPage(a.mem, c, v, Pte(f, flags))
    OBVIOUS
  <2>4. b = [mem |-> one.mem, ok |-> one.ok, done |-> j + (IF one.ok THEN 1 ELSE 0)]
    BY <1>2, <2>3 DEF MapNext
  <2>5. v \in Run(base, n) /\ f \in Run(first, n) /\ f \notin Run(first, j)
        /\ Run(base, j + 1) \subseteq Run(base, n) /\ Run(base, j + 0) \subseteq Run(base, n)
    BY <2>1 DEF Run
  <2> HIDE DEF v, f, j
  <2>6. v \in Page /\ v \in Nat /\ f \in X /\ f \in Frame
    <3>1. X \subseteq Frame
      BY <2>2, SoundParts DEF Mapping
    <3>2. v \in Page /\ f \in X
      BY <1>3, <2>5
    <3> QED BY <3>1, <3>2, PageNat
  <2>7. Sound(D1, a.mem, C, X) /\ Tops(m, a.mem, C) /\ ~ IsLeaf(D1, a.mem, f)
    BY <1>3, <2>2, <2>5, <2>6 DEF Mapping
  <2>8. Reach(a.mem, c, v)
    BY <1>3, <2>5, <2>6, <2>7, GrownReach
  <2>9. one.ok \in BOOLEAN /\ \E D2 : Mapping(D1, a.mem, C, X, D2, one.mem, c, v, f, IF one.ok THEN 1 ELSE 0, flags)
    BY <2>3, <2>6, <2>7, <2>8, PageMapped
  <2>10. PICK D2 : Mapping(D1, a.mem, C, X, D2, one.mem, c, v, f, IF one.ok THEN 1 ELSE 0, flags)
    BY <2>9
  <2>11. PICK l : l = IF one.ok THEN 1 ELSE 0
    OBVIOUS
  <2>12. l \in {0, 1} /\ Run(base, j + l) \subseteq Page
    BY <1>3, <2>5, <2>11
  <2>13. Mapping(D1, a.mem, C, X, D2, one.mem, c, base + j, first + j, l, flags)
    BY <2>10, <2>11 DEF v, f
  <2>14. Mapping(D, m, C, X, D2, one.mem, c, base, first, j + l, flags)
    BY <2>1, <2>2, <2>12, <2>13, MappingMore
  <2>15. one.mem \in Memories
    <3>1. Sound(D2, one.mem, C, X)
      BY <2>14 DEF Mapping
    <3> QED BY <3>1, SoundParts
  <2>16. b.mem = one.mem /\ b.ok = one.ok /\ b.done = j + l
    BY <2>4, <2>11
  <2>17. j + l \in 0 .. n /\ j + l <= k /\ (one.ok => j + l = k)
    BY <2>1, <2>11
  <2>18. b \in MapLoops(n)
    <3>1. b = [mem |-> one.mem, ok |-> one.ok, done |-> j + l]
      BY <2>4, <2>11
    <3> QED BY <2>9, <2>15, <2>17, <3>1 DEF MapLoops
  <2> QED BY <2>14, <2>16, <2>17, <2>18 DEF LoopAt
<1> QED BY <1>1, <1>2

LEMMA MapLoop ==
  ASSUME NEW D, NEW m, NEW C, NEW X, Sound(D, m, C, X), NEW c \in C,
         NEW base \in Nat, NEW first \in Nat, NEW n \in Nat,
         NEW flags \in {"kernel", "user"}, Ready(D, m, C, X, c, base, first, n)
  PROVE  \E a : /\ a \in MapLoops(n) /\ (a.ok => a.done = n)
                /\ \E D2 : Mapping(D, m, C, X, D2, a.mem, c, base, first, a.done, flags)
                /\ MapRun(m, c, base, first, n, flags) = RollBack(a, c, base)
<1> DEFINE S == MapLoops(n)
           start == [mem |-> m, ok |-> TRUE, done |-> 0]
           G(a) == MapNext(a, c, base, first, flags)
           F == [k \in 1 .. n |-> [a \in S |-> IF G(a) \in S THEN G(a) ELSE a]]
           W == CHOOSE a : a = [k \in 0 .. n |-> IF k = 0 THEN [mem |-> m, ok |-> TRUE, done |-> 0]
                                                ELSE MapNext(a[k - 1], c, base, first, flags)]
<1>1. MapRun(m, c, base, first, n, flags) = RollBack(W[n], c, base)
  BY DEF MapRun
<1>2. start \in S /\ start.mem = m /\ start.ok /\ start.done = 0
  <2>1. m \in Memories
    BY SoundParts
  <2> QED BY <2>1 DEF MapLoops
<1>3. F \in [1 .. n -> [S -> S]]
  <2> HIDE DEF S, G
  <2> QED OBVIOUS
<1> HIDE DEF start
<1>4. PICK g : IsRun(g, S, n, start, F)
  <2> HIDE DEF S, F
  <2> QED BY <1>2, <1>3, LoopRuns
<1> DEFINE Q == {k \in 0 .. n : /\ LoopAt(D, m, C, X, c, base, first, n, flags, k, g[k])
                                /\ k # 0 => g[k] = G(g[k - 1])}
<1>5. g[0] = start /\ g = [k \in 0 .. n |-> g[k]] /\ \A k \in 0 .. n : g[k] \in S
  <2> HIDE DEF S, F
  <2> QED BY <1>4 DEF IsRun
<1>6. 0 \in Q
  <2>1. Grown(D, m, C, X, D, m)
    BY DEF Grown, Tops
  <2>2. Mapping(D, m, C, X, D, m, c, base, first, 0, flags)
    BY <2>1, GrownMapping
  <2>3. LoopAt(D, m, C, X, c, base, first, n, flags, 0, start)
    BY <1>2, <2>2 DEF LoopAt
  <2> QED BY <1>5, <2>3
<1>7. ASSUME NEW k \in 1 .. n, k - 1 \in Q PROVE k \in Q
  <2>0. k \in 0 .. n /\ k - 1 \in 0 .. n /\ k # 0
    OBVIOUS
  <2>1. PICK a : a = g[k - 1]
    OBVIOUS
  <2>2. PICK b : b = G(a)
    OBVIOUS
  <2>3. a \in S
    BY <1>5, <2>0, <2>1
  <2>4. LoopAt(D, m, C, X, c, base, first, n, flags, k - 1, a)
    BY <1>7, <2>1
  <2>5. g[k] = F[k][a]
    <3> HIDE DEF S, F
    <3> QED BY <1>4, <2>1 DEF IsRun
  <2> HIDE DEF Q
  <2>6. LoopAt(D, m, C, X, c, base, first, n, flags, k, b) /\ b \in S
    <3>1. b = MapNext(a, c, base, first, flags)
      BY <2>2
    <3> HIDE DEF S, G, F, W
    <3>2. LoopAt(D, m, C, X, c, base, first, n, flags, k, b)
      BY <2>4, <3>1, MapNextGrows
    <3> QED BY <3>2 DEF S, LoopAt
  <2> HIDE DEF S, G
  <2>7. g[k] = b
    BY <2>2, <2>3, <2>5, <2>6
  <2> QED BY <2>0, <2>1, <2>2, <2>6, <2>7 DEF Q
<1> HIDE DEF Q
<1>8. \A k \in 0 .. n : k \in Q
  BY <1>6, <1>7, CountUp
<1>9. \A k \in 1 .. n : g[k] = MapNext(g[k - 1], c, base, first, flags)
  <2> TAKE k \in 1 .. n
  <2>1. k \in Q /\ k # 0
    BY <1>8
  <2> QED BY <2>1 DEF Q
<1>10. g = [k \in 0 .. n |-> IF k = 0 THEN start ELSE MapNext(g[k - 1], c, base, first, flags)]
  <2>1. ASSUME NEW k \in 0 .. n
        PROVE  g[k] = IF k = 0 THEN start ELSE MapNext(g[k - 1], c, base, first, flags)
    <3>1. CASE k = 0
      BY <1>5, <3>1
    <3>2. CASE k # 0
      <4>1. k \in 1 .. n
        BY <3>2
      <4> QED BY <1>9, <3>2, <4>1
    <3> QED BY <3>1, <3>2
  <2> QED BY <1>5, <2>1
<1>11. W = [k \in 0 .. n |-> IF k = 0 THEN start ELSE MapNext(W[k - 1], c, base, first, flags)]
  BY <1>10 DEF start
<1> HIDE DEF W
<1>12. W[0] = start /\ \A k \in 1 .. n : W[k] = MapNext(W[k - 1], c, base, first, flags)
  BY <1>11
<1> DEFINE P == {k \in 0 .. n : W[k] = g[k]}
<1>13. 0 \in P
  BY <1>5, <1>12
<1>14. ASSUME NEW k \in 1 .. n, k - 1 \in P PROVE k \in P
  <2>1. W[k - 1] = g[k - 1] /\ k \in 0 .. n
    BY <1>14
  <2> QED BY <1>9, <1>12, <2>1
<1> HIDE DEF P
<1>15. \A k \in 0 .. n : k \in P
  BY <1>13, <1>14, CountUp
<1>16. n \in P /\ n \in Q /\ n \in 0 .. n
  BY <1>8, <1>15
<1>17. W[n] = g[n] /\ g[n] \in S /\ (g[n].ok => g[n].done = n)
       /\ \E D2 : Mapping(D, m, C, X, D2, g[n].mem, c, base, first, g[n].done, flags)
  BY <1>5, <1>16 DEF P, Q, LoopAt
<1> QED BY <1>1, <1>17

\* The rollback takes back what the loop mapped, and leaves the tables.
LEMMA MapUndo ==
  ASSUME NEW D, NEW m, NEW C, NEW X, NEW c \in C, NEW base \in Nat, NEW first \in Nat, NEW n \in Nat,
         NEW flags \in {"kernel", "user"}, Ready(D, m, C, X, c, base, first, n),
         NEW D1, NEW m1, Mapping(D, m, C, X, D1, m1, c, base, first, n, flags)
  PROVE  Mapping(D, m, C, X, D1, UnmapPages(m1, c, base, n), c, base, first, 0, flags)
<1> DEFINE m2 == UnmapPages(m1, c, base, n)
           S == FramesOf(m1, c, Run(base, n))
<1>1. /\ Run(base, n) \subseteq Page /\ Run(first, n) \subseteq X
      /\ \A x \in Run(first, n) : ~ IsLeaf(D, m, x)
      /\ \A v \in Run(base, n) : Reach(m, c, v)
  BY DEF Ready
<1>2. /\ Sound(D1, m1, C, X) /\ Tops(m, m1, C)
      /\ \A x \in Frame : IsLeaf(D1, m1, x) <=> IsLeaf(D, m, x) \/ x \in Run(first, n)
      /\ \A j \in 0 .. n - 1 : /\ GetPte(m, Home(c, base + j), base + j) = NoEntry
                               /\ GetPte(m1, Home(c, base + j), base + j) = Pte(first + j, flags)
      /\ \A d \in C, u \in Page : Own(d, u) /\ (u \in Run(base, n) => d # Home(c, u)) =>
           GetPte(m1, d, u) = GetPte(m, d, u)
  BY DEF Mapping
<1>3. X \subseteq Frame
  BY <1>2, SoundParts
<1>4. \A v \in Run(base, n) : Reach(m1, c, v) /\ v \in Page /\ v \in Nat
  BY <1>1, <1>2, GrownReach, PageNat
<1>5. Cutting(D1, m1, C, X, m2, c, base, n)
  BY <1>1, <1>2, <1>4, UnmapPagesCuts
<1> HIDE DEF m2
<1>6. /\ Sound(D1, m2, C, X \cup S) /\ Tops(m1, m2, C)
      /\ \A x \in Frame : IsLeaf(D1, m2, x) <=> IsLeaf(D1, m1, x) /\ x \notin S
      /\ \A v \in Run(base, n) : GetPte(m2, Home(c, v), v) = NoEntry
      /\ \A d \in C, u \in Page : Own(d, u) /\ (u \in Run(base, n) => d # Home(c, u)) =>
           GetPte(m2, d, u) = GetPte(m1, d, u)
  BY <1>5 DEF Cutting
<1>7. ASSUME NEW j \in 0 .. n - 1 PROVE GetPte(m1, c, base + j).frame = first + j
  <2>1. base + j \in Run(base, n) /\ first + j \in Run(first, n)
    BY DEF Run
  <2>2. GetPte(m1, c, base + j) = GetPte(m1, Home(c, base + j), base + j)
    BY <1>2, <1>4, <2>1, AtHome
  <2>3. GetPte(m1, c, base + j) = Pte(first + j, flags) /\ first + j \in Frame
    BY <1>1, <1>2, <1>3, <2>1, <2>2
  <2> QED BY <2>3, PteType
<1>8. S = Run(first, n)
  <2>1. ASSUME NEW x \in S PROVE x \in Run(first, n)
    <3>1. PICK v \in Run(base, n) : GetPte(m1, c, v).frame = x
      BY <2>1 DEF FramesOf
    <3>2. v - base \in 0 .. n - 1 /\ base + (v - base) = v
      BY DEF Run
    <3>3. x = first + (v - base)
      BY <1>7, <3>1, <3>2
    <3> QED BY <3>2, <3>3 DEF Run
  <2>2. ASSUME NEW x \in Run(first, n) PROVE x \in S
    <3>1. x - first \in 0 .. n - 1 /\ first + (x - first) = x
      BY DEF Run
    <3>2. GetPte(m1, c, base + (x - first)).frame = x
      BY <1>7, <3>1
    <3>3. base + (x - first) \in Run(base, n)
      BY <3>1 DEF Run
    <3>4. x \in Frame
      BY <1>1, <1>3
    <3> QED BY <3>2, <3>3, <3>4 DEF FramesOf
  <2> QED BY <2>1, <2>2
<1> HIDE DEF S
<1>9. X \cup S = X
  BY <1>1, <1>8
<1>10. \A x \in Frame : IsLeaf(D1, m2, x) <=> IsLeaf(D, m, x)
  BY <1>1, <1>2, <1>6, <1>8
<1>11. ASSUME NEW d \in C, NEW u \in Page, Own(d, u) PROVE GetPte(m2, d, u) = GetPte(m, d, u)
  <2>1. CASE u \in Run(base, n) /\ d = Home(c, u)
    <3>1. u - base \in 0 .. n - 1 /\ base + (u - base) = u
      BY <2>1 DEF Run
    <3>2. GetPte(m, Home(c, u), u) = NoEntry
      BY <1>2, <3>1
    <3> QED BY <1>6, <2>1, <3>2
  <2>2. CASE ~ (u \in Run(base, n) /\ d = Home(c, u))
    BY <1>2, <1>6, <1>11, <2>2
  <2> QED BY <2>1, <2>2
<1>12. Tops(m, m2, C)
  BY <1>2, <1>6 DEF Tops
<1>13. Run(first, 0) = {} /\ 0 .. 0 - 1 = {}
  BY DEF Run
<1>14. Mapping(D, m, C, X, D1, m2, c, base, first, 0, flags)
  BY <1>6, <1>9, <1>10, <1>11, <1>12, <1>13 DEF Mapping
<1> QED BY <1>14 DEF m2

\* The first n pages are mapped, or none is.
Tried(D, m, C, X, r, c, base, first, n, flags) ==
  /\ r.ok \in BOOLEAN /\ r = [mem |-> r.mem, ok |-> r.ok, done |-> r.done]
  /\ \E D2 : Mapping(D, m, C, X, D2, r.mem, c, base, first, IF r.ok THEN n ELSE 0, flags)

LEMMA MapRunTries ==
  ASSUME NEW D, NEW m, NEW C, NEW X, Sound(D, m, C, X), NEW c \in C,
         NEW base \in Nat, NEW first \in Nat, NEW n \in Nat,
         NEW flags \in {"kernel", "user"}, Ready(D, m, C, X, c, base, first, n),
         NEW r, r = MapRun(m, c, base, first, n, flags)
  PROVE  Tried(D, m, C, X, r, c, base, first, n, flags)
<1>1. PICK a : /\ a \in MapLoops(n) /\ (a.ok => a.done = n)
               /\ \E D2 : Mapping(D, m, C, X, D2, a.mem, c, base, first, a.done, flags)
               /\ MapRun(m, c, base, first, n, flags) = RollBack(a, c, base)
  BY MapLoop
<1>2. a.mem \in Memories /\ a.ok \in BOOLEAN /\ a.done \in 0 .. n /\ a = [mem |-> a.mem, ok |-> a.ok, done |-> a.done]
  BY <1>1 DEF MapLoops
<1>3. PICK D1 : Mapping(D, m, C, X, D1, a.mem, c, base, first, a.done, flags)
  BY <1>1
<1>4. CASE a.ok
  <2>1. r = a /\ a.done = n
    BY <1>1, <1>4 DEF RollBack
  <2>2. Mapping(D, m, C, X, D1, r.mem, c, base, first, n, flags)
    BY <1>3, <2>1
  <2> QED BY <1>2, <1>4, <2>1, <2>2 DEF Tried
<1>5. CASE ~ a.ok
  <2>1. PICK m2 : m2 = UnmapPages(a.mem, c, base, a.done)
    OBVIOUS
  <2>2. r = [a EXCEPT !.mem = m2]
    BY <1>1, <1>5, <2>1 DEF RollBack
  <2>3. r.mem = m2 /\ r.ok = a.ok /\ r = [mem |-> r.mem, ok |-> r.ok, done |-> r.done]
    BY <1>2, <2>2
  <2>4. Ready(D, m, C, X, c, base, first, a.done) /\ a.done \in Nat
    <3>1. Run(base, a.done) \subseteq Run(base, n) /\ Run(first, a.done) \subseteq Run(first, n) /\ a.done \in Nat
      BY <1>2 DEF Run
    <3> QED BY <3>1 DEF Ready
  <2>5. Mapping(D, m, C, X, D1, m2, c, base, first, 0, flags)
    BY <1>3, <2>1, <2>4, MapUndo
  <2> QED BY <1>2, <1>5, <2>3, <2>5 DEF Tried
<1> QED BY <1>2, <1>4, <1>5

\* vmm_alloc_pages, vmm_reserve_region and the page fault: a run of frames that
\* is free is mapped, or goes back.
LEMMA AllocRunTries ==
  ASSUME NEW D, NEW m, NEW C, NEW X, Sound(D, m, C, X), NEW c \in C,
         NEW base \in Nat, NEW first \in Nat, NEW n \in Nat, NEW flags \in {"kernel", "user"},
         Run(base, n) \subseteq Page, Run(first, n) \subseteq m.free,
         \A v \in Run(base, n) : Reach(m, c, v),
         NEW r, r = AllocRun(m, c, base, first, n, flags)
  PROVE  Tried(D, m, C, X, r, c, base, first, n, flags)
<1> DEFINE S == Run(first, n)
           m1 == Taken(m, S)
           Y == X \cup S
<1>1. Sound(D, m1, C, Y) /\ \A x \in S : x \in Frame /\ x \notin X /\ ~ IsLeaf(D, m, x)
  <2>1. S \subseteq m.free
    OBVIOUS
  <2> HIDE DEF S
  <2>2. Sound(D, Taken(m, S), C, X \cup S) /\ \A x \in S : x \in Frame /\ x \notin X /\ ~ IsLeaf(D, m, x)
    BY <2>1, TakenSound
  <2> QED BY <2>2
<1>2. m1.tab = m.tab
  <2>1. m \in Memories /\ m.free \subseteq Frame
    BY SoundParts
  <2>2. S \in SUBSET Frame
    BY <2>1
  <2> QED BY <2>1, <2>2, TakenIs
<1> HIDE DEF m1
<1>3. /\ \A x : IsLeaf(D, m1, x) <=> IsLeaf(D, m, x)
      /\ \A d, u : GetPte(m1, d, u) = GetPte(m, d, u)
  BY <1>2, SameTables
<1>4. Ready(D, m1, C, Y, c, base, first, n)
  <2>1. \A v \in Run(base, n) : Reach(m1, c, v)
    BY <1>2 DEF Reach
  <2> QED BY <1>1, <1>3, <2>1 DEF Ready
<1>5. PICK a : a = MapRun(m1, c, base, first, n, flags)
  OBVIOUS
<1> HIDE DEF Y
<1>6. Tried(D, m1, C, Y, a, c, base, first, n, flags)
  BY <1>1, <1>4, <1>5, MapRunTries
<1>7. PICK l : l = IF a.ok THEN n ELSE 0
  OBVIOUS
<1>8. PICK D2 : Mapping(D, m1, C, Y, D2, a.mem, c, base, first, l, flags)
  BY <1>6, <1>7 DEF Tried
<1>9. r = GiveBack(a, S)
  BY <1>5 DEF AllocRun, m1
<1>10. /\ Sound(D2, a.mem, C, Y) /\ Tops(m1, a.mem, C)
       /\ \A x \in Frame : IsLeaf(D2, a.mem, x) <=> IsLeaf(D, m1, x) \/ x \in Run(first, l)
       /\ \A j \in 0 .. l - 1 : /\ GetPte(m1, Home(c, base + j), base + j) = NoEntry
                                /\ GetPte(a.mem, Home(c, base + j), base + j) = Pte(first + j, flags)
       /\ \A d \in C, u \in Page : Own(d, u) /\ (u \in Run(base, l) => d # Home(c, u)) =>
            GetPte(a.mem, d, u) = GetPte(m1, d, u)
  BY <1>8 DEF Mapping
<1>11. Y \ S = X
  BY <1>1 DEF Y
<1>12. ASSUME NEW m2, m2.tab = a.mem.tab, Sound(D2, m2, C, X)
       PROVE  Mapping(D, m, C, X, D2, m2, c, base, first, l, flags)
  <2>1. /\ \A x : IsLeaf(D2, m2, x) <=> IsLeaf(D2, a.mem, x)
        /\ \A d, u : GetPte(m2, d, u) = GetPte(a.mem, d, u)
    BY <1>12, SameTables
  <2>2. Tops(m, m2, C)
    BY <1>2, <1>10, <1>12 DEF Tops
  <2>3. \A x \in Frame : IsLeaf(D2, m2, x) <=> IsLeaf(D, m, x) \/ x \in Run(first, l)
    BY <1>3, <1>10, <2>1
  <2>4. \A j \in 0 .. l - 1 : /\ GetPte(m, Home(c, base + j), base + j) = NoEntry
                              /\ GetPte(m2, Home(c, base + j), base + j) = Pte(first + j, flags)
    BY <1>3, <1>10, <2>1
  <2>5. \A d \in C, u \in Page : Own(d, u) /\ (u \in Run(base, l) => d # Home(c, u)) =>
          GetPte(m2, d, u) = GetPte(m, d, u)
    BY <1>3, <1>10, <2>1
  <2> QED BY <1>12, <2>2, <2>3, <2>4, <2>5 DEF Mapping
<1>13. CASE a.ok
  <2>1. r = a /\ l = n
    BY <1>7, <1>9, <1>13 DEF GiveBack
  <2>2. \A x \in S : IsLeaf(D2, a.mem, x)
    BY <1>1, <1>10, <2>1
  <2>3. Sound(D2, a.mem, C, X)
    <3>1. Sound(D2, a.mem, C, Y \ S)
      BY <1>10, <2>2, DropHeld
    <3> QED BY <1>11, <3>1
  <2> QED BY <1>6, <1>7, <1>12, <2>1, <2>3 DEF Tried
<1>14. CASE ~ a.ok
  <2>1. PICK m2 : m2 = Freed(a.mem, S)
    OBVIOUS
  <2>2. r = [a EXCEPT !.mem = m2] /\ l = 0
    BY <1>7, <1>9, <1>14, <2>1 DEF GiveBack
  <2>3. \A x \in S : ~ IsLeaf(D2, a.mem, x)
    <3>1. Run(first, 0) = {}
      BY DEF Run
    <3> QED BY <1>1, <1>3, <1>10, <2>2, <3>1
  <2>4. S \subseteq Y
    BY DEF Y
  <2> HIDE DEF S
  <2>5. Sound(D2, a.mem, C, Y) /\ X = Y \ S
    BY <1>10, <1>11
  <2>6. Sound(D2, m2, C, X) /\ m2.tab = a.mem.tab
    BY <2>1, <2>3, <2>4, <2>5, FreedSoundAs
  <2>7. Mapping(D, m, C, X, D2, m2, c, base, first, l, flags)
    BY <1>12, <2>6
  <2>8. a = [mem |-> a.mem, ok |-> a.ok, done |-> a.done]
    BY <1>6 DEF Tried
  <2>9. r.mem = m2 /\ r.ok = a.ok /\ r = [mem |-> r.mem, ok |-> r.ok, done |-> r.done]
    BY <2>2, <2>8
  <2> QED BY <1>6, <1>7, <2>7, <2>9 DEF Tried
<1> QED BY <1>6, <1>13, <1>14 DEF Tried

\* vmm_free_pages: the pages are unmapped and their frames free.
Freeing(D, m, C, X, m2, c, base, n) ==
  /\ Sound(D, m2, C, X) /\ Tops(m, m2, C)
  /\ \A x \in Frame : IsLeaf(D, m2, x) => IsLeaf(D, m, x)
  /\ \A v \in Run(base, n) : GetPte(m2, Home(c, v), v) = NoEntry
  /\ \A d \in C, u \in Page : Own(d, u) /\ (u \in Run(base, n) => d # Home(c, u)) =>
       GetPte(m2, d, u) = GetPte(m, d, u)

LEMMA FreePagesFrees ==
  ASSUME NEW D, NEW m, NEW C, NEW X, Sound(D, m, C, X), NEW c \in C,
         NEW base \in Nat, NEW n \in Nat, Run(base, n) \subseteq Page,
         \A v \in Run(base, n) : Reach(m, c, v) /\ GetPte(m, c, v).frame \notin X
  PROVE  Freeing(D, m, C, X, FreePages(m, c, base, n), c, base, n)
<1> DEFINE P == Run(base, n)
           S == FramesOf(m, c, P)
<1>1. PICK m1 : m1 = UnmapPages(m, c, base, n)
  OBVIOUS
<1>2. Cutting(D, m, C, X, m1, c, base, n)
  BY <1>1, UnmapPagesCuts
<1>3. /\ Sound(D, m1, C, X \cup S) /\ Tops(m, m1, C)
      /\ \A x \in Frame : IsLeaf(D, m1, x) <=> IsLeaf(D, m, x) /\ x \notin S
      /\ \A v \in P : GetPte(m1, Home(c, v), v) = NoEntry
      /\ \A d \in C, u \in Page : Own(d, u) /\ (u \in P => d # Home(c, u)) =>
           GetPte(m1, d, u) = GetPte(m, d, u)
  BY <1>2 DEF Cutting
<1>4. {GetPte(m, c, v).frame : v \in P} \ {0} = S
  <2>1. \A v \in P : GetPte(m, c, v).frame \in {0} \cup Frame
    <3>1. \A v \in P : v \in Nat
      BY PageNat
    <3> QED BY <3>1, TableDepth
  <2>2. 0 \notin Frame
    BY DEF Frame
  <2> QED BY <2>1, <2>2 DEF FramesOf
<1>5. FreePages(m, c, base, n) = Freed(m1, S)
  BY <1>1, <1>4 DEF FreePages
<1>6. S \cap X = {} /\ S \subseteq Frame
  BY DEF FramesOf
<1> HIDE DEF S, P
<1>7. PICK m2 : m2 = Freed(m1, S)
  OBVIOUS
<1>9. PICK Y : Y = X \cup S /\ S \subseteq Y /\ X = Y \ S
  <2>1. S \subseteq X \cup S /\ X = (X \cup S) \ S
    BY <1>6
  <2> QED BY <2>1
<1>8. Sound(D, m2, C, X) /\ m2.tab = m1.tab
  <2>1. \A x \in S : ~ IsLeaf(D, m1, x)
    BY <1>3, <1>6
  <2>2. Sound(D, m1, C, Y)
    BY <1>3, <1>9
  <2> QED BY <1>7, <1>9, <2>1, <2>2, FreedSoundAs
<1>10. /\ \A x : IsLeaf(D, m2, x) <=> IsLeaf(D, m1, x)
       /\ \A d, u : GetPte(m2, d, u) = GetPte(m1, d, u)
  BY <1>8, SameTables
<1>11. Tops(m, m2, C)
  BY <1>3, <1>8 DEF Tops
<1>12. Freeing(D, m, C, X, m2, c, base, n)
  BY <1>3, <1>8, <1>10, <1>11 DEF Freeing, P
<1> QED BY <1>5, <1>7, <1>12

-------------------------------------------------------------------------------
(***************************************************************************)
(* vmm_protect: the entries point where they did.                          *)
(***************************************************************************)
SameFrames(D, m, C, X, m2) ==
  /\ Sound(D, m2, C, X) /\ Tops(m, m2, C)
  /\ \A x \in Frame : IsLeaf(D, m2, x) <=> IsLeaf(D, m, x)
  /\ \A d \in C, u \in Nat : GetPte(m2, d, u).frame = GetPte(m, d, u).frame

Reflags == [mem : Memories, ok : BOOLEAN]

LEMMA ReflagSame ==
  ASSUME NEW D, NEW p \in Reflags, NEW C, NEW X, Sound(D, p.mem, C, X),
         NEW c \in C, NEW v \in Nat, NEW flags \in {"kernel", "user"},
         NEW q, q = Reflag(p, c, v, flags)
  PROVE  SameFrames(D, p.mem, C, X, q.mem) /\ q \in Reflags
<1>0. PICK m : m = p.mem
  OBVIOUS
<1>3. m \in Memories /\ p = [mem |-> m, ok |-> p.ok] /\ p.ok \in BOOLEAN
  BY <1>0 DEF Reflags
<1>1. CASE ~ (p.ok /\ IsMapped(m, c, v))
  <2>1. q = [p EXCEPT !.ok = FALSE]
    BY <1>0, <1>1 DEF Reflag
  <2>3. q = [mem |-> m, ok |-> FALSE]
    <3>1. p \in Reflags
      OBVIOUS
    <3> QED BY <1>0, <2>1, <3>1 DEF Reflags
  <2>2. q.mem = m /\ q \in Reflags
    BY <1>3, <2>3 DEF Reflags
  <2>4. SameFrames(D, m, C, X, m)
    BY <1>0 DEF SameFrames, Tops
  <2> QED BY <1>0, <2>2, <2>4
<1>2. CASE p.ok /\ IsMapped(m, c, v)
  <2> DEFINE t == TableOf(m, c, v)
             i == Digit(v, LEVELS)
             e == Pte(GetPte(m, c, v).frame, flags)
             m2 == SetPte(m, t, v, e)
  <2>0. Sound(D, m, C, X) /\ m \in Memories
    BY <1>0, SoundParts
  <2>1. q = [p EXCEPT !.mem = m2]
    BY <1>0, <1>2 DEF Reflag
  <2>3. t # 0 /\ GetPte(m, c, v) = m.tab[t][i]
    BY <1>2 DEF IsMapped, GetPte, PteIn
  <2>4. t \in Frame /\ D[t] = Last /\ i \in Index /\ t \notin C /\ GetPte(m, c, v).frame \in Frame
    BY <1>2, <2>0, <2>3, TableDepth DEF IsMapped
  <2>5. e \in GoodEntry /\ e.frame = m.tab[t][i].frame
    BY <2>3, <2>4, PteType
  <2>6. Put(m, m2, t, i, e)
    BY <2>0, <2>4, <2>5, PutIs DEF SetPte
  <2> HIDE DEF t, i, e, m2
  <2>7. Sound(D, m2, C, X) /\ \A x \in Frame : IsLeaf(D, m2, x) <=> IsLeaf(D, m, x)
    BY <2>0, <2>4, <2>5, <2>6, PutSame
  <2>8. Tops(m, m2, C)
    <3>1. \A d \in C, j \in Index : d \in Frame /\ d # t
      BY <2>0, <2>4, SoundPlaces
    <3> QED BY <2>6, <3>1 DEF Put, Tops
  <2>9. ASSUME NEW d \in C, NEW u \in Nat PROVE GetPte(m2, d, u).frame = GetPte(m, d, u).frame
    <3>1. PICK s : s = TableOf(m, d, u)
      OBVIOUS
    <3>2. TableOf(m2, d, u) = s
      BY <2>0, <2>4, <2>5, <2>6, <3>1, PutWalks
    <3>3. s \in {0} \cup Frame /\ Digit(u, LEVELS) \in Index
      BY <2>0, <3>1, TableDepth
    <3>4. CASE s = 0
      BY <3>1, <3>2, <3>4 DEF GetPte, PteIn
    <3>5. CASE s # 0
      <4>1. s \in Frame /\ GetPte(m, d, u) = m.tab[s][Digit(u, LEVELS)]
            /\ GetPte(m2, d, u) = m2.tab[s][Digit(u, LEVELS)]
        BY <3>1, <3>2, <3>3, <3>5 DEF GetPte, PteIn
      <4>2. m2.tab[s][Digit(u, LEVELS)] =
              IF s = t /\ Digit(u, LEVELS) = i THEN e ELSE m.tab[s][Digit(u, LEVELS)]
        BY <2>6, <3>3, <4>1 DEF Put
      <4> QED BY <2>5, <4>1, <4>2
    <3> QED BY <3>4, <3>5
  <2>2. q.mem = m2 /\ q \in Reflags
    <3>1. m2 \in Memories
      BY <2>7, SoundParts
    <3> QED BY <1>3, <2>1, <3>1 DEF Reflags
  <2>10. SameFrames(D, m, C, X, m2)
    BY <2>7, <2>8, <2>9 DEF SameFrames
  <2> QED BY <1>0, <2>2, <2>10
<1> QED BY <1>1, <1>2

\* The loop of vmm_protect.
LEMMA ProtectSame ==
  ASSUME NEW D, NEW m, NEW C, NEW X, Sound(D, m, C, X), NEW c \in C, NEW v \in Nat, NEW n \in Nat,
         NEW flags \in {"kernel", "user"},
         NEW W, W = CHOOSE p : p = [k \in 0 .. n |-> IF k = 0 THEN [mem |-> m, ok |-> TRUE]
                                                    ELSE Reflag(p[k - 1], c, v + k - 1, flags)]
  PROVE  SameFrames(D, m, C, X, W[n].mem)
<1> DEFINE start == [mem |-> m, ok |-> TRUE]
           G(k, p) == Reflag(p, c, v + k - 1, flags)
           S == {p \in Reflags : SameFrames(D, m, C, X, p.mem)}
           F == [k \in 1 .. n |-> [p \in S |-> G(k, p)]]
<1>1. start \in S
  <2>1. m \in Memories
    BY SoundParts
  <2>2. SameFrames(D, m, C, X, m)
    BY DEF SameFrames, Tops
  <2> QED BY <2>1, <2>2 DEF Reflags
<1>2. ASSUME NEW k \in 1 .. n, NEW p \in S PROVE G(k, p) \in S
  <2>1. p \in Reflags
    OBVIOUS
  <2>2. SameFrames(D, m, C, X, p.mem)
    OBVIOUS
  <2>3. v + k - 1 \in Nat
    OBVIOUS
  <2>4. PICK q : q = Reflag(p, c, v + k - 1, flags)
    OBVIOUS
  <2> HIDE DEF S
  <2>5. Sound(D, p.mem, C, X)
    BY <2>2 DEF SameFrames
  <2>6. SameFrames(D, p.mem, C, X, q.mem) /\ q \in Reflags
    BY <2>1, <2>3, <2>4, <2>5, ReflagSame
  <2>7. SameFrames(D, m, C, X, q.mem)
    BY <2>2, <2>6 DEF SameFrames, Tops
  <2>10. q \in S
    BY <2>6, <2>7 DEF S
  <2> QED BY <2>4, <2>10
<1> HIDE DEF S, G, start
<1>3. F \in [1 .. n -> [S -> S]]
  BY <1>2
<1>4. PICK g : IsRun(g, S, n, start, F)
  <2> HIDE DEF F
  <2> QED BY <1>1, <1>3, LoopRuns
<1>5. g[0] = start /\ g = [k \in 0 .. n |-> g[k]] /\ \A k \in 0 .. n : g[k] \in S
  BY <1>4 DEF IsRun
<1>6. ASSUME NEW k \in 1 .. n PROVE g[k] = G(k, g[k - 1])
  <2>1. k - 1 \in 0 .. n
    OBVIOUS
  <2>2. g[k - 1] \in S /\ g[k] = F[k][g[k - 1]]
    BY <1>4, <2>1 DEF IsRun
  <2> QED BY <2>2
<1>7. g = [k \in 0 .. n |-> IF k = 0 THEN start ELSE G(k, g[k - 1])]
  <2>1. ASSUME NEW k \in 0 .. n
        PROVE  g[k] = IF k = 0 THEN start ELSE G(k, g[k - 1])
    <3>1. CASE k = 0
      BY <1>5, <3>1
    <3>2. CASE k # 0
      <4>1. k \in 1 .. n
        BY <3>2
      <4> QED BY <1>6, <3>2, <4>1
    <3> QED BY <3>1, <3>2
  <2> QED BY <1>5, <2>1
<1>8. W = [k \in 0 .. n |-> IF k = 0 THEN start ELSE G(k, W[k - 1])]
  BY <1>7 DEF start, G
<1> DEFINE H == [k \in 0 .. n |-> IF k = 0 THEN start ELSE G(k, W[k - 1])]
<1>12. H[0] = start /\ \A k \in 1 .. n : H[k] = G(k, W[k - 1])
  OBVIOUS
<1>13. W = H
  BY <1>8
<1> HIDE DEF H
<1>9. W[0] = start /\ \A k \in 1 .. n : W[k] = G(k, W[k - 1])
  BY <1>12, <1>13
<1>10. \A k \in 1 .. n : W[k - 1] \in S => W[k] \in S
  BY <1>2, <1>9
<1>11. \A k \in 0 .. n : W[k] \in S
  BY <1>1, <1>9, <1>10, LoopKeeps
<1> QED BY <1>11 DEF S

-------------------------------------------------------------------------------
(***************************************************************************)
(* A context comes, with the kernel's entries, or goes.                    *)
(***************************************************************************)
\* What a context sees does not depend on the top table of another.
LEMMA OtherViews ==
  ASSUME NEW D, NEW m, NEW C, NEW X, Sound(D, m, C, X), NEW m2 \in Memories,
         NEW c \in Frame, D[c] \in {NULL, 0},
         \A f \in Frame, j \in Index : f # c => m2.tab[f][j] = m.tab[f][j],
         NEW d \in C, d # c, NEW u \in Nat
  PROVE  GetPte(m2, d, u) = GetPte(m, d, u)
<1>1. m \in Memories /\ d \in Frame
  BY SoundParts
<1>2. ASSUME NEW k \in 0 .. Last, Walk(m, d, u)[k] # 0
      PROVE  Walk(m, d, u)[k] \in Frame /\ Walk(m, d, u)[k] # c
  <2>1. Walk(m, d, u)[k] \in Frame /\ D[Walk(m, d, u)[k]] = k
    BY <1>2, WalkDepth
  <2>2. CASE k = 0
    <3>1. Walk(m, d, u)[0] = d
      BY <1>1, WalkSteps
    <3> QED BY <2>1, <2>2, <3>1
  <2>3. CASE k # 0
    <3>1. k # NULL
      BY VMMConstants DEF NULL
    <3> QED BY <2>1, <2>3, <3>1
  <2> QED BY <2>2, <2>3
<1>3. \A k \in 1 .. LEVELS : Digit(u, k) \in Index
  BY DigitType
<1>4. ASSUME NEW k \in 1 .. Last, Walk(m, d, u)[k - 1] # 0
      PROVE  Below(m2, Walk(m, d, u)[k - 1], Digit(u, k)) = Below(m, Walk(m, d, u)[k - 1], Digit(u, k))
  <2>1. k - 1 \in 0 .. Last /\ k \in 1 .. LEVELS
    BY VMMConstants
  <2>2. m2.tab[Walk(m, d, u)[k - 1]][Digit(u, k)] = m.tab[Walk(m, d, u)[k - 1]][Digit(u, k)]
    BY <1>2, <1>3, <1>4, <2>1
  <2> QED BY <2>2 DEF Below
<1>5. TableOf(m2, d, u) = TableOf(m, d, u)
  BY <1>1, <1>4, WalkKeeps
<1>6. PICK s : s = TableOf(m, d, u)
  OBVIOUS
<1>7. s # 0 => s \in Frame /\ s # c
  <2>1. Last \in 0 .. Last
    BY VMMConstants
  <2> QED BY <1>2, <1>6, <2>1 DEF TableOf
<1>8. LEVELS \in 1 .. LEVELS
  BY VMMConstants
<1>9. PteIn(m2, s, u) = PteIn(m, s, u)
  BY <1>3, <1>7, <1>8 DEF PteIn
<1> QED BY <1>5, <1>6, <1>9 DEF GetPte

\* Without an entry in the top table there is no table below it.
LEMMA TopNone ==
  ASSUME NEW m \in Memories, NEW c \in Frame, NEW v \in Nat, m.tab[c][Digit(v, 1)] = NoEntry
  PROVE  GetPte(m, c, v) = NoEntry
<1> DEFINE W == Walk(m, c, v)
           S == {k \in 0 .. Last : k # 0 => W[k] = 0}
<1>1. Last \in Nat /\ Last # 0
  BY VMMConstants
<1>2. W[0] = c /\ \A k \in 1 .. Last : W[k] = Below(m, W[k - 1], Digit(v, k))
  BY WalkSteps
<1> HIDE DEF W
<1>3. 0 \in S
  BY <1>1
<1>4. ASSUME NEW k \in 1 .. Last, k - 1 \in S PROVE k \in S
  <2>1. k \in 0 .. Last
    BY <1>1
  <2>2. CASE k = 1
    <3>1. k - 1 = 0
      BY <2>2
    <3>2. W[k] = Below(m, c, Digit(v, 1))
      BY <1>2, <2>2, <3>1
    <3> QED BY <2>1, <3>2 DEF Below, NoEntry
  <2>3. CASE k # 1
    <3>1. k - 1 # 0
      BY <2>3
    <3>2. W[k - 1] = 0
      BY <1>4, <3>1
    <3> QED BY <1>2, <2>1, <3>2 DEF Below
  <2> QED BY <2>2, <2>3
<1> HIDE DEF S
<1>5. \A k \in 0 .. Last : k \in S
  BY <1>1, <1>3, <1>4, CountUp
<1>6. W[Last] = 0
  BY <1>1, <1>5 DEF S
<1> QED BY <1>6 DEF W, TableOf, GetPte, PteIn

Birth(m, m2, c) ==
  /\ m2 \in Memories /\ m2.free = m.free \ {c} /\ m2.panic \in {m.panic, "unmapped table"}
  /\ \A f \in Frame, j \in Index :
       m2.tab[f][j] = IF f # c THEN m.tab[f][j]
                      ELSE IF j \in Upper THEN m.tab[KERNEL][j] ELSE NoEntry

LEMMA BirthIs ==
  ASSUME NEW m \in Memories, NEW c \in Frame
  PROVE  Birth(m, [NewTable(m, c) EXCEPT !.tab[c] =
                    [i \in Index |-> IF i \in Upper THEN m.tab[KERNEL][i] ELSE NoEntry]], c)
<1> DEFINE row == [i \in Index |-> IF i \in Upper THEN m.tab[KERNEL][i] ELSE NoEntry]
           b1 == [m.tab EXCEPT ![c] = EmptyTable]
           b2 == [b1 EXCEPT ![c] = row]
           p == IF c \in Direct THEN m.panic ELSE "unmapped table"
           m1 == NewTable(m, c)
           m2 == [m1 EXCEPT !.tab[c] = row]
<1>1. /\ m.tab \in [Frame -> [Index -> GoodEntry]] /\ m.free \in SUBSET Frame /\ m.panic \in Panics
      /\ NoEntry \in GoodEntry /\ KERNEL \in Frame
  BY VMMConstants DEF Memories, GoodEntry
<1>2. Taken(m, {c}) \in Memories /\ Taken(m, {c}).tab = m.tab
      /\ Taken(m, {c}).panic = m.panic /\ Taken(m, {c}).free = m.free \ {c}
  BY TakenIs
<1>3. row \in [Index -> GoodEntry] /\ \A j \in Index : row[j] = IF j \in Upper THEN m.tab[KERNEL][j] ELSE NoEntry
  BY <1>1
<1> HIDE DEF row
<1>4. b1 \in [Frame -> [Index -> GoodEntry]] /\ p \in Panics /\ p \in {m.panic, "unmapped table"}
  BY <1>1 DEF EmptyTable, Panics
<1>5. m1 = [Taken(m, {c}) EXCEPT !.tab = b1, !.panic = p]
  BY <1>2 DEF NewTable
<1>6. m1 \in Memories /\ m1.free = m.free \ {c} /\ m1.panic = p /\ m1.tab = b1
  <2> HIDE DEF b1, p, m1
  <2> QED BY <1>2, <1>4, <1>5 DEF Memories
<1>7. \A f \in Frame : b2[f] = IF f = c THEN row ELSE m.tab[f]
  BY <1>1
<1>8. b2 \in [Frame -> [Index -> GoodEntry]]
  BY <1>3, <1>4
<1>9. m2 = [m1 EXCEPT !.tab = b2]
  <2> HIDE DEF m1, b1
  <2> QED BY <1>6
<1> HIDE DEF m1, b1, b2, p
<1>10. m2 \in Memories /\ m2.free = m1.free /\ m2.panic = m1.panic /\ m2.tab = b2
  <2> HIDE DEF m2
  <2> QED BY <1>6, <1>8, <1>9 DEF Memories
<1>11. \A f \in Frame, j \in Index :
         b2[f][j] = IF f # c THEN m.tab[f][j] ELSE IF j \in Upper THEN m.tab[KERNEL][j] ELSE NoEntry
  BY <1>3, <1>7
<1>12. Birth(m, m2, c)
  <2> HIDE DEF m2
  <2> QED BY <1>4, <1>6, <1>10, <1>11 DEF Birth
<1> QED BY <1>12 DEF row, m1, m2

LEMMA BirthSound ==
  ASSUME NEW D, NEW m, NEW C, NEW X, Sound(D, m, C, X), NEW c \in m.free, NEW m2, Birth(m, m2, c)
  PROVE  /\ Sound([D EXCEPT ![c] = 0], m2, C \cup {c}, X)
         /\ \A x \in Frame : IsLeaf([D EXCEPT ![c] = 0], m2, x) <=> IsLeaf(D, m, x)
         /\ \A d \in C, u \in Nat : GetPte(m2, d, u) = GetPte(m, d, u)
         /\ \A u \in Nat : Own(c, u) => GetPte(m2, c, u) = NoEntry
         /\ Tops(m, m2, C) /\ c \in Frame /\ c \notin C /\ c # KERNEL
<1> DEFINE E == [D EXCEPT ![c] = 0]
           B == C \cup {c}
<1>1. /\ m2 \in Memories /\ m2.free = m.free \ {c} /\ m2.panic \in {m.panic, "unmapped table"}
      /\ \A f \in Frame, j \in Index :
           m2.tab[f][j] = IF f # c THEN m.tab[f][j]
                          ELSE IF j \in Upper THEN m.tab[KERNEL][j] ELSE NoEntry
  BY DEF Birth
<1>2. c \in Frame /\ D[c] = NULL /\ c \notin C /\ c \notin X
  BY FreeDepth
<1>3. /\ m \in Memories /\ m.panic # "double free" /\ C \subseteq Frame /\ KERNEL \in C /\ X \subseteq Frame
      /\ KERNEL \in Frame
  BY SoundParts
<1>4. Last \in Nat /\ Last # 0 /\ NULL # 0 /\ NULL \notin 0 .. Last /\ 0 \in 0 .. Last - 1
  BY VMMConstants DEF NULL
<1>5. E \in Depths /\ \A f \in Frame : E[f] = IF f = c THEN 0 ELSE D[f]
  <2>1. D \in Depths
    BY SoundParts
  <2>2. 0 \in {NULL} \cup 0 .. Last
    BY <1>4
  <2> QED BY <1>2, <2>1, <2>2 DEF Depths
<1>6. c # KERNEL
  BY <1>2, <1>3
<1>7. D[KERNEL] = 0
  BY <1>3, SoundPlaces
<1> HIDE DEF E, B
<1>8. Levelled(E, m2)
  <2>1. ASSUME NEW f \in Frame, NEW j \in Index, E[f] \in 0 .. Last - 1, m2.tab[f][j] # NoEntry
        PROVE  E[m2.tab[f][j].frame] = E[f] + 1
    <3>1. PICK g \in Frame : D[g] = E[f] /\ m2.tab[f][j] = m.tab[g][j]
      <4>1. CASE f = c
        <5>1. m2.tab[f][j] = m.tab[KERNEL][j]
          BY <1>1, <2>1, <4>1
        <5> QED BY <1>3, <1>5, <1>7, <4>1, <5>1
      <4>2. CASE f # c
        BY <1>1, <1>5, <4>2
      <4> QED BY <4>1, <4>2
    <3>2. D[m.tab[g][j].frame] = D[g] + 1
      BY <2>1, <3>1, SoundLevels
    <3>3. D[m.tab[g][j].frame] # NULL
      BY <2>1, <3>1, <3>2 DEF NULL
    <3>4. m.tab[g][j].frame \in Frame
      BY <1>3, <2>1, <3>1, EntryType
    <3> QED BY <1>2, <1>5, <3>1, <3>2, <3>3, <3>4
  <2>2. ASSUME NEW g \in Frame, E[g] \in 1 .. Last
        PROVE  \E f \in Frame, j \in Index : E[f] = E[g] - 1 /\ m2.tab[f][j].frame = g
    <3>1. g # c /\ D[g] = E[g]
      BY <1>5, <2>2
    <3>2. PICK f \in Frame, j \in Index : D[f] = D[g] - 1 /\ m.tab[f][j].frame = g
      BY <2>2, <3>1, SoundLevels
    <3>3. f # c
      <4>1. D[f] # NULL
        BY <2>2, <3>1, <3>2 DEF NULL
      <4> QED BY <1>2, <4>1
    <3>4. m2.tab[f][j] = m.tab[f][j] /\ E[f] = D[f]
      BY <1>1, <1>5, <3>3
    <3> QED BY <3>1, <3>2, <3>4
  <2> QED BY <2>1, <2>2 DEF Levelled
<1>9. Copied(m2, B)
  <2>1. ASSUME NEW d \in B, NEW j \in Upper PROVE m2.tab[d][j] \in {NoEntry, m2.tab[KERNEL][j]}
    <3>1. j \in Index
      BY VMMConstants DEF Upper, Index
    <3>2. m2.tab[KERNEL][j] = m.tab[KERNEL][j]
      BY <1>1, <1>3, <1>6, <3>1
    <3>3. CASE d = c
      BY <1>1, <1>2, <3>1, <3>2, <3>3
    <3>4. CASE d # c
      <4>1. d \in C
        BY <3>4 DEF B
      <4>2. m2.tab[d][j] = m.tab[d][j]
        BY <1>1, <1>3, <3>1, <3>4, <4>1
      <4> QED BY <3>2, <4>1, <4>2, SoundLevels
    <3> QED BY <3>3, <3>4
  <2> QED BY <2>1 DEF Copied
<1>10. ASSUME NEW f \in Frame, NEW j \in Index, NEW x \in Frame
       PROVE  Owns(E, m2, B, f, j, x) <=> Owns(D, m, C, f, j, x)
  <2>1. CASE f = c
    <3>1. ~ Owns(D, m, C, f, j, x)
      BY <1>2, <2>1 DEF Owns
    <3>2. CASE j \in Upper
      <4>1. Copy(B, f, j)
        BY <1>6, <2>1, <3>2 DEF Copy, B
      <4> QED BY <3>1, <4>1 DEF Owns
    <3>3. CASE j \notin Upper
      <4>1. m2.tab[f][j] = NoEntry
        BY <1>1, <2>1, <3>3
      <4>2. m2.tab[f][j].frame # x
        BY <4>1 DEF NoEntry, Frame
      <4> QED BY <3>1, <4>2 DEF Owns
    <3> QED BY <3>2, <3>3
  <2>2. CASE f # c
    <3>1. m2.tab[f][j] = m.tab[f][j] /\ E[f] = D[f] /\ (f \in B <=> f \in C)
      BY <1>1, <1>5, <2>2 DEF B
    <3> QED BY <3>1 DEF Owns, Copy
  <2> QED BY <2>1, <2>2
<1>11. OneOwner(E, m2, B)
  BY <1>10, SoundPlaces DEF OneOwner
<1>12. Placed(E, m2, B, X)
  <2>1. \A f \in Frame : E[f] = 0 <=> f \in B
    BY <1>5, SoundPlaces DEF B
  <2>2. ASSUME NEW f \in Frame, NEW j \in Index, NEW x \in Frame, Owns(E, m2, B, f, j, x)
        PROVE  x \notin B /\ x \notin m2.free
    <3>1. Owns(D, m, C, f, j, x)
      BY <1>10, <2>2
    <3>2. x \notin C /\ x \notin m.free
      BY <3>1, SoundPlaces
    <3> QED BY <1>1, <3>2 DEF B
  <2>3. ASSUME NEW x \in X PROVE E[x] = NULL /\ x \notin m2.free
    <3>1. x \in Frame /\ D[x] = NULL /\ x \notin m.free
      BY SoundPlaces
    <3> QED BY <1>1, <1>2, <1>5, <3>1
  <2>4. ASSUME NEW x \in B PROVE x \notin m2.free
    <3>1. x # c => x \notin m.free
      BY SoundPlaces DEF B
    <3> QED BY <1>1, <3>1
  <2>5. ASSUME NEW x \in Frame, x \notin m2.free \cup B \cup X
        PROVE  \E f \in Frame, j \in Index : Owns(E, m2, B, f, j, x)
    <3>1. x \notin m.free \cup C \cup X
      <4>1. m2.free = m.free \ {c}
        BY <1>1
      <4> QED BY <2>5, <4>1 DEF B
    <3>2. PICK f \in Frame, j \in Index : Owns(D, m, C, f, j, x)
      BY <3>1, SoundPlaces
    <3> QED BY <1>10, <3>2
  <2> QED BY <2>1, <2>2, <2>3, <2>4, <2>5 DEF Placed
<1>13. ASSUME NEW x \in Frame PROVE IsLeaf(E, m2, x) <=> IsLeaf(D, m, x)
  <2>1. ASSUME NEW f \in Frame, NEW j \in Index
        PROVE  E[f] = Last /\ m2.tab[f][j].frame = x <=> D[f] = Last /\ m.tab[f][j].frame = x
    <3>1. Last # NULL
      BY <1>4
    <3>2. CASE f = c
      BY <1>2, <1>4, <1>5, <3>1, <3>2
    <3>3. CASE f # c
      BY <1>1, <1>5, <3>3
    <3> QED BY <3>2, <3>3
  <2> QED BY <2>1 DEF IsLeaf
<1>14. Sound(E, m2, B, X)
  <2>1. m2.panic # "double free"
    BY <1>1, <1>3
  <2>2. B \subseteq Frame /\ KERNEL \in B
    BY <1>2, <1>3 DEF B
  <2> QED BY <1>1, <1>3, <1>5, <1>8, <1>9, <1>11, <1>12, <2>1, <2>2 DEF Sound
<1>15. ASSUME NEW d \in C, NEW u \in Nat PROVE GetPte(m2, d, u) = GetPte(m, d, u)
  <2>1. d # c
    BY <1>2
  <2>2. \A f \in Frame, j \in Index : f # c => m2.tab[f][j] = m.tab[f][j]
    BY <1>1
  <2>3. m2 \in Memories /\ c \in Frame /\ D[c] \in {NULL, 0}
    BY <1>1, <1>2
  <2> QED BY <2>1, <2>2, <2>3, OtherViews
<1>16. ASSUME NEW u \in Nat, Own(c, u) PROVE GetPte(m2, c, u) = NoEntry
  <2>1. Digit(u, 1) \in Index /\ Digit(u, 1) \notin Upper
    <3>1. Digit(u, 1) \in Index
      BY DigitType, VMMConstants
    <3> QED BY <1>6, <1>16, <3>1 DEF Own
  <2>2. m2.tab[c][Digit(u, 1)] = NoEntry
    BY <1>1, <1>2, <2>1
  <2> QED BY <1>1, <1>2, <2>2, TopNone
<1>17. Tops(m, m2, C)
  <2>1. \A d \in C : d \in Frame /\ d # c
    BY <1>2, <1>3
  <2> QED BY <1>1, <2>1 DEF Tops
<1> QED BY <1>2, <1>6, <1>13, <1>14, <1>15, <1>16, <1>17 DEF E, B

Death(m, m2, c) ==
  /\ m2 \in Memories /\ m2.free = m.free \cup {c} /\ m2.panic = m.panic
  /\ \A f \in Frame, j \in Index : m2.tab[f][j] = IF f # c THEN m.tab[f][j] ELSE NoEntry

LEMMA DeathIs ==
  ASSUME NEW m \in Memories, NEW c \in Frame, c \notin m.free
  PROVE  Death(m, [Freed(m, {c}) EXCEPT !.tab[c] = EmptyTable], c)
<1> DEFINE m1 == Freed(m, {c})
           b1 == [m.tab EXCEPT ![c] = EmptyTable]
           m2 == [m1 EXCEPT !.tab[c] = EmptyTable]
<1>1. m.tab \in [Frame -> [Index -> GoodEntry]] /\ NoEntry \in GoodEntry
  BY DEF Memories, GoodEntry
<1>2. {c} \in SUBSET Frame /\ {c} \cap m.free = {}
  OBVIOUS
<1>3. m1 \in Memories /\ m1.tab = m.tab /\ m1.panic = m.panic /\ m1.free = m.free \cup {c}
  BY <1>2, FreedIs
<1>4. b1 \in [Frame -> [Index -> GoodEntry]]
      /\ \A f \in Frame, j \in Index : b1[f][j] = IF f # c THEN m.tab[f][j] ELSE NoEntry
  BY <1>1 DEF EmptyTable
<1> HIDE DEF m1
<1>5. m2 = [m1 EXCEPT !.tab = b1]
  BY <1>3
<1> HIDE DEF b1
<1>6. m2 \in Memories /\ m2.free = m1.free /\ m2.panic = m1.panic /\ m2.tab = b1
  <2> HIDE DEF m2
  <2> QED BY <1>3, <1>4, <1>5 DEF Memories
<1>7. Death(m, m2, c)
  <2> HIDE DEF m2
  <2> QED BY <1>3, <1>4, <1>6 DEF Death
<1> QED BY <1>7 DEF m1, m2

\* The entries of the kernel's half are not its own, and it has no others.
LEMMA DeathSound ==
  ASSUME NEW D, NEW m, NEW C, NEW X, Sound(D, m, C, X), NEW c \in C, c # KERNEL,
         \A i \in Index \ Upper : m.tab[c][i].frame = 0, NEW m2, Death(m, m2, c)
  PROVE  /\ Sound([D EXCEPT ![c] = NULL], m2, C \ {c}, X)
         /\ \A x \in Frame : IsLeaf([D EXCEPT ![c] = NULL], m2, x) <=> IsLeaf(D, m, x)
         /\ \A d \in C \ {c}, u \in Nat : GetPte(m2, d, u) = GetPte(m, d, u)
         /\ \A u \in Nat : Own(c, u) => GetPte(m, c, u) = NoEntry
         /\ Tops(m, m2, C \ {c})
<1> DEFINE E == [D EXCEPT ![c] = NULL]
           B == C \ {c}
<1>1. /\ m2 \in Memories /\ m2.free = m.free \cup {c} /\ m2.panic = m.panic
      /\ \A f \in Frame, j \in Index : m2.tab[f][j] = IF f # c THEN m.tab[f][j] ELSE NoEntry
  BY DEF Death
<1>2. /\ m \in Memories /\ m.panic # "double free" /\ C \subseteq Frame /\ KERNEL \in C /\ X \subseteq Frame
      /\ KERNEL \in Frame
  BY SoundParts
<1>3. c \in Frame /\ D[c] = 0
  BY <1>2, SoundPlaces
<1>4. Last \in Nat /\ Last # 0 /\ NULL # 0 /\ NULL \notin 0 .. Last /\ 0 \notin 1 .. Last
      /\ NULL \notin 0 .. Last - 1
  BY VMMConstants DEF NULL
<1>5. E \in Depths /\ \A f \in Frame : E[f] = IF f = c THEN NULL ELSE D[f]
  <2>1. D \in Depths
    BY SoundParts
  <2> QED BY <1>3, <2>1 DEF Depths
<1>6. D[KERNEL] = 0
  BY <1>2, SoundPlaces
<1> HIDE DEF E, B
<1>7. Levelled(E, m2)
  <2>1. ASSUME NEW f \in Frame, NEW j \in Index, E[f] \in 0 .. Last - 1, m2.tab[f][j] # NoEntry
        PROVE  E[m2.tab[f][j].frame] = E[f] + 1
    <3>1. f # c
      BY <1>4, <1>5, <2>1
    <3>2. E[f] = D[f] /\ m2.tab[f][j] = m.tab[f][j]
      BY <1>1, <1>5, <3>1
    <3>3. D[m.tab[f][j].frame] = D[f] + 1
      BY <2>1, <3>2, SoundLevels
    <3>4. m.tab[f][j].frame # c
      BY <1>3, <2>1, <3>2, <3>3
    <3>5. m.tab[f][j].frame \in Frame
      BY <1>2, <2>1, <3>2, EntryType
    <3> QED BY <1>5, <3>2, <3>3, <3>4, <3>5
  <2>2. ASSUME NEW g \in Frame, E[g] \in 1 .. Last
        PROVE  \E f \in Frame, j \in Index : E[f] = E[g] - 1 /\ m2.tab[f][j].frame = g
    <3>1. g # c /\ D[g] = E[g]
      <4>1. NULL \notin 1 .. Last
        BY DEF NULL
      <4> QED BY <1>5, <2>2, <4>1
    <3>2. PICK f \in Frame, j \in Index : D[f] = D[g] - 1 /\ m.tab[f][j].frame = g
      BY <2>2, <3>1, SoundLevels
    <3>3. CASE f # c
      <4>1. m2.tab[f][j] = m.tab[f][j] /\ E[f] = D[f]
        BY <1>1, <1>5, <3>3
      <4> QED BY <3>1, <3>2, <4>1
    <3>4. CASE f = c
      <4>1. g # 0
        BY DEF Frame
      <4>2. j \in Upper
        BY <3>2, <3>4, <4>1
      <4>3. m.tab[c][j] \in {NoEntry, m.tab[KERNEL][j]}
        BY <4>2, SoundLevels
      <4>4. m.tab[KERNEL][j].frame = g
        BY <3>2, <3>4, <4>1, <4>3 DEF NoEntry
      <4>5. m2.tab[KERNEL][j] = m.tab[KERNEL][j] /\ E[KERNEL] = 0
        BY <1>1, <1>2, <1>5, <1>6
      <4>6. E[g] - 1 = 0
        BY <1>3, <3>1, <3>2, <3>4
      <4> QED BY <1>2, <4>4, <4>5, <4>6
    <3> QED BY <3>3, <3>4
  <2> QED BY <2>1, <2>2 DEF Levelled
<1>8. Copied(m2, B)
  <2>1. ASSUME NEW d \in B, NEW j \in Upper PROVE m2.tab[d][j] \in {NoEntry, m2.tab[KERNEL][j]}
    <3>1. j \in Index /\ d \in C /\ d # c
      BY VMMConstants DEF Upper, Index, B
    <3>2. m2.tab[KERNEL][j] = m.tab[KERNEL][j] /\ m2.tab[d][j] = m.tab[d][j]
      BY <1>1, <1>2, <3>1
    <3> QED BY <3>1, <3>2, SoundLevels
  <2> QED BY <2>1 DEF Copied
<1>9. ASSUME NEW f \in Frame, NEW j \in Index, NEW x \in Frame
      PROVE  Owns(E, m2, B, f, j, x) <=> Owns(D, m, C, f, j, x)
  <2>1. CASE f = c
    <3>1. ~ Owns(E, m2, B, f, j, x)
      BY <1>3, <1>5, <2>1 DEF Owns
    <3>2. CASE j \in Upper
      <4>1. Copy(C, f, j)
        BY <2>1, <3>2 DEF Copy
      <4> QED BY <3>1, <4>1 DEF Owns
    <3>3. CASE j \notin Upper
      <4>1. m.tab[f][j].frame # x
        BY <2>1, <3>3 DEF Frame
      <4> QED BY <3>1, <4>1 DEF Owns
    <3> QED BY <3>2, <3>3
  <2>2. CASE f # c
    <3>1. m2.tab[f][j] = m.tab[f][j] /\ E[f] = D[f] /\ (f \in B <=> f \in C)
      BY <1>1, <1>5, <2>2 DEF B
    <3> QED BY <3>1 DEF Owns, Copy
  <2> QED BY <2>1, <2>2
<1>10. OneOwner(E, m2, B)
  BY <1>9, SoundPlaces DEF OneOwner
<1>11. Placed(E, m2, B, X)
  <2>1. \A f \in Frame : E[f] = 0 <=> f \in B
    BY <1>4, <1>5, SoundPlaces DEF B
  <2>2. ASSUME NEW f \in Frame, NEW j \in Index, NEW x \in Frame, Owns(E, m2, B, f, j, x)
        PROVE  x \notin B /\ x \notin m2.free
    <3>1. Owns(D, m, C, f, j, x)
      BY <1>9, <2>2
    <3>2. x \notin C /\ x \notin m.free
      BY <3>1, SoundPlaces
    <3> QED BY <1>1, <3>2 DEF B
  <2>3. ASSUME NEW x \in X PROVE E[x] = NULL /\ x \notin m2.free
    <3>1. x \in Frame /\ D[x] = NULL /\ x \notin m.free
      BY SoundPlaces
    <3>2. x # c
      BY <1>3, <1>4, <3>1
    <3> QED BY <1>1, <1>5, <3>1, <3>2
  <2>4. ASSUME NEW x \in B PROVE x \notin m2.free
    <3>1. x # c /\ x \notin m.free
      BY SoundPlaces DEF B
    <3> QED BY <1>1, <3>1
  <2>5. ASSUME NEW x \in Frame, x \notin m2.free \cup B \cup X
        PROVE  \E f \in Frame, j \in Index : Owns(E, m2, B, f, j, x)
    <3>1. x \notin m.free \cup C \cup X
      <4>1. m2.free = m.free \cup {c}
        BY <1>1
      <4> QED BY <2>5, <4>1 DEF B
    <3>2. PICK f \in Frame, j \in Index : Owns(D, m, C, f, j, x)
      BY <3>1, SoundPlaces
    <3> QED BY <1>9, <3>2
  <2> QED BY <2>1, <2>2, <2>3, <2>4, <2>5 DEF Placed
<1>12. ASSUME NEW x \in Frame PROVE IsLeaf(E, m2, x) <=> IsLeaf(D, m, x)
  <2>1. ASSUME NEW f \in Frame, NEW j \in Index
        PROVE  E[f] = Last /\ m2.tab[f][j].frame = x <=> D[f] = Last /\ m.tab[f][j].frame = x
    <3>1. Last # NULL /\ Last # 0
      BY <1>4
    <3>2. CASE f = c
      BY <1>3, <1>5, <3>1, <3>2
    <3>3. CASE f # c
      BY <1>1, <1>5, <3>3
    <3> QED BY <3>2, <3>3
  <2> QED BY <2>1 DEF IsLeaf
<1>13. Sound(E, m2, B, X)
  <2>1. m2.panic # "double free"
    BY <1>1, <1>2
  <2>2. B \subseteq Frame /\ KERNEL \in B
    BY <1>2 DEF B
  <2> QED BY <1>1, <1>2, <1>5, <1>7, <1>8, <1>10, <1>11, <2>1, <2>2 DEF Sound
<1>14. ASSUME NEW d \in C \ {c}, NEW u \in Nat PROVE GetPte(m2, d, u) = GetPte(m, d, u)
  <2>1. d \in C /\ d # c
    OBVIOUS
  <2>2. \A f \in Frame, j \in Index : f # c => m2.tab[f][j] = m.tab[f][j]
    BY <1>1
  <2>3. m2 \in Memories /\ c \in Frame /\ D[c] \in {NULL, 0}
    BY <1>1, <1>3
  <2> QED BY <2>1, <2>2, <2>3, OtherViews
<1>15. ASSUME NEW u \in Nat, Own(c, u) PROVE GetPte(m, c, u) = NoEntry
  <2>1. Digit(u, 1) \in Index \ Upper
    <3>1. Digit(u, 1) \in Index
      BY DigitType, VMMConstants
    <3> QED BY <1>15, <3>1 DEF Own
  <2>2. m.tab[c][Digit(u, 1)] = NoEntry
    BY <1>2, <1>3, <2>1, EntryType
  <2> QED BY <1>2, <1>3, <2>2, TopNone
<1>16. Tops(m, m2, C \ {c})
  <2>1. \A d \in C \ {c} : d \in Frame /\ d # c
    BY <1>2
  <2> QED BY <1>1, <2>1 DEF Tops
<1> QED BY <1>12, <1>13, <1>14, <1>15, <1>16 DEF E, B

-------------------------------------------------------------------------------
(***************************************************************************)
(* The tables that FrameUsedOnce finds, and what their entries own.        *)
(***************************************************************************)
At(D, k) == {f \in Frame : D[f] = k}

LEMMA OneStepDown ==
  ASSUME NEW D, NEW m, NEW C, NEW X, Sound(D, m, C, X), NEW k \in 1 .. Last
  PROVE  At(D, k) = Under(m, At(D, k - 1))
<1>1. Last \in Nat /\ k - 1 \in 0 .. Last - 1 /\ k - 1 + 1 = k
  BY VMMConstants
<1>2. m \in Memories
  BY SoundParts
<1>3. ASSUME NEW g \in At(D, k)
      PROVE  g \in Under(m, At(D, k - 1))
  <2>1. g \in Frame /\ D[g] = k /\ g # 0
    BY DEF At, Frame
  <2>2. PICK f \in Frame, i \in Index : D[f] = k - 1 /\ m.tab[f][i].frame = g
    BY <2>1, SoundLevels
  <2> QED BY <2>1, <2>2 DEF At, Under
<1>4. ASSUME NEW g \in Under(m, At(D, k - 1))
      PROVE  g \in At(D, k)
  <2>1. PICK f \in At(D, k - 1), i \in Index : g = m.tab[f][i].frame
    BY DEF Under
  <2>2. f \in Frame /\ D[f] = k - 1
    BY <2>1 DEF At
  <2>3. m.tab[f][i] # NoEntry /\ g \in Frame
    <3>1. g # 0
      BY DEF Under
    <3> QED BY <1>2, <2>1, <2>2, <3>1, EntryType DEF NoEntry
  <2>4. D[g] = D[f] + 1
    BY <1>1, <2>1, <2>2, <2>3, SoundLevels
  <2> QED BY <1>1, <2>2, <2>3, <2>4 DEF At
<1> QED BY <1>3, <1>4

LEMMA TablesAre ==
  ASSUME NEW D, NEW m, NEW C, NEW X, Sound(D, m, C, X)
  PROVE  \A k \in 0 .. Last : TablesOf(m, C)[k] = At(D, k)
<1> DEFINE W == TablesOf(m, C)
           G == [k \in 0 .. Last |-> At(D, k)]
           S == {k \in 0 .. Last : W[k] = At(D, k)}
<1>1. Last \in Nat /\ \A k \in 1 .. Last : k - 1 \in 0 .. Last /\ k \in 0 .. Last
  BY VMMConstants
<1>2. At(D, 0) = C
  <2>1. C \subseteq Frame /\ \A f \in Frame : D[f] = 0 <=> f \in C
    BY SoundParts
  <2> QED BY <2>1 DEF At
<1>3. G = [k \in 0 .. Last |-> IF k = 0 THEN C ELSE Under(m, G[k - 1])]
  <2>1. ASSUME NEW k \in 0 .. Last
        PROVE  G[k] = IF k = 0 THEN C ELSE Under(m, G[k - 1])
    <3>1. CASE k = 0
      BY <1>2, <3>1
    <3>2. CASE k # 0
      <4>1. k \in 1 .. Last
        BY <1>1, <3>2
      <4>2. G[k - 1] = At(D, k - 1) /\ G[k] = At(D, k)
        BY <1>1, <4>1
      <4>3. At(D, k) = Under(m, At(D, k - 1))
        BY <4>1, OneStepDown
      <4> HIDE DEF G
      <4> QED BY <3>2, <4>2, <4>3
    <3> QED BY <3>1, <3>2
  <2> QED BY <2>1
<1>4. W = [k \in 0 .. Last |-> IF k = 0 THEN C ELSE Under(m, W[k - 1])]
  <2> HIDE DEF G
  <2> QED BY <1>3 DEF TablesOf
<1>5. W[0] = C /\ \A k \in 1 .. Last : W[k] = Under(m, W[k - 1])
  <2> HIDE DEF W, G
  <2> QED BY <1>1, <1>4
<1> HIDE DEF W, G
<1>6. 0 \in S
  BY <1>1, <1>2, <1>5
<1>7. ASSUME NEW k \in 1 .. Last, k - 1 \in S PROVE k \in S
  <2>1. W[k - 1] = At(D, k - 1)
    BY <1>7
  <2>2. W[k] = At(D, k)
    BY <1>5, <2>1, OneStepDown
  <2> QED BY <1>1, <2>2
<1> HIDE DEF S
<1>8. \A k \in 0 .. Last : k \in S
  BY <1>1, <1>6, <1>7, CountUp
<1> QED BY <1>8 DEF S, W

LEMMA TablesFound ==
  ASSUME NEW D, NEW m, NEW C, NEW X, Sound(D, m, C, X), NEW f
  PROVE  f \in UNION {TablesOf(m, C)[k] : k \in 0 .. Last} <=> f \in Frame /\ D[f] # NULL
<1>1. ASSUME NEW k \in 0 .. Last, f \in TablesOf(m, C)[k] PROVE f \in Frame /\ D[f] # NULL
  <2>1. f \in At(D, k)
    BY <1>1, TablesAre
  <2>2. k # NULL
    BY DEF NULL
  <2> QED BY <2>1, <2>2 DEF At
<1>2. ASSUME f \in Frame, D[f] # NULL PROVE \E k \in 0 .. Last : f \in TablesOf(m, C)[k]
  <2>1. D[f] \in 0 .. Last
    BY <1>2, SoundParts
  <2>2. f \in At(D, D[f])
    BY <1>2 DEF At
  <2> QED BY <2>1, <2>2, TablesAre
<1> QED BY <1>1, <1>2

\* A sound memory uses each frame once.
LEMMA SoundOnce ==
  ASSUME NEW D, Sound(D, mem, contexts, held)
  PROVE  FrameUsedOnce
<1> DEFINE tables == UNION {Tables[k] : k \in 0 .. Last}
           used == {Target(s) : s \in Slots}
<1>1. \A f : f \in tables <=> f \in Frame /\ D[f] # NULL
  BY TablesFound DEF Tables
<1>2. mem \in Memories /\ mem.panic # "double free" /\ contexts \subseteq Frame /\ held \subseteq Frame
      /\ KERNEL \in contexts /\ mem.free \subseteq Frame
  BY SoundParts
<1>3. \A s : s \in Slots <=> /\ s \in tables \X Index /\ mem.tab[s[1]][s[2]].frame # 0
                             /\ ~(s[1] \in contexts \ {KERNEL} /\ s[2] \in Upper)
  BY DEF Slots
<1> HIDE DEF tables
<1>4. ASSUME NEW s \in Slots
      PROVE  /\ s[1] \in Frame /\ s[2] \in Index /\ s = <<s[1], s[2]>> /\ Target(s) \in Frame
             /\ Owns(D, mem, contexts, s[1], s[2], Target(s))
  <2>1. /\ s \in tables \X Index /\ mem.tab[s[1]][s[2]].frame # 0
        /\ ~(s[1] \in contexts \ {KERNEL} /\ s[2] \in Upper)
    BY <1>3
  <2>2. s[1] \in Frame /\ s[2] \in Index /\ s = <<s[1], s[2]>> /\ D[s[1]] # NULL
    BY <1>1, <2>1
  <2>3. Target(s) \in Frame
    BY <1>2, <2>1, <2>2, EntryType DEF Target
  <2> QED BY <2>1, <2>2, <2>3 DEF Owns, Copy, Target
<1>5. ASSUME NEW f \in Frame, NEW i \in Index, NEW x \in Frame, Owns(D, mem, contexts, f, i, x)
      PROVE  <<f, i>> \in Slots /\ Target(<<f, i>>) = x
  <2>1. D[f] # NULL /\ mem.tab[f][i].frame = x /\ ~(f \in contexts /\ f # KERNEL /\ i \in Upper)
    BY <1>5 DEF Owns, Copy
  <2>2. x # 0
    BY DEF Frame
  <2>3. <<f, i>> \in tables \X Index
    BY <1>1, <2>1
  <2> QED BY <1>3, <2>1, <2>2, <2>3 DEF Target
<1>6. ASSUME NEW s \in Slots, NEW t \in Slots, Target(s) = Target(t) PROVE s = t
  <2>1. s[1] = t[1] /\ s[2] = t[2]
    BY <1>4, <1>6, SoundPlaces
  <2> QED BY <1>4, <2>1
<1>7. used \cap contexts = {} /\ mem.free \cap used = {}
  <2>1. ASSUME NEW s \in Slots PROVE Target(s) \notin contexts /\ Target(s) \notin mem.free
    BY <1>4, SoundPlaces
  <2> QED BY <2>1
<1>8. held \cap tables = {}
  BY <1>1, SoundPlaces
<1>9. mem.free \cap contexts = {} /\ mem.free \cap held = {}
  BY SoundPlaces
<1>10. \A x : x \in mem.free \cup contexts \cup used \cup held <=> x \in Frame
  <2>1. ASSUME NEW x \in Frame PROVE x \in mem.free \cup contexts \cup used \cup held
    <3>1. CASE x \notin mem.free \cup contexts \cup held
      <4>1. PICK f \in Frame, i \in Index : Owns(D, mem, contexts, f, i, x)
        BY <3>1, SoundPlaces
      <4> QED BY <1>5, <4>1
    <3> QED BY <3>1
  <2>2. \A s \in Slots : Target(s) \in Frame
    BY <1>4
  <2> QED BY <1>2, <2>1, <2>2
<1>11. mem.free \cap (contexts \cup used \cup held) = {}
  <2> HIDE DEF used
  <2> QED BY <1>7, <1>9
<1>12. mem.free \cup contexts \cup used \cup held = Frame
  <2> HIDE DEF used
  <2> QED BY <1>10
<1>13. used \cap contexts = {}
  BY <1>7
<1> QED BY <1>2, <1>6, <1>8, <1>11, <1>12, <1>13 DEF FrameUsedOnce, tables

-------------------------------------------------------------------------------
(***************************************************************************)
(* Who maps what.  Each region r of R is whole: mapped page by page, at    *)
(* pages of its context's own, to frames that nobody holds.  No two share  *)
(* a page, and what a context maps is claimed by a region, a holder, or    *)
(* demand paging (the pages F of the kernel).                              *)
(***************************************************************************)
Whole(m, C, X, r) ==
  /\ r.ctx \in C /\ r.base \in PagesOf(r)
  /\ \A v \in PagesOf(r) : /\ v \in Page /\ Own(r.ctx, v)
                           /\ IsMapped(m, r.ctx, v) /\ GetPte(m, r.ctx, v).frame \notin X
Apart(r, s) == r # s /\ r.ctx = s.ctx => PagesOf(r) \cap PagesOf(s) = {}
Claimed(m, X, R, F, c, v) ==
  \/ \E r \in R : r.ctx = c /\ v \in PagesOf(r)
  \/ GetPte(m, c, v).frame \in X
  \/ c = KERNEL /\ v \in F
HeldMapped(D, m, C, X) ==
  \A x \in X : IsLeaf(D, m, x) => \E c \in C, v \in UserPages : GetPte(m, c, v).frame = x

Good(D, m, C, X, R, F) ==
  /\ Sound(D, m, C, X) /\ HeldMapped(D, m, C, X)
  /\ \A r \in R : Whole(m, C, X, r)
  /\ \A r, s \in R : Apart(r, s)
  /\ \A c \in C, v \in Page : Own(c, v) /\ IsMapped(m, c, v) => Claimed(m, X, R, F, c, v)

\* Pages of their own point where they did, but for the pages P of h.
Elsewhere(m, m2, C, h, P) ==
  \A d \in C, u \in Page : Own(d, u) /\ (d = h => u \notin P) =>
    GetPte(m2, d, u).frame = GetPte(m, d, u).frame

LEMMA FrameMapped ==
  ASSUME NEW D, NEW m, NEW C, NEW X, Sound(D, m, C, X), NEW c \in C, NEW v \in Page
  PROVE  /\ IsMapped(m, c, v) <=> GetPte(m, c, v).frame # 0
         /\ GetPte(m, c, v).frame \in {0} \cup Frame /\ 0 \notin Frame /\ 0 \notin X
<1>1. v \in Nat
  BY PageNat
<1>2. X \subseteq Frame
  BY SoundParts
<1>3. /\ GetPte(m, c, v).frame \in {0} \cup Frame /\ 0 \notin Frame
      /\ GetPte(m, c, v).frame = 0 <=> GetPte(m, c, v) = NoEntry
  BY <1>1, TableDepth
<1> QED BY <1>2, <1>3 DEF IsMapped

LEMMA UserOwn ==
  ASSUME NEW v \in UserPages, NEW c
  PROVE  v \in Page /\ v \in Nat /\ Own(c, v) /\ Home(c, v) = c
<1>1. v \in Page /\ Digit(v, 1) \notin Upper
  BY VMMAssumption
<1> QED BY <1>1, PageNat DEF Own, Home

LEMMA HeapOwn ==
  ASSUME NEW v \in HeapPages, NEW c
  PROVE  /\ v \in Page /\ v \in Nat /\ Own(KERNEL, v) /\ Home(c, v) = KERNEL
         /\ Digit(v, 1) = Digit(HEAP_BASE, 1) /\ Digit(v, 1) \in Upper
<1>1. v \in Page /\ Digit(v, 1) = Digit(HEAP_BASE, 1) /\ Digit(v, 1) \in Upper
  BY VMMAssumption
<1> QED BY <1>1, PageNat DEF Own, Home

LEMMA LowOwn ==
  ASSUME NEW v \in LowPages
  PROVE  v \in Page /\ v \in Nat /\ Own(KERNEL, v) /\ Home(KERNEL, v) = KERNEL
<1>1. v \in Page
  BY VMMAssumption
<1> QED BY <1>1, PageNat DEF Own, Home

LEMMA GoodParts ==
  ASSUME NEW D, NEW m, NEW C, NEW X, NEW R, NEW F, Good(D, m, C, X, R, F)
  PROVE  /\ Sound(D, m, C, X)
         /\ \A x \in X : IsLeaf(D, m, x) => \E c \in C, v \in UserPages : GetPte(m, c, v).frame = x
         /\ \A r \in R : Whole(m, C, X, r)
         /\ \A r, s \in R : Apart(r, s)
         /\ \A c \in C, v \in Page : Own(c, v) /\ IsMapped(m, c, v) => Claimed(m, X, R, F, c, v)
BY DEF Good, HeldMapped

LEMMA HeldStays ==
  ASSUME NEW D, NEW m, NEW C, NEW X, NEW R, NEW F, Good(D, m, C, X, R, F),
         NEW D2, NEW m2, NEW h, NEW P, Elsewhere(m, m2, C, h, P),
         \A v \in P : GetPte(m, h, v).frame \notin X,
         \A x \in X : IsLeaf(D2, m2, x) => IsLeaf(D, m, x)
  PROVE  HeldMapped(D2, m2, C, X)
<1>1. ASSUME NEW x \in X, IsLeaf(D2, m2, x)
      PROVE  \E c \in C, v \in UserPages : GetPte(m2, c, v).frame = x
  <2>1. PICK c \in C, v \in UserPages : GetPte(m, c, v).frame = x
    BY <1>1, GoodParts
  <2>2. v \in Page /\ Own(c, v)
    BY UserOwn
  <2>3. c = h => v \notin P
    BY <2>1
  <2>4. GetPte(m2, c, v).frame = x
    BY <2>1, <2>2, <2>3 DEF Elsewhere
  <2> QED BY <2>4
<1> QED BY <1>1 DEF HeldMapped

LEMMA WholeStays ==
  ASSUME NEW D, NEW m, NEW C, NEW X, Sound(D, m, C, X), NEW r, Whole(m, C, X, r),
         NEW D2, NEW m2, Sound(D2, m2, C, X), NEW h, NEW P, Elsewhere(m, m2, C, h, P),
         r.ctx = h => PagesOf(r) \cap P = {}
  PROVE  Whole(m2, C, X, r)
<1>1. r.ctx \in C /\ r.base \in PagesOf(r)
  BY DEF Whole
<1>2. ASSUME NEW v \in PagesOf(r)
      PROVE  /\ v \in Page /\ Own(r.ctx, v)
             /\ IsMapped(m2, r.ctx, v) /\ GetPte(m2, r.ctx, v).frame \notin X
  <2>1. /\ v \in Page /\ Own(r.ctx, v)
        /\ IsMapped(m, r.ctx, v) /\ GetPte(m, r.ctx, v).frame \notin X
    BY DEF Whole
  <2>2. GetPte(m2, r.ctx, v).frame = GetPte(m, r.ctx, v).frame
    BY <1>1, <2>1 DEF Elsewhere
  <2>3. GetPte(m, r.ctx, v).frame # 0
    BY <1>1, <2>1, FrameMapped
  <2>4. IsMapped(m2, r.ctx, v)
    BY <1>1, <2>1, <2>2, <2>3, FrameMapped
  <2> QED BY <2>1, <2>2, <2>4
<1> QED BY <1>1, <1>2 DEF Whole

LEMMA ClaimStays ==
  ASSUME NEW D, NEW m, NEW C, NEW X, NEW R, NEW F, Good(D, m, C, X, R, F),
         NEW D2, NEW m2, Sound(D2, m2, C, X), NEW h, NEW P, Elsewhere(m, m2, C, h, P),
         NEW R2, \A r \in R : r \in R2 \/ (r.ctx = h /\ PagesOf(r) \subseteq P),
         NEW F2, \A u \in F : u \in F2 \/ (h = KERNEL /\ u \in P),
         NEW c \in C, NEW v \in Page, Own(c, v), IsMapped(m2, c, v), c = h => v \notin P
  PROVE  Claimed(m2, X, R2, F2, c, v)
<1>1. Sound(D, m, C, X)
  BY GoodParts
<1>2. GetPte(m2, c, v).frame = GetPte(m, c, v).frame
  BY DEF Elsewhere
<1>3. GetPte(m2, c, v).frame # 0
  BY FrameMapped
<1>4. IsMapped(m, c, v)
  BY <1>1, <1>2, <1>3, FrameMapped
<1>5. Claimed(m, X, R, F, c, v)
  BY <1>4, GoodParts
<1>6. CASE \E r \in R : r.ctx = c /\ v \in PagesOf(r)
  <2>1. PICK r \in R : r.ctx = c /\ v \in PagesOf(r)
    BY <1>6
  <2>2. r \in R2
    BY <2>1
  <2> QED BY <2>1, <2>2 DEF Claimed
<1>7. CASE GetPte(m, c, v).frame \in X
  BY <1>2, <1>7 DEF Claimed
<1>8. CASE c = KERNEL /\ v \in F
  <2>1. v \in F2
    BY <1>8
  <2> QED BY <1>8, <2>1 DEF Claimed
<1> QED BY <1>5, <1>6, <1>7, <1>8 DEF Claimed

\* Calls that fail, map a page again, or change flags.
LEMMA GoodSame ==
  ASSUME NEW D, NEW m, NEW C, NEW X, NEW R, NEW F, Good(D, m, C, X, R, F),
         NEW D2, NEW m2, Sound(D2, m2, C, X), Elsewhere(m, m2, C, KERNEL, {}),
         \A x \in X : IsLeaf(D2, m2, x) => IsLeaf(D, m, x)
  PROVE  Good(D2, m2, C, X, R, F)
<1>1. /\ Sound(D, m, C, X) /\ \A r \in R : Whole(m, C, X, r)
      /\ \A r, s \in R : Apart(r, s)
  BY GoodParts
<1>2. HeldMapped(D2, m2, C, X)
  BY HeldStays
<1>3. \A r \in R : Whole(m2, C, X, r)
  <2> TAKE r \in R
  <2>1. Whole(m, C, X, r) /\ PagesOf(r) \cap {} = {}
    BY <1>1
  <2> QED BY <1>1, <2>1, WholeStays
<1>4. ASSUME NEW c \in C, NEW v \in Page, Own(c, v), IsMapped(m2, c, v)
      PROVE  Claimed(m2, X, R, F, c, v)
  <2>1. (\A r \in R : r \in R \/ (r.ctx = KERNEL /\ PagesOf(r) \subseteq {}))
        /\ (\A u \in F : u \in F \/ (KERNEL = KERNEL /\ u \in {})) /\ (c = KERNEL => v \notin {})
    OBVIOUS
  <2> QED BY <1>4, <2>1, ClaimStays
<1> QED BY <1>1, <1>2, <1>3, <1>4 DEF Good

\* Pages that nobody had become a region.
LEMMA GoodRegion ==
  ASSUME NEW D, NEW m, NEW C, NEW X, NEW R, NEW F, Good(D, m, C, X, R, F),
         NEW new, new.ctx \in C, new.base \in PagesOf(new), PagesOf(new) \subseteq Page,
         NEW D2, NEW m2, Sound(D2, m2, C, X), Elsewhere(m, m2, C, new.ctx, PagesOf(new)),
         \A x \in X : IsLeaf(D2, m2, x) => IsLeaf(D, m, x),
         \A v \in PagesOf(new) :
           /\ Own(new.ctx, v) /\ GetPte(m, new.ctx, v) = NoEntry
           /\ IsMapped(m2, new.ctx, v) /\ GetPte(m2, new.ctx, v).frame \notin X
  PROVE  Good(D2, m2, C, X, R \cup {new}, F) /\ new \notin R
<1>1. /\ Sound(D, m, C, X) /\ \A r \in R : Whole(m, C, X, r)
      /\ \A r, s \in R : Apart(r, s)
  BY GoodParts
<1>2. \A v \in PagesOf(new) : GetPte(m, new.ctx, v).frame \notin X
  <2>1. 0 \notin X
    BY <1>1, FrameMapped
  <2> QED BY <2>1 DEF NoEntry
<1>3. HeldMapped(D2, m2, C, X)
  BY <1>2, HeldStays
<1>4. ASSUME NEW r \in R PROVE r.ctx = new.ctx => PagesOf(r) \cap PagesOf(new) = {}
  <2>1. ASSUME NEW v \in PagesOf(r), v \in PagesOf(new), r.ctx = new.ctx PROVE FALSE
    <3>1. IsMapped(m, new.ctx, v)
      BY <1>1, <2>1 DEF Whole
    <3> QED BY <2>1, <3>1 DEF IsMapped
  <2> QED BY <2>1
<1>5. \A r \in R : Whole(m2, C, X, r)
  BY <1>1, <1>4, WholeStays
<1>6. Whole(m2, C, X, new)
  BY DEF Whole
<1>7. \A r, s \in R \cup {new} : Apart(r, s)
  <2>1. \A r \in R : Apart(r, new) /\ Apart(new, r)
    BY <1>4 DEF Apart
  <2>2. Apart(new, new)
    BY DEF Apart
  <2> QED BY <1>1, <2>1, <2>2
<1>8. ASSUME NEW c \in C, NEW v \in Page, Own(c, v), IsMapped(m2, c, v)
      PROVE  Claimed(m2, X, R \cup {new}, F, c, v)
  <2>1. CASE c = new.ctx /\ v \in PagesOf(new)
    BY <2>1 DEF Claimed
  <2>2. CASE c = new.ctx => v \notin PagesOf(new)
    <3>1. (\A r \in R : r \in R \cup {new} \/ (r.ctx = new.ctx /\ PagesOf(r) \subseteq PagesOf(new)))
          /\ (\A u \in F : u \in F \/ (new.ctx = KERNEL /\ u \in PagesOf(new)))
      OBVIOUS
    <3> QED BY <1>1, <1>8, <2>2, <3>1, ClaimStays
  <2> QED BY <2>1, <2>2
<1>9. new \notin R
  <2>1. IsMapped(m2, new.ctx, new.base) /\ GetPte(m, new.ctx, new.base) = NoEntry
    OBVIOUS
  <2>2. new \in R => IsMapped(m, new.ctx, new.base)
    BY <1>1 DEF Whole
  <2> QED BY <2>1, <2>2 DEF IsMapped
<1> QED BY <1>3, <1>5, <1>6, <1>7, <1>8, <1>9 DEF Good

\* Pages that demand paging has mapped are no region.
LEMMA GoodFault ==
  ASSUME NEW D, NEW m, NEW C, NEW X, NEW R, NEW F, NEW r, Good(D, m, C, X, R \cup {r}, F),
         r.ctx = KERNEL
  PROVE  Good(D, m, C, X, R, F \cup PagesOf(r))
<1>1. /\ Sound(D, m, C, X) /\ HeldMapped(D, m, C, X)
      /\ \A s \in R \cup {r} : Whole(m, C, X, s)
      /\ \A s, t \in R \cup {r} : Apart(s, t)
      /\ \A c \in C, v \in Page : Own(c, v) /\ IsMapped(m, c, v) => Claimed(m, X, R \cup {r}, F, c, v)
  BY DEF Good
<1>2. \A c \in C, v \in Page : Own(c, v) /\ IsMapped(m, c, v) => Claimed(m, X, R, F \cup PagesOf(r), c, v)
  BY <1>1 DEF Claimed
<1> QED BY <1>1, <1>2 DEF Good

\* The pages P of h are unmapped: they were whole regions, those not in R2, or
\* no region's.
LEMMA GoodLess ==
  ASSUME NEW D, NEW m, NEW C, NEW X, NEW R, NEW F, Good(D, m, C, X, R, F),
         NEW h \in C, NEW P \in SUBSET Page, NEW D2, NEW m2, Sound(D2, m2, C, X),
         Elsewhere(m, m2, C, h, P), \A x \in X : IsLeaf(D2, m2, x) => IsLeaf(D, m, x),
         \A v \in P : GetPte(m, h, v).frame \notin X /\ GetPte(m2, h, v) = NoEntry,
         NEW R2 \in SUBSET R, \A r \in R : r \in R2 \/ (r.ctx = h /\ PagesOf(r) \subseteq P),
         \A r \in R2 : r.ctx = h => PagesOf(r) \cap P = {},
         NEW F2, \A u \in F : u \in F2 \/ (h = KERNEL /\ u \in P)
  PROVE  Good(D2, m2, C, X, R2, F2)
<1>1. /\ Sound(D, m, C, X) /\ \A r \in R : Whole(m, C, X, r)
      /\ \A r, s \in R : Apart(r, s)
  BY GoodParts
<1>2. HeldMapped(D2, m2, C, X)
  BY HeldStays
<1>3. \A r \in R2 : Whole(m2, C, X, r)
  BY <1>1, WholeStays
<1>4. \A r, s \in R2 : Apart(r, s)
  BY <1>1
<1>5. ASSUME NEW c \in C, NEW v \in Page, Own(c, v), IsMapped(m2, c, v)
      PROVE  Claimed(m2, X, R2, F2, c, v)
  <2>1. c = h => v \notin P
    BY <1>5 DEF IsMapped
  <2> QED BY <1>5, <2>1, ClaimStays
<1> QED BY <1>2, <1>3, <1>4, <1>5 DEF Good

\* A caller takes frames to map them.
LEMMA GoodTake ==
  ASSUME NEW D, NEW m, NEW C, NEW X, NEW R, NEW F, Good(D, m, C, X, R, F),
         NEW S, S \subseteq m.free
  PROVE  Good(D, Taken(m, S), C, X \cup S, R, F)
<1> DEFINE m2 == Taken(m, S)
           Y == X \cup S
<1>1. /\ Sound(D, m, C, X) /\ \A r \in R : Whole(m, C, X, r)
      /\ \A r, s \in R : Apart(r, s)
  BY GoodParts
<1>2. m \in Memories /\ S \in SUBSET Frame
  BY <1>1, SoundParts
<1>3. m2.tab = m.tab
  BY <1>2, TakenIs
<1>4. Sound(D, m2, C, Y) /\ \A x \in S : x \in Frame /\ ~ IsLeaf(D, m, x)
  BY <1>1, TakenSound
<1> HIDE DEF m2, Y
<1>5. /\ \A x : IsLeaf(D, m2, x) <=> IsLeaf(D, m, x)
      /\ \A c, v : GetPte(m2, c, v) = GetPte(m, c, v)
  BY <1>3, SameTables
<1>6. HeldMapped(D, m2, C, Y)
  <2>1. \A x \in Y : IsLeaf(D, m2, x) => x \in X /\ IsLeaf(D, m, x)
    BY <1>4, <1>5 DEF Y
  <2>2. \A x \in X : IsLeaf(D, m, x) => \E c \in C, v \in UserPages : GetPte(m, c, v).frame = x
    BY GoodParts
  <2> QED BY <1>5, <2>1, <2>2 DEF HeldMapped
<1>7. ASSUME NEW r \in R PROVE Whole(m2, C, Y, r)
  <2>1. Whole(m, C, X, r)
    BY <1>1
  <2>2. ASSUME NEW v \in PagesOf(r)
        PROVE  /\ v \in Page /\ Own(r.ctx, v) /\ IsMapped(m2, r.ctx, v)
               /\ GetPte(m2, r.ctx, v).frame \notin Y
    <3>1. /\ v \in Page /\ Own(r.ctx, v) /\ r.ctx \in C
          /\ IsMapped(m, r.ctx, v) /\ GetPte(m, r.ctx, v).frame \notin X
      BY <2>1 DEF Whole
    <3>2. \A x \in S : GetPte(m, r.ctx, v).frame # x
      BY <1>1, <1>4, <3>1, PteLeaf, PageNat
    <3> QED BY <1>5, <3>1, <3>2 DEF IsMapped, Y
  <2> QED BY <2>1, <2>2 DEF Whole
<1>8. ASSUME NEW c \in C, NEW v \in Page, Own(c, v), IsMapped(m2, c, v)
      PROVE  Claimed(m2, Y, R, F, c, v)
  <2>1. IsMapped(m, c, v)
    BY <1>5, <1>8 DEF IsMapped
  <2>2. Claimed(m, X, R, F, c, v)
    BY <1>8, <2>1, GoodParts
  <2> QED BY <1>5, <2>2 DEF Claimed, Y
<1>9. Good(D, m2, C, Y, R, F)
  BY <1>1, <1>4, <1>6, <1>7, <1>8 DEF Good
<1> QED BY <1>9 DEF m2, Y

\* It gives back one that is mapped nowhere.
LEMMA GoodGive ==
  ASSUME NEW D, NEW m, NEW C, NEW X, NEW R, NEW F, Good(D, m, C, X, R, F),
         NEW f \in X, ~ \E c \in C, v \in UserPages : GetPte(m, c, v).frame = f
  PROVE  Good(D, Freed(m, {f}), C, X \ {f}, R, F) /\ Freed(m, {f}).tab = m.tab
<1> DEFINE m2 == Freed(m, {f})
           Y == X \ {f}
<1>1. /\ Sound(D, m, C, X) /\ \A r \in R : Whole(m, C, X, r)
      /\ \A r, s \in R : Apart(r, s)
  BY GoodParts
<1>2. ~ IsLeaf(D, m, f)
  BY GoodParts
<1>3. Sound(D, m2, C, Y) /\ m2.tab = m.tab
  BY <1>1, <1>2, FreedSound
<1>4. f \in Frame
  BY <1>1, SoundParts
<1> HIDE DEF m2, Y
<1>5. /\ \A x : IsLeaf(D, m2, x) <=> IsLeaf(D, m, x)
      /\ \A c, v : GetPte(m2, c, v) = GetPte(m, c, v)
  BY <1>3, SameTables
<1>6. HeldMapped(D, m2, C, Y)
  <2>1. \A x \in X : IsLeaf(D, m, x) => \E c \in C, v \in UserPages : GetPte(m, c, v).frame = x
    BY GoodParts
  <2> QED BY <1>5, <2>1 DEF HeldMapped, Y
<1>7. \A r \in R : Whole(m2, C, Y, r)
  BY <1>1, <1>5 DEF Whole, IsMapped, Y
<1>8. ASSUME NEW c \in C, NEW v \in Page, Own(c, v), IsMapped(m2, c, v)
      PROVE  Claimed(m2, Y, R, F, c, v)
  <2>1. IsMapped(m, c, v)
    BY <1>5, <1>8 DEF IsMapped
  <2>2. Claimed(m, X, R, F, c, v)
    BY <1>8, <2>1, GoodParts
  <2>3. GetPte(m, c, v).frame # f
    BY <1>1, <1>2, <1>4, PteLeaf, PageNat
  <2> QED BY <1>5, <2>2, <2>3 DEF Claimed, Y
<1>9. Good(D, m2, C, Y, R, F)
  BY <1>1, <1>3, <1>6, <1>7, <1>8 DEF Good
<1> QED BY <1>3, <1>9 DEF m2, Y

\* A halt, or a table out of reach, changes nothing of this.
LEMMA GoodHalt ==
  ASSUME NEW D, NEW m, NEW C, NEW X, NEW R, NEW F, Good(D, m, C, X, R, F),
         NEW why \in Panics, why # "double free"
  PROVE  Good(D, Halt(m, why), C, X, R, F) /\ Halt(m, why).tab = m.tab
<1> DEFINE m2 == Halt(m, why)
<1>1. /\ Sound(D, m, C, X) /\ \A r \in R : Whole(m, C, X, r)
      /\ \A r, s \in R : Apart(r, s)
  BY GoodParts
<1>2. m \in Memories
  BY <1>1, SoundParts
<1>3. m2 \in Memories /\ m2.tab = m.tab /\ m2.free = m.free /\ m2.panic = why
  BY <1>2 DEF Memories, Halt
<1> HIDE DEF m2
<1>4. /\ Levelled(D, m2) <=> Levelled(D, m)
      /\ Copied(m2, C) <=> Copied(m, C)
      /\ OneOwner(D, m2, C) <=> OneOwner(D, m, C)
      /\ \A f, i, x : Owns(D, m2, C, f, i, x) <=> Owns(D, m, C, f, i, x)
      /\ \A x : IsLeaf(D, m2, x) <=> IsLeaf(D, m, x)
      /\ \A c, v : GetPte(m2, c, v) = GetPte(m, c, v)
  <2>1. m2.tab = m.tab
    BY <1>3
  <2>2. /\ Levelled(D, m2) <=> Levelled(D, m)
        /\ Copied(m2, C) <=> Copied(m, C)
        /\ OneOwner(D, m2, C) <=> OneOwner(D, m, C)
    BY <2>1, SameTables
  <2>3. \A f, i, x : Owns(D, m2, C, f, i, x) <=> Owns(D, m, C, f, i, x)
    BY <2>1, SameTables
  <2>4. \A x : IsLeaf(D, m2, x) <=> IsLeaf(D, m, x)
    BY <2>1, SameTables
  <2>5. \A c, v : TableOf(m2, c, v) = TableOf(m, c, v) /\ GetPte(m2, c, v) = GetPte(m, c, v)
    BY <2>1, SameTables
  <2> QED BY <2>2, <2>3, <2>4, <2>5
<1>5. Sound(D, m2, C, X)
  <2>1. Placed(D, m, C, X) <=> Placed(D, m2, C, X)
    BY <1>3, <1>4 DEF Placed
  <2> QED BY <1>1, <1>3, <1>4, <2>1 DEF Sound
<1>6. Elsewhere(m, m2, C, KERNEL, {})
  BY <1>4 DEF Elsewhere
<1>7. \A x \in X : IsLeaf(D, m2, x) => IsLeaf(D, m, x)
  BY <1>4
<1>8. Good(D, m2, C, X, R, F)
  BY <1>5, <1>6, <1>7, GoodSame
<1> QED BY <1>3, <1>8 DEF m2

LEMMA GoodBirth ==
  ASSUME NEW D, NEW m, NEW C, NEW X, NEW R, NEW F, Good(D, m, C, X, R, F),
         NEW c \in m.free, NEW m2, Birth(m, m2, c)
  PROVE  Good([D EXCEPT ![c] = 0], m2, C \cup {c}, X, R, F) /\ Tops(m, m2, C)
<1> DEFINE E == [D EXCEPT ![c] = 0]
           B == C \cup {c}
<1>1. /\ Sound(D, m, C, X) /\ \A r \in R : Whole(m, C, X, r)
      /\ \A r, s \in R : Apart(r, s)
  BY GoodParts
<1>2. /\ Sound(E, m2, B, X)
      /\ \A x \in Frame : IsLeaf(E, m2, x) <=> IsLeaf(D, m, x)
      /\ \A d \in C, u \in Nat : GetPte(m2, d, u) = GetPte(m, d, u)
      /\ \A u \in Nat : Own(c, u) => GetPte(m2, c, u) = NoEntry
      /\ Tops(m, m2, C)
  <2>1. Sound(D, m, C, X)
    BY <1>1
  <2> HIDE DEF E, B
  <2>2. /\ Sound([D EXCEPT ![c] = 0], m2, C \cup {c}, X)
        /\ \A x \in Frame : IsLeaf([D EXCEPT ![c] = 0], m2, x) <=> IsLeaf(D, m, x)
        /\ \A d \in C, u \in Nat : GetPte(m2, d, u) = GetPte(m, d, u)
        /\ \A u \in Nat : Own(c, u) => GetPte(m2, c, u) = NoEntry
        /\ Tops(m, m2, C) /\ c \in Frame /\ c \notin C /\ c # KERNEL
    BY <2>1, BirthSound
  <2> QED BY <2>2 DEF E, B
<1>3. X \subseteq Frame
  BY <1>1, SoundParts
<1>4. \A d \in B : d # c => d \in C
  OBVIOUS
<1>5. C \subseteq B
  OBVIOUS
<1> HIDE DEF E, B
<1>6. HeldMapped(E, m2, B, X)
  <2>1. ASSUME NEW x \in X, IsLeaf(E, m2, x)
        PROVE  \E d \in B, v \in UserPages : GetPte(m2, d, v).frame = x
    <3>1. IsLeaf(D, m, x)
      BY <1>2, <1>3, <2>1
    <3>2. PICK d \in C, v \in UserPages : GetPte(m, d, v).frame = x
      BY <3>1, GoodParts
    <3>3. v \in Nat
      BY UserOwn
    <3> QED BY <1>2, <1>5, <3>2, <3>3
  <2> QED BY <2>1 DEF HeldMapped
<1>7. ASSUME NEW r \in R PROVE Whole(m2, B, X, r)
  <2>1. /\ r.ctx \in C /\ r.base \in PagesOf(r)
        /\ \A v \in PagesOf(r) : /\ v \in Page /\ Own(r.ctx, v)
                                 /\ IsMapped(m, r.ctx, v) /\ GetPte(m, r.ctx, v).frame \notin X
    BY <1>1 DEF Whole
  <2>2. \A v \in PagesOf(r) : GetPte(m2, r.ctx, v) = GetPte(m, r.ctx, v)
    BY <1>2, <2>1, PageNat
  <2> QED BY <1>5, <2>1, <2>2 DEF Whole, IsMapped
<1>8. ASSUME NEW d \in B, NEW v \in Page, Own(d, v), IsMapped(m2, d, v)
      PROVE  Claimed(m2, X, R, F, d, v)
  <2>1. v \in Nat
    BY PageNat
  <2>2. d # c
    BY <1>2, <1>8, <2>1 DEF IsMapped
  <2>3. d \in C /\ GetPte(m2, d, v) = GetPte(m, d, v)
    BY <1>2, <1>4, <2>1, <2>2
  <2>4. Claimed(m, X, R, F, d, v)
    BY <1>8, <2>3, GoodParts DEF IsMapped
  <2> QED BY <2>3, <2>4 DEF Claimed
<1>9. Good(E, m2, B, X, R, F)
  BY <1>1, <1>2, <1>6, <1>7, <1>8 DEF Good
<1> QED BY <1>2, <1>9 DEF E, B

\* A context that is destroyed maps no page of its own.
LEMMA GoodDeath ==
  ASSUME NEW D, NEW m, NEW C, NEW X, NEW R, NEW F, Good(D, m, C, X, R, F),
         NEW c \in C, c # KERNEL, \A i \in Index \ Upper : m.tab[c][i].frame = 0,
         NEW m2, Death(m, m2, c)
  PROVE  Good([D EXCEPT ![c] = NULL], m2, C \ {c}, X, R, F) /\ Tops(m, m2, C \ {c})
<1> DEFINE E == [D EXCEPT ![c] = NULL]
           B == C \ {c}
<1>1. /\ Sound(D, m, C, X) /\ \A r \in R : Whole(m, C, X, r)
      /\ \A r, s \in R : Apart(r, s)
  BY GoodParts
<1>2. /\ Sound(E, m2, B, X)
      /\ \A x \in Frame : IsLeaf(E, m2, x) <=> IsLeaf(D, m, x)
      /\ \A d \in B, u \in Nat : GetPte(m2, d, u) = GetPte(m, d, u)
      /\ \A u \in Nat : Own(c, u) => GetPte(m, c, u) = NoEntry
      /\ Tops(m, m2, B)
  BY <1>1, DeathSound
<1>3. X \subseteq Frame /\ 0 \notin Frame
  <2>1. X \subseteq Frame
    BY <1>1, SoundParts
  <2> QED BY <2>1 DEF Frame
<1>4. \A d \in C : d # c => d \in B
  OBVIOUS
<1>5. B \subseteq C
  OBVIOUS
<1> HIDE DEF E, B
<1>6. HeldMapped(E, m2, B, X)
  <2>1. ASSUME NEW x \in X, IsLeaf(E, m2, x)
        PROVE  \E d \in B, v \in UserPages : GetPte(m2, d, v).frame = x
    <3>1. IsLeaf(D, m, x)
      BY <1>2, <1>3, <2>1
    <3>2. PICK d \in C, v \in UserPages : GetPte(m, d, v).frame = x
      BY <3>1, GoodParts
    <3>3. v \in Nat /\ Own(d, v)
      BY UserOwn
    <3>4. d # c
      BY <1>2, <1>3, <3>2, <3>3 DEF NoEntry
    <3> QED BY <1>2, <1>4, <3>2, <3>3, <3>4
  <2> QED BY <2>1 DEF HeldMapped
<1>7. ASSUME NEW r \in R PROVE Whole(m2, B, X, r)
  <2>1. /\ r.ctx \in C /\ r.base \in PagesOf(r)
        /\ \A v \in PagesOf(r) : /\ v \in Page /\ Own(r.ctx, v)
                                 /\ IsMapped(m, r.ctx, v) /\ GetPte(m, r.ctx, v).frame \notin X
    BY <1>1 DEF Whole
  <2>2. r.ctx # c
    <3>1. r.base \in Page /\ Own(r.ctx, r.base) /\ GetPte(m, r.ctx, r.base) # NoEntry
      BY <2>1 DEF IsMapped
    <3> QED BY <1>2, <3>1, PageNat
  <2>3. r.ctx \in B
    BY <1>4, <2>1, <2>2
  <2>4. \A v \in PagesOf(r) : GetPte(m2, r.ctx, v) = GetPte(m, r.ctx, v)
    BY <1>2, <2>1, <2>3, PageNat
  <2> QED BY <2>1, <2>3, <2>4 DEF Whole, IsMapped
<1>8. ASSUME NEW d \in B, NEW v \in Page, Own(d, v), IsMapped(m2, d, v)
      PROVE  Claimed(m2, X, R, F, d, v)
  <2>1. v \in Nat
    BY PageNat
  <2>2. d \in C /\ GetPte(m2, d, v) = GetPte(m, d, v)
    BY <1>2, <1>5, <2>1
  <2>3. Claimed(m, X, R, F, d, v)
    BY <1>8, <2>2, GoodParts DEF IsMapped
  <2> QED BY <2>2, <2>3 DEF Claimed
<1>9. Good(E, m2, B, X, R, F)
  BY <1>1, <1>2, <1>6, <1>7, <1>8 DEF Good
<1> QED BY <1>2, <1>9 DEF E, B

LEMMA MappingElsewhere ==
  ASSUME NEW D, NEW m, NEW C, NEW X, NEW D2, NEW m2, NEW c, NEW base, NEW first, NEW n, NEW flags,
         Mapping(D, m, C, X, D2, m2, c, base, first, n, flags), NEW h,
         \A v \in Run(base, n) : Home(c, v) = h
  PROVE  /\ Sound(D2, m2, C, X) /\ Tops(m, m2, C)
         /\ \A x \in Frame : IsLeaf(D2, m2, x) <=> IsLeaf(D, m, x) \/ x \in Run(first, n)
         /\ Elsewhere(m, m2, C, h, Run(base, n))
<1>1. ASSUME NEW d \in C, NEW u \in Page, Own(d, u), d = h => u \notin Run(base, n)
      PROVE  GetPte(m2, d, u).frame = GetPte(m, d, u).frame
  <2>1. u \in Run(base, n) => d # Home(c, u)
    BY <1>1
  <2> QED BY <1>1, <2>1 DEF Mapping
<1> QED BY <1>1 DEF Mapping, Elsewhere

\* R, and new if ok.
With(R, new, ok) == IF ok THEN R \cup {new} ELSE R

LEMMA GoodAlloc ==
  ASSUME NEW D, NEW m, NEW C, NEW X, NEW R, NEW F, Good(D, m, C, X, R, F), NEW c \in C, NEW h \in C,
         NEW base \in Nat, NEW first \in Nat, NEW n \in Nat, 0 < n, NEW flags \in {"kernel", "user"},
         Run(first, n) \subseteq m.free,
         \A v \in Run(base, n) : v \in Page /\ Reach(m, c, v) /\ Home(c, v) = h,
         NEW new, new.ctx = h, new.base = base, new.n = n,
         NEW r, r = AllocRun(m, c, base, first, n, flags)
  PROVE  /\ r.ok \in BOOLEAN /\ Tops(m, r.mem, C)
         /\ \E D2 : Good(D2, r.mem, C, X, With(R, new, r.ok), F) /\ (r.ok => new \notin R)
<1>1. Sound(D, m, C, X)
  BY GoodParts
<1>2. Tried(D, m, C, X, r, c, base, first, n, flags)
  <2>1. Run(base, n) \subseteq Page /\ \A v \in Run(base, n) : Reach(m, c, v)
    OBVIOUS
  <2> QED BY <1>1, <2>1, AllocRunTries
<1>3. PICK D2 : Mapping(D, m, C, X, D2, r.mem, c, base, first, IF r.ok THEN n ELSE 0, flags)
  BY <1>2 DEF Tried
<1>4. r.ok \in BOOLEAN
  BY <1>2 DEF Tried
<1>5. X \subseteq Frame /\ \A x \in X : x \notin Run(first, n)
  <2>1. X \subseteq Frame
    BY <1>1, SoundParts
  <2>2. \A x \in X : x \notin m.free
    BY <1>1, SoundPlaces
  <2> QED BY <2>1, <2>2
<1>6. KERNEL \in C
  BY <1>1, SoundParts
<1>7. CASE r.ok
  <2>1. Mapping(D, m, C, X, D2, r.mem, c, base, first, n, flags)
    BY <1>3, <1>7
  <2>2. /\ Sound(D2, r.mem, C, X) /\ Tops(m, r.mem, C)
        /\ \A x \in Frame : IsLeaf(D2, r.mem, x) <=> IsLeaf(D, m, x) \/ x \in Run(first, n)
        /\ Elsewhere(m, r.mem, C, h, Run(base, n))
    BY <2>1, MappingElsewhere
  <2>3. \A x \in X : IsLeaf(D2, r.mem, x) => IsLeaf(D, m, x)
    BY <1>5, <2>2
  <2>4. ASSUME NEW v \in Run(base, n)
        PROVE  /\ Own(h, v) /\ GetPte(m, h, v) = NoEntry
               /\ IsMapped(r.mem, h, v) /\ GetPte(r.mem, h, v).frame \notin X
    <3>1. PICK j \in 0 .. n - 1 : v = base + j
      <4>1. v - base \in 0 .. n - 1 /\ v = base + (v - base)
        BY <2>4 DEF Run
      <4> QED BY <4>1
    <3>2. Home(c, v) = h /\ Own(h, v)
      BY <1>6, HomeOwn
    <3>3. GetPte(m, h, v) = NoEntry /\ GetPte(r.mem, h, v) = Pte(first + j, flags)
      BY <2>1, <3>1, <3>2 DEF Mapping
    <3>4. first + j \in Run(first, n)
      BY <3>1 DEF Run
    <3>5. first + j \in Frame
      <4>1. m.free \subseteq Frame
        BY <1>1, SoundParts
      <4> QED BY <3>4, <4>1
    <3>6. Pte(first + j, flags).frame = first + j /\ Pte(first + j, flags) # NoEntry
      BY <3>5, PteType
    <3> QED BY <1>5, <3>2, <3>3, <3>4, <3>6 DEF IsMapped
  <2>5. PagesOf(new) = Run(base, n)
    BY DEF PagesOf
  <2>6. base \in Run(base, n)
    BY DEF Run
  <2>7. Good(D2, r.mem, C, X, R \cup {new}, F) /\ new \notin R
    <3>1. new.ctx \in C /\ new.base \in PagesOf(new) /\ PagesOf(new) \subseteq Page
      BY <2>5, <2>6
    <3>2. Elsewhere(m, r.mem, C, new.ctx, PagesOf(new))
      BY <2>2, <2>5
    <3>3. \A v \in PagesOf(new) :
            /\ Own(new.ctx, v) /\ GetPte(m, new.ctx, v) = NoEntry
            /\ IsMapped(r.mem, new.ctx, v) /\ GetPte(r.mem, new.ctx, v).frame \notin X
      BY <2>4, <2>5
    <3> QED BY <2>2, <2>3, <3>1, <3>2, <3>3, GoodRegion
  <2>8. With(R, new, r.ok) = R \cup {new}
    BY <1>7 DEF With
  <2>9. Good(D2, r.mem, C, X, With(R, new, r.ok), F)
    BY <2>7, <2>8
  <2> QED BY <1>4, <2>2, <2>7, <2>9
<1>8. CASE ~ r.ok
  <2>1. Mapping(D, m, C, X, D2, r.mem, c, base, first, 0, flags)
    BY <1>3, <1>8
  <2>2. Run(base, 0) = {} /\ Run(first, 0) = {}
    BY DEF Run
  <2>3. /\ Sound(D2, r.mem, C, X) /\ Tops(m, r.mem, C)
        /\ \A x \in Frame : IsLeaf(D2, r.mem, x) <=> IsLeaf(D, m, x) \/ x \in {}
        /\ Elsewhere(m, r.mem, C, KERNEL, {})
    <3>1. \A v \in Run(base, 0) : Home(c, v) = KERNEL
      BY <2>2
    <3>2. /\ Sound(D2, r.mem, C, X) /\ Tops(m, r.mem, C)
          /\ \A x \in Frame : IsLeaf(D2, r.mem, x) <=> IsLeaf(D, m, x) \/ x \in Run(first, 0)
          /\ Elsewhere(m, r.mem, C, KERNEL, Run(base, 0))
      BY <2>1, <3>1, MappingElsewhere
    <3> QED BY <2>2, <3>2
  <2>4. \A x \in X : IsLeaf(D2, r.mem, x) => IsLeaf(D, m, x)
    BY <1>5, <2>3
  <2>5. Good(D2, r.mem, C, X, R, F)
    BY <2>3, <2>4, GoodSame
  <2>6. Good(D2, r.mem, C, X, With(R, new, r.ok), F)
    BY <1>8, <2>5 DEF With
  <2> QED BY <1>4, <1>8, <2>3, <2>6
<1> QED BY <1>4, <1>7, <1>8

\* Pages are freed: those of the regions that R2 leaves out, or no region's.
LEMMA GoodFree ==
  ASSUME NEW D, NEW m, NEW C, NEW X, NEW R, NEW F, Good(D, m, C, X, R, F), NEW c \in C, NEW h \in C,
         NEW base \in Nat, NEW n \in Nat,
         \A v \in Run(base, n) : /\ v \in Page /\ Reach(m, c, v) /\ Home(c, v) = h
                                 /\ GetPte(m, h, v).frame \notin X,
         NEW R2 \in SUBSET R, \A r \in R : r \in R2 \/ (r.ctx = h /\ PagesOf(r) \subseteq Run(base, n)),
         \A r \in R2 : r.ctx = h => PagesOf(r) \cap Run(base, n) = {},
         NEW F2, \A u \in F : u \in F2 \/ (h = KERNEL /\ u \in Run(base, n)),
         NEW m2, m2 = FreePages(m, c, base, n)
  PROVE  Good(D, m2, C, X, R2, F2) /\ Tops(m, m2, C)
<1>1. Sound(D, m, C, X)
  BY GoodParts
<1>2. Run(base, n) \in SUBSET Page
  OBVIOUS
<1>3. \A v \in Run(base, n) : Reach(m, c, v) /\ GetPte(m, c, v).frame \notin X
  <2> TAKE v \in Run(base, n)
  <2>1. v \in Nat
    BY PageNat
  <2>2. GetPte(m, c, v) = GetPte(m, h, v)
    BY <1>1, <2>1, AtHome
  <2> QED BY <2>2
<1>4. Freeing(D, m, C, X, m2, c, base, n)
  BY <1>1, <1>2, <1>3, FreePagesFrees
<1>5. /\ Sound(D, m2, C, X) /\ Tops(m, m2, C)
      /\ \A x \in Frame : IsLeaf(D, m2, x) => IsLeaf(D, m, x)
      /\ \A v \in Run(base, n) : GetPte(m2, Home(c, v), v) = NoEntry
      /\ \A d \in C, u \in Page : Own(d, u) /\ (u \in Run(base, n) => d # Home(c, u)) =>
           GetPte(m2, d, u) = GetPte(m, d, u)
  BY <1>4 DEF Freeing
<1>6. Elsewhere(m, m2, C, h, Run(base, n))
  <2>1. ASSUME NEW d \in C, NEW u \in Page, Own(d, u), d = h => u \notin Run(base, n)
        PROVE  GetPte(m2, d, u).frame = GetPte(m, d, u).frame
    <3>1. u \in Run(base, n) => d # Home(c, u)
      BY <2>1
    <3> QED BY <1>5, <2>1, <3>1
  <2> QED BY <2>1 DEF Elsewhere
<1>7. \A x \in X : IsLeaf(D, m2, x) => IsLeaf(D, m, x)
  <2>1. X \subseteq Frame
    BY <1>1, SoundParts
  <2> QED BY <1>5, <2>1
<1>8. \A v \in Run(base, n) : GetPte(m, h, v).frame \notin X /\ GetPte(m2, h, v) = NoEntry
  BY <1>5
<1>9. Sound(D, m2, C, X)
  BY <1>5
<1>10. Good(D, m2, C, X, R2, F2)
  BY <1>2, <1>6, <1>7, <1>8, <1>9, GoodLess
<1> QED BY <1>5, <1>10

\* A caller unmaps a page that it mapped a frame of its own at.
LEMMA GoodUnmap ==
  ASSUME NEW D, NEW m, NEW C, NEW X, NEW R, NEW F, Good(D, m, C, X, R, F), NEW c \in C,
         NEW v \in UserPages, GetPte(m, c, v).frame \in X, NEW m2, m2 = UnmapPage(m, c, v)
  PROVE  Good(D, m2, C, X, R, F) /\ Tops(m, m2, C)
<1>1. /\ Sound(D, m, C, X) /\ \A r \in R : Whole(m, C, X, r)
      /\ \A r, s \in R : Apart(r, s)
  BY GoodParts
<1>2. v \in Page /\ v \in Nat /\ Own(c, v) /\ Home(c, v) = c
  BY UserOwn
<1>3. Cutting(D, m, C, X, m2, c, v, 1)
  BY <1>1, <1>2, UnmapCuts DEF Reach
<1>4. \A u : u \in Run(v, 1) <=> u = v
  BY <1>2 DEF Run
<1> DEFINE Y == FramesOf(m, c, Run(v, 1))
<1>5. \A x : x \in Y <=> x \in Frame /\ GetPte(m, c, v).frame = x
  BY <1>4 DEF FramesOf
<1> HIDE DEF Y
<1>6. X \cup Y = X
  BY <1>5
<1>7. /\ Sound(D, m2, C, X \cup Y) /\ Tops(m, m2, C)
      /\ \A x \in Frame : IsLeaf(D, m2, x) <=> IsLeaf(D, m, x) /\ x \notin Y
      /\ \A d \in C, u \in Page : Own(d, u) /\ (u \in Run(v, 1) => d # Home(c, u)) =>
           GetPte(m2, d, u) = GetPte(m, d, u)
      /\ \A u \in Run(v, 1) : GetPte(m2, Home(c, u), u) = NoEntry
  BY <1>3 DEF Cutting, Y
<1>8. Sound(D, m2, C, X)
  BY <1>6, <1>7
<1>9. Elsewhere(m, m2, C, c, {v})
  <2>1. ASSUME NEW d \in C, NEW u \in Page, Own(d, u), d = c => u \notin {v}
        PROVE  GetPte(m2, d, u).frame = GetPte(m, d, u).frame
    <3>1. u \in Run(v, 1) => d # Home(c, u)
      BY <1>2, <1>4, <2>1
    <3> QED BY <1>7, <2>1, <3>1
  <2> QED BY <2>1 DEF Elsewhere
<1>10. HeldMapped(D, m2, C, X)
  <2>1. ASSUME NEW x \in X, IsLeaf(D, m2, x)
        PROVE  \E d \in C, u \in UserPages : GetPte(m2, d, u).frame = x
    <3>1. x \in Frame
      BY <1>1, SoundParts
    <3>2. IsLeaf(D, m, x) /\ x # GetPte(m, c, v).frame
      BY <1>5, <1>7, <2>1, <3>1
    <3>3. PICK d \in C, u \in UserPages : GetPte(m, d, u).frame = x
      BY <3>2, GoodParts
    <3>4. u \in Page /\ Own(d, u)
      BY UserOwn
    <3>5. d = c => u \notin {v}
      BY <3>2, <3>3
    <3> QED BY <1>9, <3>3, <3>4, <3>5 DEF Elsewhere
  <2> QED BY <2>1 DEF HeldMapped
<1>11. ASSUME NEW r \in R PROVE Whole(m2, C, X, r)
  <2>1. Whole(m, C, X, r)
    BY <1>1
  <2>2. r.ctx = c => PagesOf(r) \cap {v} = {}
    BY <2>1 DEF Whole
  <2> QED BY <1>1, <1>8, <1>9, <2>1, <2>2, WholeStays
<1>12. ASSUME NEW d \in C, NEW u \in Page, Own(d, u), IsMapped(m2, d, u)
       PROVE  Claimed(m2, X, R, F, d, u)
  <2>1. d = c => u \notin {v}
    BY <1>2, <1>4, <1>7, <1>12 DEF IsMapped
  <2>2. (\A r \in R : r \in R \/ (r.ctx = c /\ PagesOf(r) \subseteq {v}))
        /\ (\A w \in F : w \in F \/ (c = KERNEL /\ w \in {v}))
    OBVIOUS
  <2> QED BY <1>8, <1>9, <1>12, <2>1, <2>2, ClaimStays
<1> QED BY <1>1, <1>7, <1>8, <1>10, <1>11, <1>12 DEF Good

\* A caller maps a frame of its own that is mapped nowhere.
LEMMA GoodPage ==
  ASSUME NEW D, NEW m, NEW C, NEW X, NEW R, NEW F, Good(D, m, C, X, R, F), NEW c \in C,
         NEW v \in UserPages, NEW f \in X, ~ \E d \in C, u \in UserPages : GetPte(m, d, u).frame = f,
         NEW m2, m2 = MapPage(m, c, v, Pte(f, "kernel")).mem
  PROVE  Tops(m, m2, C) /\ \E D2 : Good(D2, m2, C, X, R, F)
<1>1. /\ Sound(D, m, C, X) /\ \A r \in R : Whole(m, C, X, r)
      /\ \A r, s \in R : Apart(r, s)
  BY GoodParts
<1>2. v \in Page /\ v \in Nat /\ Own(c, v) /\ Home(c, v) = c
  BY UserOwn
<1>3. ~ IsLeaf(D, m, f)
  BY GoodParts
<1>4. PICK r : r = MapPage(m, c, v, Pte(f, "kernel"))
  OBVIOUS
<1>5. PICK D2 : Mapping(D, m, C, X, D2, r.mem, c, v, f, IF r.ok THEN 1 ELSE 0, "kernel")
  <2>1. Reach(m, c, v)
    BY <1>2 DEF Reach
  <2>2. \E D2 : Mapping(D, m, C, X, D2, r.mem, c, v, f, IF r.ok THEN 1 ELSE 0, "kernel")
    BY <1>1, <1>2, <1>3, <1>4, <2>1, PageMapped
  <2> QED BY <2>2
<1>6. r.mem = m2
  BY <1>4
<1>7. f \in Frame /\ f \in Nat /\ X \subseteq Frame
  <2>1. X \subseteq Frame
    BY <1>1, SoundParts
  <2> QED BY <2>1 DEF Frame
<1>8. CASE r.ok
  <2>1. Mapping(D, m, C, X, D2, m2, c, v, f, 1, "kernel")
    BY <1>5, <1>6, <1>8
  <2>2. \A u : (u \in Run(v, 1) <=> u = v) /\ (u \in Run(f, 1) <=> u = f)
    BY <1>2, <1>7 DEF Run
  <2>3. /\ Sound(D2, m2, C, X) /\ Tops(m, m2, C)
        /\ \A x \in Frame : IsLeaf(D2, m2, x) <=> IsLeaf(D, m, x) \/ x \in Run(f, 1)
        /\ Elsewhere(m, m2, C, c, Run(v, 1))
    <3>1. \A u \in Run(v, 1) : Home(c, u) = c
      BY <1>2, <2>2
    <3> QED BY <2>1, <3>1, MappingElsewhere
  <2>4. Run(v, 1) = {v}
    BY <2>2
  <2>5. Elsewhere(m, m2, C, c, {v})
    BY <2>3, <2>4
  <2>6. GetPte(m, c, v) = NoEntry /\ GetPte(m2, c, v) = Pte(f, "kernel")
    <3>1. 0 \in 0 .. 1 - 1 /\ v + 0 = v /\ f + 0 = f
      BY <1>2, <1>7
    <3>2. /\ GetPte(m, Home(c, v + 0), v + 0) = NoEntry
          /\ GetPte(m2, Home(c, v + 0), v + 0) = Pte(f + 0, "kernel")
      BY <2>1, <3>1 DEF Mapping
    <3> QED BY <1>2, <3>1, <3>2
  <2>7. GetPte(m2, c, v).frame = f /\ GetPte(m, c, v).frame = 0 /\ 0 \notin X
    <3>1. Pte(f, "kernel").frame = f /\ NoEntry.frame = 0 /\ 0 \notin Frame
      BY <1>7, PteType
    <3> QED BY <1>7, <2>6, <3>1
  <2>8. HeldMapped(D2, m2, C, X)
    <3>1. ASSUME NEW x \in X, IsLeaf(D2, m2, x)
          PROVE  \E d \in C, u \in UserPages : GetPte(m2, d, u).frame = x
      <4>1. CASE x = f
        BY <2>7, <4>1
      <4>2. CASE x # f
        <5>1. IsLeaf(D, m, x)
          BY <1>7, <2>2, <2>3, <3>1, <4>2
        <5>2. PICK d \in C, u \in UserPages : GetPte(m, d, u).frame = x
          BY <5>1, GoodParts
        <5>3. u \in Page /\ Own(d, u)
          BY UserOwn
        <5>4. d = c => u \notin {v}
          BY <2>7, <5>2
        <5> QED BY <2>5, <5>2, <5>3, <5>4 DEF Elsewhere
      <4> QED BY <4>1, <4>2
    <3> QED BY <3>1 DEF HeldMapped
  <2>9. ASSUME NEW s \in R PROVE Whole(m2, C, X, s)
    <3>1. Whole(m, C, X, s)
      BY <1>1
    <3>2. s.ctx = c => PagesOf(s) \cap {v} = {}
      BY <2>6, <3>1 DEF Whole, IsMapped
    <3> QED BY <1>1, <2>3, <2>5, <3>1, <3>2, WholeStays
  <2>10. ASSUME NEW d \in C, NEW u \in Page, Own(d, u), IsMapped(m2, d, u)
         PROVE  Claimed(m2, X, R, F, d, u)
    <3>1. CASE d = c /\ u = v
      BY <2>7, <3>1 DEF Claimed
    <3>2. CASE d = c => u \notin {v}
      <4>1. (\A s \in R : s \in R \/ (s.ctx = c /\ PagesOf(s) \subseteq {v}))
            /\ (\A w \in F : w \in F \/ (c = KERNEL /\ w \in {v}))
        OBVIOUS
      <4> QED BY <2>3, <2>5, <2>10, <3>2, <4>1, ClaimStays
    <3> QED BY <3>1, <3>2
  <2> QED BY <1>1, <2>3, <2>8, <2>9, <2>10 DEF Good
<1>9. CASE ~ r.ok
  <2>1. Mapping(D, m, C, X, D2, m2, c, v, f, 0, "kernel")
    BY <1>5, <1>6, <1>9
  <2>2. Run(v, 0) = {} /\ Run(f, 0) = {}
    BY <1>2, <1>7 DEF Run
  <2>3. /\ Sound(D2, m2, C, X) /\ Tops(m, m2, C)
        /\ \A x \in Frame : IsLeaf(D2, m2, x) <=> IsLeaf(D, m, x) \/ x \in {}
        /\ Elsewhere(m, m2, C, KERNEL, {})
    <3>1. \A u \in Run(v, 0) : Home(c, u) = KERNEL
      BY <2>2
    <3>2. /\ Sound(D2, m2, C, X) /\ Tops(m, m2, C)
          /\ \A x \in Frame : IsLeaf(D2, m2, x) <=> IsLeaf(D, m, x) \/ x \in Run(f, 0)
          /\ Elsewhere(m, m2, C, KERNEL, Run(v, 0))
      BY <2>1, <3>1, MappingElsewhere
    <3> QED BY <2>2, <3>2
  <2>4. \A x \in X : IsLeaf(D2, m2, x) => IsLeaf(D, m, x)
    BY <1>7, <2>3
  <2>5. Good(D2, m2, C, X, R, F)
    BY <2>3, <2>4, GoodSame
  <2> QED BY <2>3, <2>5
<1> QED BY <1>8, <1>9

\* It maps one again where it is mapped: the entry that is there stays.
LEMMA GoodAgain ==
  ASSUME NEW D, NEW m, NEW C, NEW X, NEW R, NEW F, Good(D, m, C, X, R, F), NEW c \in C,
         NEW v \in UserPages, NEW f \in X, GetPte(m, c, v).frame = f,
         NEW pte, NEW m2, m2 = MapPage(m, c, v, pte).mem
  PROVE  Tops(m, m2, C) /\ \E D2 : Good(D2, m2, C, X, R, F)
<1>1. Sound(D, m, C, X)
  BY GoodParts
<1>2. v \in Nat /\ Reach(m, c, v)
  BY UserOwn DEF Reach
<1>3. PICK r : r = MapPage(m, c, v, pte)
  OBVIOUS
<1>4. PICK D2, m1 :
         /\ Grown(D, m, C, X, D2, m1)
         /\ \/ r.mem = m1 /\ (r.ok => GetPte(m, c, v) = pte)
            \/ /\ r.ok /\ GetPte(m1, c, v) = NoEntry /\ TableOf(m1, c, v) # 0
               /\ r.mem = SetPte(m1, TableOf(m1, c, v), v, pte)
  BY <1>1, <1>2, <1>3, MapPageIs
<1>5. /\ Sound(D2, m1, C, X) /\ Tops(m, m1, C)
      /\ \A x \in Frame : IsLeaf(D2, m1, x) <=> IsLeaf(D, m, x)
      /\ \A d \in C, u \in Nat : GetPte(m1, d, u) = GetPte(m, d, u)
  BY <1>4 DEF Grown
<1>6. X \subseteq Frame /\ 0 \notin Frame
  <2>1. X \subseteq Frame
    BY <1>1, SoundParts
  <2> QED BY <2>1 DEF Frame
<1>7. GetPte(m1, c, v) # NoEntry
  BY <1>2, <1>5, <1>6 DEF NoEntry
<1>8. m2 = m1
  BY <1>3, <1>4, <1>7
<1>9. Elsewhere(m, m1, C, KERNEL, {})
  BY <1>5, PageNat DEF Elsewhere
<1>10. \A x \in X : IsLeaf(D2, m1, x) => IsLeaf(D, m, x)
  BY <1>5, <1>6
<1>11. Good(D2, m1, C, X, R, F)
  BY <1>5, <1>9, <1>10, GoodSame
<1> QED BY <1>5, <1>8, <1>11

LEMMA GoodProtect ==
  ASSUME NEW D, NEW m, NEW C, NEW X, NEW R, NEW F, Good(D, m, C, X, R, F),
         NEW m2, SameFrames(D, m, C, X, m2)
  PROVE  Good(D, m2, C, X, R, F) /\ Tops(m, m2, C)
<1>1. /\ Sound(D, m2, C, X) /\ Tops(m, m2, C)
      /\ \A x \in Frame : IsLeaf(D, m2, x) <=> IsLeaf(D, m, x)
      /\ \A d \in C, u \in Nat : GetPte(m2, d, u).frame = GetPte(m, d, u).frame
  BY DEF SameFrames
<1>2. X \subseteq Frame
  BY <1>1, SoundParts
<1>3. Elsewhere(m, m2, C, KERNEL, {})
  BY <1>1, PageNat DEF Elsewhere
<1>4. \A x \in X : IsLeaf(D, m2, x) => IsLeaf(D, m, x)
  BY <1>1, <1>2
<1> QED BY <1>1, <1>3, <1>4, GoodSame

-------------------------------------------------------------------------------
(***************************************************************************)
(* The inductive invariant: some depth of the tables makes the memory      *)
(* good, every context that may run reaches the kernel heap, and the       *)
(* records of what was allocated name what callers may name.               *)
(***************************************************************************)
AsBlock(r) == [ctx |-> KERNEL, base |-> r.base, n |-> r.n]
RegionsOf(bl, vm) == bl \cup {AsBlock(r) : r \in vm}

Runnable(m, C, cur, comp) ==
  /\ cur \in comp \cup {KERNEL} /\ comp \subseteq C
  /\ \A c \in comp, v \in HeapPages : Reach(m, c, v)

Lists(next, vm, bl, F) ==
  /\ next \in HEAP_BASE .. HEAP_END
  /\ vm \subseteq [base : HeapPages, n : Sizes] /\ bl \subseteq [ctx : Frame, base : Page, n : Sizes]
  /\ \A r \in vm : Run(r.base, r.n) \subseteq HeapPages /\ AsBlock(r) \notin bl
  /\ F \subseteq Page

Fit(m, C, cur, next, vm, bl, X, F, comp) ==
  /\ \E D : Good(D, m, C, X, RegionsOf(bl, vm), F)
  /\ Runnable(m, C, cur, comp) /\ Lists(next, vm, bl, F)

IInv == Fit(mem, contexts, current, heapNext, vmallocs, blocks, held, faulted, complete)

LEMMA RunnableStays ==
  ASSUME NEW m, NEW m2, NEW C, NEW cur, NEW comp, Runnable(m, C, cur, comp), Tops(m, m2, C)
  PROVE  Runnable(m2, C, cur, comp)
<1>1. cur \in comp \cup {KERNEL} /\ comp \subseteq C
  BY DEF Runnable
<1>2. ASSUME NEW c \in comp, NEW v \in HeapPages PROVE Reach(m2, c, v)
  <2>1. Reach(m, c, v)
    BY DEF Runnable
  <2>2. v \in Nat /\ c \in C
    BY <1>1, HeapOwn
  <2> QED BY <2>1, <2>2, GrownReach
<1> QED BY <1>1, <1>2 DEF Runnable

\* The context that runs reaches the kernel heap.
LEMMA RunnableReach ==
  ASSUME NEW D, NEW m, NEW C, NEW X, Sound(D, m, C, X),
         NEW cur, NEW comp, Runnable(m, C, cur, comp)
  PROVE  cur \in C /\ \A v \in HeapPages : Reach(m, cur, v)
<1>1. cur \in comp \cup {KERNEL} /\ comp \subseteq C /\ KERNEL \in C
  BY SoundParts DEF Runnable
<1>2. CASE cur \in comp
  BY <1>1, <1>2 DEF Runnable
<1>3. CASE cur = KERNEL
  BY <1>1, <1>3 DEF Reach, Own
<1> QED BY <1>1, <1>2, <1>3

LEMMA SameTops ==
  ASSUME NEW m, NEW m2, m2.tab = m.tab, NEW C
  PROVE  Tops(m, m2, C)
BY DEF Tops

LEMMA InitFits ==
  ASSUME Init
  PROVE  IInv
<1> DEFINE D == [f \in Frame |-> IF f = KERNEL THEN 0 ELSE NULL]
<1>1. /\ mem = [free |-> Frame \ {KERNEL}, tab |-> [f \in Frame |-> EmptyTable], panic |-> "no"]
      /\ contexts = {KERNEL} /\ current = KERNEL /\ heapNext = HEAP_BASE
      /\ vmallocs = {} /\ blocks = {} /\ held = {} /\ faulted = {} /\ complete = {}
  BY DEF Init
<1>2. /\ KERNEL \in Frame /\ Last \in Nat /\ Last # 0 /\ NULL # 0 /\ NULL \notin 0 .. Last
      /\ 0 \notin Frame /\ HEAP_BASE \in HEAP_BASE .. HEAP_END
  BY VMMConstants DEF NULL, Frame
<1>3. mem \in Memories /\ mem.panic = "no" /\ mem.free = Frame \ {KERNEL}
      /\ \A f \in Frame, i \in Index : mem.tab[f][i] = NoEntry
  <2>1. NoEntry \in GoodEntry /\ "no" \in Panics
    BY DEF GoodEntry, Panics
  <2>2. [f \in Frame |-> EmptyTable] \in [Frame -> [Index -> GoodEntry]]
    BY <2>1 DEF EmptyTable
  <2> QED BY <1>1, <2>1, <2>2 DEF Memories, EmptyTable
<1>4. D \in Depths /\ \A f \in Frame : (D[f] = 0 <=> f = KERNEL) /\ D[f] \in {0, NULL}
  BY <1>2 DEF Depths
<1> HIDE DEF D
<1>5. \A f \in Frame, i \in Index, x \in Frame : mem.tab[f][i].frame # x
  BY <1>2, <1>3 DEF NoEntry
<1>6. Levelled(D, mem)
  <2>1. \A g \in Frame : D[g] \notin 1 .. Last
    BY <1>2, <1>4
  <2> QED BY <1>3, <2>1 DEF Levelled
<1>7. Copied(mem, contexts)
  <2>1. \A i \in Upper : i \in Index
    BY VMMConstants DEF Upper, Index
  <2> QED BY <1>1, <1>2, <1>3, <2>1 DEF Copied
<1>8. OneOwner(D, mem, contexts) /\ \A x \in Frame : ~ IsLeaf(D, mem, x)
  BY <1>5 DEF OneOwner, Owns, IsLeaf
<1>9. Placed(D, mem, contexts, held)
  BY <1>1, <1>3, <1>4, <1>5 DEF Placed, Owns
<1>10. Sound(D, mem, contexts, held)
  BY <1>1, <1>2, <1>3, <1>4, <1>6, <1>7, <1>8, <1>9 DEF Sound
<1>11. \A c \in contexts, v \in Page : ~ IsMapped(mem, c, v)
  <2> TAKE c \in contexts, v \in Page
  <2>1. c \in Frame /\ v \in Nat /\ Digit(v, 1) \in Index
    <3>1. v \in Nat /\ 1 \in 1 .. LEVELS
      BY PageNat, VMMConstants
    <3> QED BY <1>1, <1>2, <3>1, DigitType
  <2>2. mem.tab[c][Digit(v, 1)] = NoEntry
    BY <1>3, <2>1
  <2> QED BY <1>3, <2>1, <2>2, TopNone DEF IsMapped
<1>12. RegionsOf(blocks, vmallocs) = {}
  BY <1>1 DEF RegionsOf
<1>13. Good(D, mem, contexts, held, RegionsOf(blocks, vmallocs), faulted)
  BY <1>1, <1>10, <1>11, <1>12 DEF Good, HeldMapped
<1>14. Runnable(mem, contexts, current, complete)
  BY <1>1 DEF Runnable
<1>15. Lists(heapNext, vmallocs, blocks, faulted)
  BY <1>1, <1>2 DEF Lists
<1> QED BY <1>13, <1>14, <1>15 DEF Fit, IInv

-------------------------------------------------------------------------------
(***************************************************************************)
(* Each action keeps the invariant.                                        *)
(***************************************************************************)
LEMMA InvParts ==
  ASSUME IInv
  PROVE  /\ \E D : Good(D, mem, contexts, held, RegionsOf(blocks, vmallocs), faulted)
         /\ Runnable(mem, contexts, current, complete) /\ Lists(heapNext, vmallocs, blocks, faulted)
BY DEF IInv, Fit

\* What changes only the memory and the frames held.
LEMMA MemoryFits ==
  ASSUME IInv, Tops(mem, mem', contexts),
         \E D : Good(D, mem', contexts, held', RegionsOf(blocks, vmallocs), faulted),
         UNCHANGED <<contexts, current, heapNext, vmallocs, blocks, faulted, complete>>
  PROVE  IInv'
<1>1. Runnable(mem, contexts, current, complete) /\ Lists(heapNext, vmallocs, blocks, faulted)
  BY InvParts
<1>2. Runnable(mem', contexts, current, complete)
  BY <1>1, RunnableStays
<1>3. Fit(mem', contexts, current, heapNext, vmallocs, blocks, held', faulted, complete)
  BY <1>1, <1>2 DEF Fit
<1> QED BY <1>3 DEF IInv

LEMMA CreateFits ==
  ASSUME IInv, vmm_create_context
  PROVE  IInv'
<1>1. PICK D : Good(D, mem, contexts, held, RegionsOf(blocks, vmallocs), faulted)
  BY InvParts
<1>2. Runnable(mem, contexts, current, complete) /\ Lists(heapNext, vmallocs, blocks, faulted)
  BY InvParts
<1>3. Sound(D, mem, contexts, held)
  BY <1>1, GoodParts
<1>4. mem \in Memories /\ mem.free \in SUBSET Frame /\ KERNEL \in Frame /\ KERNEL \in contexts
  BY <1>3, SoundParts
<1>5. PICK c : c = PmmChoice(mem.free, 1)
  OBVIOUS
<1>6. /\ mem.free # {}
      /\ mem' = [NewTable(mem, c) EXCEPT !.tab[c] =
                   [i \in Index |-> IF i \in Upper THEN mem.tab[KERNEL][i] ELSE NoEntry]]
      /\ contexts' = contexts \cup {c}
      /\ complete' = IF HeapEntry(mem, KERNEL) # 0 THEN complete \cup {c} ELSE complete
      /\ UNCHANGED <<current, heapNext, vmallocs, blocks, held, faulted>>
  BY <1>5 DEF vmm_create_context
<1>7. c \in mem.free /\ c \in Frame
  BY <1>4, <1>5, <1>6, PmmTakesOne
<1>8. Birth(mem, mem', c)
  BY <1>4, <1>6, <1>7, BirthIs
<1>9. /\ Good([D EXCEPT ![c] = 0], mem', contexts \cup {c}, held, RegionsOf(blocks, vmallocs), faulted)
      /\ Tops(mem, mem', contexts)
  BY <1>1, <1>7, <1>8, GoodBirth
<1>10. Runnable(mem', contexts, current, complete)
  BY <1>2, <1>9, RunnableStays
<1>11. Runnable(mem', contexts \cup {c}, current, complete')
  <2>1. complete' \subseteq contexts \cup {c} /\ current \in complete' \cup {KERNEL}
    BY <1>6, <1>10 DEF Runnable
  <2>2. ASSUME NEW d \in complete', NEW v \in HeapPages PROVE Reach(mem', d, v)
    <3>1. CASE d \in complete
      BY <1>10, <3>1 DEF Runnable
    <3>2. CASE d \notin complete
      <4>1. d = c /\ HeapEntry(mem, KERNEL) # 0
        BY <1>6, <3>2
      <4>2. Digit(v, 1) = Digit(HEAP_BASE, 1) /\ Digit(v, 1) \in Upper /\ Digit(v, 1) \in Index
        <5>1. v \in Nat /\ Digit(v, 1) = Digit(HEAP_BASE, 1) /\ Digit(v, 1) \in Upper
          BY HeapOwn
        <5>2. 1 \in 1 .. LEVELS
          BY VMMConstants
        <5> QED BY <5>1, <5>2, DigitType
      <4>3. mem.tab[KERNEL][Digit(v, 1)].frame # 0
        BY <4>1, <4>2 DEF HeapEntry
      <4>4. mem'.tab[c][Digit(v, 1)] = mem.tab[KERNEL][Digit(v, 1)]
        BY <1>7, <1>8, <4>2 DEF Birth
      <4> QED BY <4>1, <4>3, <4>4 DEF Reach, NoEntry
    <3> QED BY <3>1, <3>2
  <2> QED BY <2>1, <2>2 DEF Runnable
<1>12. Fit(mem', contexts \cup {c}, current, heapNext, vmallocs, blocks, held, faulted, complete')
  BY <1>2, <1>9, <1>11 DEF Fit
<1> QED BY <1>6, <1>12 DEF IInv

LEMMA DestroyFits ==
  ASSUME IInv, NEW c \in contexts, vmm_destroy_context(c)
  PROVE  IInv'
<1>1. PICK D : Good(D, mem, contexts, held, RegionsOf(blocks, vmallocs), faulted)
  BY InvParts
<1>2. Runnable(mem, contexts, current, complete) /\ Lists(heapNext, vmallocs, blocks, faulted)
  BY InvParts
<1>3. Sound(D, mem, contexts, held)
  BY <1>1, GoodParts
<1>4. mem \in Memories /\ c \in Frame /\ c \notin mem.free
  <2>1. mem \in Memories
    BY <1>3, SoundParts
  <2>2. c \in Frame /\ c \notin mem.free
    BY <1>3, SoundPlaces
  <2> QED BY <2>1, <2>2
<1>5. c # KERNEL /\ c # current /\ UNCHANGED <<current, heapNext, vmallocs, blocks, held, faulted>>
  BY DEF vmm_destroy_context
<1>6. CASE \E i \in Index \ Upper : mem.tab[c][i].frame # 0
  <2>1. mem' = Halt(mem, "invalid free") /\ UNCHANGED <<contexts, complete>>
    BY <1>6 DEF vmm_destroy_context
  <2>2. "invalid free" \in Panics /\ "invalid free" # "double free"
    BY DEF Panics
  <2>3. Good(D, mem', contexts, held, RegionsOf(blocks, vmallocs), faulted) /\ mem'.tab = mem.tab
    BY <1>1, <2>1, <2>2, GoodHalt
  <2>4. Tops(mem, mem', contexts)
    BY <2>3, SameTops
  <2>5. Good(D, mem', contexts, held', RegionsOf(blocks, vmallocs), faulted)
    BY <1>5, <2>3
  <2> QED BY <1>5, <2>1, <2>4, <2>5, MemoryFits
<1>7. CASE ~ \E i \in Index \ Upper : mem.tab[c][i].frame # 0
  <2>1. /\ mem' = [Freed(mem, {c}) EXCEPT !.tab[c] = EmptyTable]
        /\ contexts' = contexts \ {c} /\ complete' = complete \ {c}
    BY <1>7 DEF vmm_destroy_context
  <2>2. Death(mem, mem', c)
    BY <1>4, <2>1, DeathIs
  <2>3. \A i \in Index \ Upper : mem.tab[c][i].frame = 0
    BY <1>7
  <2>4. /\ Good([D EXCEPT ![c] = NULL], mem', contexts \ {c}, held, RegionsOf(blocks, vmallocs), faulted)
        /\ Tops(mem, mem', contexts \ {c})
    BY <1>1, <1>5, <2>2, <2>3, GoodDeath
  <2>5. Runnable(mem, contexts \ {c}, current, complete \ {c})
    BY <1>2, <1>5 DEF Runnable
  <2>6. Runnable(mem', contexts \ {c}, current, complete \ {c})
    BY <2>4, <2>5, RunnableStays
  <2>7. Fit(mem', contexts \ {c}, current, heapNext, vmallocs, blocks, held, faulted, complete \ {c})
    BY <1>2, <2>4, <2>6 DEF Fit
  <2> QED BY <1>5, <2>1, <2>7 DEF IInv
<1> QED BY <1>6, <1>7

LEMMA SwitchFits ==
  ASSUME IInv, NEW c, vmm_switch_context(c)
  PROVE  IInv'
<1>1. /\ \E D : Good(D, mem, contexts, held, RegionsOf(blocks, vmallocs), faulted)
      /\ Runnable(mem, contexts, current, complete) /\ Lists(heapNext, vmallocs, blocks, faulted)
  BY InvParts
<1>2. /\ c \in complete \cup {KERNEL} /\ current' = c
      /\ UNCHANGED <<mem, contexts, heapNext, vmallocs, blocks, held, faulted, complete>>
  BY DEF vmm_switch_context
<1>3. Runnable(mem, contexts, c, complete)
  BY <1>1, <1>2 DEF Runnable
<1>4. Fit(mem, contexts, c, heapNext, vmallocs, blocks, held, faulted, complete)
  BY <1>1, <1>3 DEF Fit
<1> QED BY <1>2, <1>4 DEF IInv

LEMMA TakeFits ==
  ASSUME IInv, TakeFrame
  PROVE  IInv'
<1>1. PICK D : Good(D, mem, contexts, held, RegionsOf(blocks, vmallocs), faulted)
  BY InvParts
<1>2. PICK f : f = PmmChoice(mem.free, 1)
  OBVIOUS
<1>3. /\ mem.free # {} /\ mem' = Taken(mem, {f}) /\ held' = held \cup {f}
      /\ UNCHANGED <<contexts, current, heapNext, vmallocs, blocks, faulted, complete>>
  BY <1>2 DEF TakeFrame
<1>4. mem \in Memories /\ mem.free \in SUBSET Frame
  <2>1. Sound(D, mem, contexts, held)
    BY <1>1, GoodParts
  <2> QED BY <2>1, SoundParts
<1>5. f \in mem.free
  BY <1>2, <1>3, <1>4, PmmTakesOne
<1>6. {f} \subseteq mem.free /\ {f} \in SUBSET Frame
  BY <1>4, <1>5
<1>7. Good(D, mem', contexts, held', RegionsOf(blocks, vmallocs), faulted)
  BY <1>1, <1>3, <1>6, GoodTake
<1>8. Tops(mem, mem', contexts)
  <2>1. mem'.tab = mem.tab
    BY <1>3, <1>4, <1>6, TakenIs
  <2> QED BY <2>1, SameTops
<1> QED BY <1>3, <1>7, <1>8, MemoryFits

LEMMA GiveFits ==
  ASSUME IInv, NEW f \in held, GiveFrame(f)
  PROVE  IInv'
<1>1. PICK D : Good(D, mem, contexts, held, RegionsOf(blocks, vmallocs), faulted)
  BY InvParts
<1>2. /\ ~ \E c \in contexts, v \in UserPages : GetPte(mem, c, v).frame = f
      /\ mem' = Freed(mem, {f}) /\ held' = held \ {f}
      /\ UNCHANGED <<contexts, current, heapNext, vmallocs, blocks, faulted, complete>>
  BY DEF GiveFrame, Mapped
<1>3. Good(D, mem', contexts, held', RegionsOf(blocks, vmallocs), faulted) /\ mem'.tab = mem.tab
  BY <1>1, <1>2, GoodGive
<1>4. Tops(mem, mem', contexts)
  BY <1>3, SameTops
<1> QED BY <1>2, <1>3, <1>4, MemoryFits

LEMMA MapPageFits ==
  ASSUME IInv, NEW c \in contexts, NEW v \in UserPages, NEW f \in held, vmm_map_page(c, v, f)
  PROVE  IInv'
<1>1. PICK D : Good(D, mem, contexts, held, RegionsOf(blocks, vmallocs), faulted)
  BY InvParts
<1>2. /\ Mapped(f) => GetPte(mem, c, v).frame = f
      /\ mem' = MapPage(mem, c, v, Pte(f, "kernel")).mem
      /\ UNCHANGED <<contexts, current, heapNext, vmallocs, blocks, held, faulted, complete>>
  BY DEF vmm_map_page
<1>3. /\ Tops(mem, mem', contexts)
      /\ \E D2 : Good(D2, mem', contexts, held, RegionsOf(blocks, vmallocs), faulted)
  <2>1. CASE Mapped(f)
    BY <1>1, <1>2, <2>1, GoodAgain
  <2>2. CASE ~ Mapped(f)
    <3>1. ~ \E d \in contexts, u \in UserPages : GetPte(mem, d, u).frame = f
      BY <2>2 DEF Mapped
    <3> QED BY <1>1, <1>2, <3>1, GoodPage
  <2> QED BY <2>1, <2>2
<1>4. \E D2 : Good(D2, mem', contexts, held', RegionsOf(blocks, vmallocs), faulted)
  BY <1>2, <1>3
<1> QED BY <1>2, <1>3, <1>4, MemoryFits

LEMMA UnmapPageFits ==
  ASSUME IInv, NEW c \in contexts, NEW v \in UserPages, vmm_unmap_page(c, v)
  PROVE  IInv'
<1>1. PICK D : Good(D, mem, contexts, held, RegionsOf(blocks, vmallocs), faulted)
  BY InvParts
<1>2. /\ GetPte(mem, c, v).frame \in held /\ mem' = UnmapPage(mem, c, v)
      /\ UNCHANGED <<contexts, current, heapNext, vmallocs, blocks, held, faulted, complete>>
  BY DEF vmm_unmap_page
<1>3. /\ Good(D, mem', contexts, held, RegionsOf(blocks, vmallocs), faulted)
      /\ Tops(mem, mem', contexts)
  BY <1>1, <1>2, GoodUnmap
<1>4. Good(D, mem', contexts, held', RegionsOf(blocks, vmallocs), faulted)
  BY <1>2, <1>3
<1> QED BY <1>2, <1>3, <1>4, MemoryFits

\* A run of frames that PMM has is mapped at pages of h, or goes back.
LEMMA AllocAtGood ==
  ASSUME NEW D, NEW m, NEW C, NEW X, NEW R, NEW F, Good(D, m, C, X, R, F), NEW c \in C, NEW h \in C,
         NEW base \in Nat, NEW n \in Sizes \cup {1}, RunsIn(m.free, n) # {},
         NEW flags \in {"kernel", "user"},
         \A v \in Run(base, n) : v \in Page /\ Reach(m, c, v) /\ Home(c, v) = h,
         NEW new, new.ctx = h, new.base = base, new.n = n,
         NEW r, r = AllocAt(m, c, base, n, flags)
  PROVE  /\ r.ok \in BOOLEAN /\ Tops(m, r.mem, C)
         /\ \E D2 : Good(D2, r.mem, C, X, With(R, new, r.ok), F) /\ (r.ok => new \notin R)
<1>1. m.free \in SUBSET Frame
  <2>1. Sound(D, m, C, X)
    BY GoodParts
  <2> QED BY <2>1, SoundParts
<1>2. PICK first : first = PmmChoice(m.free, n)
  OBVIOUS
<1>3. first \in Frame /\ Run(first, n) \subseteq m.free
  BY <1>1, <1>2, PmmTakes
<1>4. first \in Nat /\ n \in Nat /\ 0 < n
  <2>1. first \in Nat
    BY <1>3 DEF Frame
  <2> QED BY <2>1, VMMConstants
<1>5. r = AllocRun(m, c, base, first, n, flags)
  BY <1>2 DEF AllocAt
<1> QED BY <1>3, <1>4, <1>5, GoodAlloc

\* A block or an entry of the vmalloc list is one region more.
LEMMA OneBlockMore ==
  ASSUME NEW bl, NEW vm, NEW new, NEW bl2, bl2 = bl \cup {new}
  PROVE  RegionsOf(bl2, vm) = With(RegionsOf(bl, vm), new, TRUE)
BY DEF RegionsOf, With

LEMMA OneEntryMore ==
  ASSUME NEW bl, NEW vm, NEW new, NEW vm2, vm2 = vm \cup {new}
  PROVE  RegionsOf(bl, vm2) = With(RegionsOf(bl, vm), AsBlock(new), TRUE)
BY DEF RegionsOf, With

LEMMA BlockListed ==
  ASSUME NEW next, NEW vm, NEW bl, NEW F, Lists(next, vm, bl, F), NEW new,
         new \in [ctx : Frame, base : Page, n : Sizes], new \notin RegionsOf(bl, vm),
         NEW next2 \in HEAP_BASE .. HEAP_END
  PROVE  Lists(next2, vm, bl \cup {new}, F)
<1>1. /\ vm \subseteq [base : HeapPages, n : Sizes] /\ bl \subseteq [ctx : Frame, base : Page, n : Sizes]
      /\ \A r \in vm : Run(r.base, r.n) \subseteq HeapPages /\ AsBlock(r) \notin bl
      /\ F \subseteq Page
  BY DEF Lists
<1>2. \A r \in vm : AsBlock(r) # new
  BY DEF RegionsOf
<1> QED BY <1>1, <1>2 DEF Lists

LEMMA EntryListed ==
  ASSUME NEW next, NEW vm, NEW bl, NEW F, Lists(next, vm, bl, F), NEW new,
         new \in [base : HeapPages, n : Sizes], Run(new.base, new.n) \subseteq HeapPages,
         AsBlock(new) \notin RegionsOf(bl, vm), NEW next2 \in HEAP_BASE .. HEAP_END
  PROVE  Lists(next2, vm \cup {new}, bl, F)
<1>1. /\ vm \subseteq [base : HeapPages, n : Sizes] /\ bl \subseteq [ctx : Frame, base : Page, n : Sizes]
      /\ \A r \in vm : Run(r.base, r.n) \subseteq HeapPages /\ AsBlock(r) \notin bl
      /\ F \subseteq Page
  BY DEF Lists
<1>2. AsBlock(new) \notin bl
  BY DEF RegionsOf
<1> QED BY <1>1, <1>2 DEF Lists

LEMMA NextListed ==
  ASSUME NEW next, NEW vm, NEW bl, NEW F, Lists(next, vm, bl, F), NEW next2 \in HEAP_BASE .. HEAP_END
  PROVE  Lists(next2, vm, bl, F)
BY DEF Lists

\* The addresses vmm_alloc_pages chooses: the next of the heap, or the first
\* free ones of the user's.
LEMMA HeapBase ==
  ASSUME heapNext \in HEAP_BASE .. HEAP_END, NEW m, NEW c, NEW n \in Sizes,
         NEW base, base = BaseFor(m, c, n, "kernel"), base # NULL
  PROVE  /\ base = heapNext /\ base \in HeapPages /\ Run(base, n) \subseteq HeapPages
         /\ heapNext + n \in HEAP_BASE .. HEAP_END /\ RunsIn(m.free, n) # {}
<1>1. base = heapNext /\ heapNext + n <= HEAP_END /\ RunsIn(m.free, n) # {}
  BY DEF BaseFor
<1>2. n \in Nat /\ 0 < n /\ HEAP_BASE \in Nat /\ HEAP_END \in Nat
  BY VMMConstants
<1> QED BY <1>1, <1>2 DEF Run, HeapPages

LEMMA UserBase ==
  ASSUME NEW m, NEW c, NEW n \in Sizes, NEW base, base = BaseFor(m, c, n, "user"), base # NULL
  PROVE  base \in UserPages /\ Run(base, n) \subseteq UserPages /\ RunsIn(m.free, n) # {}
<1>1. n \in Nat /\ 0 < n /\ USER_BASE \in Nat /\ USER_TOP \in Nat
  BY VMMConstants
<1>2. base = FindFreeRegion(m, c, n) /\ RunsIn(m.free, n) # {}
  BY DEF BaseFor
<1>3. FreeRegions(m, c, n) # {} /\ base = Min(FreeRegions(m, c, n))
  BY <1>2 DEF FindFreeRegion
<1>4. FreeRegions(m, c, n) \subseteq Nat
  BY <1>1 DEF FreeRegions, UserPages
<1>5. base \in FreeRegions(m, c, n)
  BY <1>3, <1>4, LeastMember
<1>6. base \in UserPages /\ base + n <= USER_TOP
  BY <1>5 DEF FreeRegions
<1> QED BY <1>1, <1>2, <1>6 DEF Run, UserPages

\* Heap pages that the caller reaches are the kernel's; user pages its own.
LEMMA HeapRun ==
  ASSUME NEW m, NEW c, NEW base, NEW n, Run(base, n) \subseteq HeapPages,
         \A v \in HeapPages : Reach(m, c, v)
  PROVE  \A v \in Run(base, n) : v \in Page /\ Reach(m, c, v) /\ Home(c, v) = KERNEL
BY HeapOwn

LEMMA UserRun ==
  ASSUME NEW m, NEW c, NEW base, NEW n, Run(base, n) \subseteq UserPages
  PROVE  \A v \in Run(base, n) : v \in Page /\ Reach(m, c, v) /\ Home(c, v) = c
BY UserOwn DEF Reach

\* What becomes of the invariant when r has been tried for a block.
LEMMA BlockFits ==
  ASSUME IInv, NEW D, Good(D, mem, contexts, held, RegionsOf(blocks, vmallocs), faulted),
         NEW c \in contexts, NEW base \in Page, NEW n \in Sizes, RunsIn(mem.free, n) # {},
         NEW flags \in {"kernel", "user"},
         \A v \in Run(base, n) : v \in Page /\ Reach(mem, c, v) /\ Home(c, v) = c,
         NEW r, r = AllocAt(mem, c, base, n, flags),
         mem' = r.mem,
         blocks' = IF r.ok THEN blocks \cup {[ctx |-> c, base |-> base, n |-> n]} ELSE blocks,
         heapNext' \in HEAP_BASE .. HEAP_END,
         UNCHANGED <<contexts, current, vmallocs, held, faulted, complete>>
  PROVE  IInv'
<1>1. Runnable(mem, contexts, current, complete) /\ Lists(heapNext, vmallocs, blocks, faulted)
  BY InvParts
<1>2. PICK new : new = [ctx |-> c, base |-> base, n |-> n]
  OBVIOUS
<1>3. c \in Frame /\ base \in Nat /\ n \in Sizes \cup {1}
  <2>1. contexts \subseteq Frame
    <3>1. Sound(D, mem, contexts, held)
      BY GoodParts
    <3> QED BY <3>1, SoundParts
  <2> QED BY <2>1, PageNat
<1>4. /\ r.ok \in BOOLEAN /\ Tops(mem, r.mem, contexts)
      /\ \E D2 : /\ Good(D2, r.mem, contexts, held, With(RegionsOf(blocks, vmallocs), new, r.ok), faulted)
                 /\ (r.ok => new \notin RegionsOf(blocks, vmallocs))
  <2>1. new.ctx = c /\ new.base = base /\ new.n = n
    BY <1>2
  <2> QED BY <1>3, <2>1, AllocAtGood
<1>5. Runnable(r.mem, contexts, current, complete)
  BY <1>1, <1>4, RunnableStays
<1>6. new \in [ctx : Frame, base : Page, n : Sizes]
  BY <1>2, <1>3
<1>7. CASE r.ok
  <2>1. blocks' = blocks \cup {new}
    BY <1>2, <1>7
  <2>2. \E D2 : Good(D2, r.mem, contexts, held, RegionsOf(blocks', vmallocs), faulted)
    <3>1. RegionsOf(blocks', vmallocs) = With(RegionsOf(blocks, vmallocs), new, TRUE)
      BY <2>1, OneBlockMore
    <3>2. r.ok = TRUE
      BY <1>4, <1>7
    <3> QED BY <1>4, <3>1, <3>2
  <2>3. Lists(heapNext', vmallocs, blocks', faulted)
    BY <1>1, <1>4, <1>6, <1>7, <2>1, BlockListed
  <2>4. Fit(mem', contexts, current, heapNext', vmallocs, blocks', held, faulted, complete)
    BY <1>5, <2>2, <2>3 DEF Fit
  <2> QED BY <2>4 DEF IInv
<1>8. CASE ~ r.ok
  <2>1. blocks' = blocks
    BY <1>8
  <2>2. \E D2 : Good(D2, r.mem, contexts, held, RegionsOf(blocks, vmallocs), faulted)
    BY <1>4, <1>8 DEF With
  <2>3. Lists(heapNext', vmallocs, blocks, faulted)
    BY <1>1, NextListed
  <2>4. Fit(mem', contexts, current, heapNext', vmallocs, blocks', held, faulted, complete)
    BY <1>5, <2>1, <2>2, <2>3 DEF Fit
  <2> QED BY <2>4 DEF IInv
<1> QED BY <1>4, <1>7, <1>8

LEMMA AllocPagesFits ==
  ASSUME IInv, NEW c \in contexts, NEW n \in Sizes, vmm_alloc_pages(c, n)
  PROVE  IInv'
<1>1. PICK D : Good(D, mem, contexts, held, RegionsOf(blocks, vmallocs), faulted)
  BY InvParts
<1>2. /\ Runnable(mem, contexts, current, complete) /\ Lists(heapNext, vmallocs, blocks, faulted)
      /\ heapNext \in HEAP_BASE .. HEAP_END
  BY InvParts DEF Lists
<1>3. PICK flags : flags = IF c = KERNEL THEN "kernel" ELSE "user"
  OBVIOUS
<1>4. PICK base : base = BaseFor(mem, c, n, flags)
  OBVIOUS
<1>5. /\ mem' = AllocFrom(mem, c, base, n, flags).mem
      /\ blocks' = blocks \cup Block(c, AllocFrom(mem, c, base, n, flags).base, n)
      /\ heapNext' = IF c = KERNEL THEN heapNext + HeapSpent(c, n) ELSE heapNext
      /\ UNCHANGED <<contexts, current, vmallocs, held, faulted, complete>>
  BY <1>3, <1>4 DEF vmm_alloc_pages, AllocPages
<1>6. CASE base = NULL
  <2>1. mem' = mem /\ blocks' = blocks
    BY <1>5, <1>6 DEF AllocFrom, Block
  <2>2. heapNext' = heapNext
    <3>1. c = KERNEL => HeapSpent(c, n) = 0
      BY <1>3, <1>4, <1>6 DEF HeapSpent
    <3> QED BY <1>2, <1>5, <3>1
  <2>3. Tops(mem, mem', contexts)
    BY <2>1, SameTops
  <2>4. \E D2 : Good(D2, mem', contexts, held', RegionsOf(blocks, vmallocs), faulted)
    BY <1>1, <1>5, <2>1
  <2> QED BY <1>5, <2>1, <2>2, <2>3, <2>4, MemoryFits
<1>7. CASE base # NULL
  <2>1. PICK r : r = AllocAt(mem, c, base, n, flags)
    OBVIOUS
  <2>2. AllocFrom(mem, c, base, n, flags) = [mem |-> r.mem, base |-> IF r.ok THEN base ELSE NULL]
    BY <1>7, <2>1 DEF AllocFrom, Allocated
  <2>3. mem' = r.mem /\ blocks' = IF r.ok THEN blocks \cup {[ctx |-> c, base |-> base, n |-> n]} ELSE blocks
    BY <1>5, <1>7, <2>2 DEF Block
  <2>4. /\ base \in Page /\ RunsIn(mem.free, n) # {} /\ heapNext' \in HEAP_BASE .. HEAP_END
        /\ \A v \in Run(base, n) : v \in Page /\ Reach(mem, c, v) /\ Home(c, v) = c
    <3>1. CASE c = KERNEL
      <4>1. base = BaseFor(mem, c, n, "kernel")
        BY <1>3, <1>4, <3>1
      <4>2. /\ base = heapNext /\ base \in HeapPages /\ Run(base, n) \subseteq HeapPages
            /\ heapNext + n \in HEAP_BASE .. HEAP_END /\ RunsIn(mem.free, n) # {}
        BY <1>2, <1>7, <4>1, HeapBase
      <4>3. HeapSpent(c, n) = n
        BY <1>7, <4>1 DEF HeapSpent
      <4>4. \A v \in HeapPages : Reach(mem, c, v)
        BY <3>1 DEF Reach, Own
      <4>5. \A v \in Run(base, n) : v \in Page /\ Reach(mem, c, v) /\ Home(c, v) = KERNEL
        BY <4>2, <4>4, HeapRun
      <4>6. base \in Page
        BY <4>2, HeapOwn
      <4> QED BY <1>5, <3>1, <4>2, <4>3, <4>5, <4>6
    <3>2. CASE c # KERNEL
      <4>1. base = BaseFor(mem, c, n, "user")
        BY <1>3, <1>4, <3>2
      <4>2. base \in UserPages /\ Run(base, n) \subseteq UserPages /\ RunsIn(mem.free, n) # {}
        BY <1>7, <4>1, UserBase
      <4>3. \A v \in Run(base, n) : v \in Page /\ Reach(mem, c, v) /\ Home(c, v) = c
        BY <4>2, UserRun
      <4>4. base \in Page
        BY <4>2, UserOwn
      <4> QED BY <1>2, <1>5, <3>2, <4>2, <4>3, <4>4
    <3> QED BY <3>1, <3>2
  <2>5. flags \in {"kernel", "user"}
    BY <1>3
  <2> QED BY <1>1, <1>5, <2>1, <2>3, <2>4, <2>5, BlockFits
<1> QED BY <1>6, <1>7

LEMMA ReserveFits ==
  ASSUME IInv, NEW c \in contexts, NEW v \in UserPages, NEW n \in Sizes, vmm_reserve_region(c, v, n)
  PROVE  IInv'
<1>1. PICK D : Good(D, mem, contexts, held, RegionsOf(blocks, vmallocs), faulted)
  BY InvParts
<1>2. heapNext \in HEAP_BASE .. HEAP_END
  BY InvParts DEF Lists
<1>3. PICK r : r = AllocAt(mem, c, v, n, "kernel")
  OBVIOUS
<1>4. /\ Run(v, n) \subseteq UserPages /\ RunsIn(mem.free, n) # {}
      /\ mem' = r.mem /\ blocks' = blocks \cup Block(c, IF r.ok THEN v ELSE NULL, n)
      /\ UNCHANGED <<contexts, current, heapNext, vmallocs, held, faulted, complete>>
  BY <1>3 DEF vmm_reserve_region
<1>5. v \in Page /\ v # NULL
  BY UserOwn DEF NULL
<1>6. blocks' = IF r.ok THEN blocks \cup {[ctx |-> c, base |-> v, n |-> n]} ELSE blocks
  BY <1>4, <1>5 DEF Block
<1>7. \A u \in Run(v, n) : u \in Page /\ Reach(mem, c, u) /\ Home(c, u) = c
  BY <1>4, UserRun
<1>8. heapNext' \in HEAP_BASE .. HEAP_END
  BY <1>2, <1>4
<1> QED BY <1>1, <1>3, <1>4, <1>5, <1>6, <1>7, <1>8, BlockFits

LEMMA VmallocFits ==
  ASSUME IInv, NEW n \in Sizes, vmalloc(n)
  PROVE  IInv'
<1>1. PICK D : Good(D, mem, contexts, held, RegionsOf(blocks, vmallocs), faulted)
  BY InvParts
<1>2. /\ Runnable(mem, contexts, current, complete) /\ Lists(heapNext, vmallocs, blocks, faulted)
      /\ heapNext \in HEAP_BASE .. HEAP_END
  BY InvParts DEF Lists
<1>3. Sound(D, mem, contexts, held)
  BY <1>1, GoodParts
<1>4. PICK base : base = BaseFor(mem, current, n, "kernel")
  OBVIOUS
<1>5. PICK a : a = AllocFrom(mem, current, base, n, "kernel")
  OBVIOUS
<1>6. /\ mem' = a.mem
      /\ vmallocs' = vmallocs \cup (IF a.base = NULL THEN {} ELSE {[base |-> a.base, n |-> n]})
      /\ heapNext' = heapNext + HeapSpent(current, n)
      /\ UNCHANGED <<contexts, current, blocks, held, faulted, complete>>
  BY <1>4, <1>5 DEF vmalloc, AllocPages
<1>7. CASE base = NULL
  <2>1. mem' = mem /\ vmallocs' = vmallocs
    BY <1>5, <1>6, <1>7 DEF AllocFrom
  <2>2. heapNext' = heapNext
    <3>1. HeapSpent(current, n) = 0
      BY <1>4, <1>7 DEF HeapSpent
    <3> QED BY <1>2, <1>6, <3>1
  <2>3. Tops(mem, mem', contexts)
    BY <2>1, SameTops
  <2>4. \E D2 : Good(D2, mem', contexts, held', RegionsOf(blocks, vmallocs), faulted)
    BY <1>1, <1>6, <2>1
  <2> QED BY <1>6, <2>1, <2>2, <2>3, <2>4, MemoryFits
<1>8. CASE base # NULL
  <2>1. PICK r : r = AllocAt(mem, current, base, n, "kernel")
    OBVIOUS
  <2>2. a = [mem |-> r.mem, base |-> IF r.ok THEN base ELSE NULL]
    BY <1>5, <1>8, <2>1 DEF AllocFrom, Allocated
  <2>3. /\ base = heapNext /\ base \in HeapPages /\ Run(base, n) \subseteq HeapPages
        /\ heapNext + n \in HEAP_BASE .. HEAP_END /\ RunsIn(mem.free, n) # {}
    BY <1>2, <1>4, <1>8, HeapBase
  <2>4. heapNext' \in HEAP_BASE .. HEAP_END
    <3>1. HeapSpent(current, n) = n
      BY <1>4, <1>8 DEF HeapSpent
    <3> QED BY <1>6, <2>3, <3>1
  <2>5. current \in contexts /\ \A v \in HeapPages : Reach(mem, current, v)
    BY <1>2, <1>3, RunnableReach
  <2>6. \A v \in Run(base, n) : v \in Page /\ Reach(mem, current, v) /\ Home(current, v) = KERNEL
    BY <2>3, <2>5, HeapRun
  <2>7. PICK new : new = [base |-> base, n |-> n]
    OBVIOUS
  <2>8. AsBlock(new).ctx = KERNEL /\ AsBlock(new).base = base /\ AsBlock(new).n = n
    BY <2>7 DEF AsBlock
  <2>9. KERNEL \in contexts /\ base \in Nat /\ n \in Sizes \cup {1}
    <3>1. KERNEL \in contexts
      BY <1>3, SoundParts
    <3> QED BY <2>3, <3>1, HeapOwn
  <2>10. /\ r.ok \in BOOLEAN /\ Tops(mem, r.mem, contexts)
         /\ \E D2 : /\ Good(D2, r.mem, contexts, held,
                            With(RegionsOf(blocks, vmallocs), AsBlock(new), r.ok), faulted)
                    /\ (r.ok => AsBlock(new) \notin RegionsOf(blocks, vmallocs))
    <3>1. PICK b : b = AsBlock(new)
      OBVIOUS
    <3>2. b.ctx = KERNEL /\ b.base = base /\ b.n = n
      BY <2>8, <3>1
    <3>3. RunsIn(mem.free, n) # {} /\ current \in contexts /\ "kernel" \in {"kernel", "user"}
      BY <2>3, <2>5
    <3>4. /\ r.ok \in BOOLEAN /\ Tops(mem, r.mem, contexts)
          /\ \E D2 : /\ Good(D2, r.mem, contexts, held, With(RegionsOf(blocks, vmallocs), b, r.ok), faulted)
                     /\ (r.ok => b \notin RegionsOf(blocks, vmallocs))
      BY SMTT(30), <1>1, <2>1, <2>6, <2>9, <3>2, <3>3, AllocAtGood
    <3> QED BY <3>1, <3>4
  <2>11. Runnable(r.mem, contexts, current, complete)
    BY <1>2, <2>10, RunnableStays
  <2>12. mem' = r.mem /\ vmallocs' = IF r.ok THEN vmallocs \cup {new} ELSE vmallocs
    BY <1>6, <1>8, <2>2, <2>7
  <2>13. CASE r.ok
    <3>1. vmallocs' = vmallocs \cup {new}
      BY <2>12, <2>13
    <3>2. \E D2 : Good(D2, r.mem, contexts, held, RegionsOf(blocks, vmallocs'), faulted)
      <4>1. RegionsOf(blocks, vmallocs') = With(RegionsOf(blocks, vmallocs), AsBlock(new), TRUE)
        BY <3>1, OneEntryMore
      <4>2. r.ok = TRUE
        BY <2>10, <2>13
      <4> QED BY <2>10, <4>1, <4>2
    <3>3. new \in [base : HeapPages, n : Sizes] /\ Run(new.base, new.n) \subseteq HeapPages
      BY <2>3, <2>7
    <3>4. Lists(heapNext', vmallocs', blocks, faulted)
      BY <1>2, <2>4, <2>10, <2>13, <3>1, <3>3, EntryListed
    <3>5. Fit(mem', contexts, current, heapNext', vmallocs', blocks, held, faulted, complete)
      BY <2>11, <2>12, <3>2, <3>4 DEF Fit
    <3> QED BY <1>6, <3>5 DEF IInv
  <2>14. CASE ~ r.ok
    <3>1. vmallocs' = vmallocs
      BY <2>12, <2>14
    <3>2. \E D2 : Good(D2, r.mem, contexts, held, RegionsOf(blocks, vmallocs), faulted)
      BY <2>10, <2>14 DEF With
    <3>3. Lists(heapNext', vmallocs, blocks, faulted)
      BY <1>2, <2>4, NextListed
    <3>4. Fit(mem', contexts, current, heapNext', vmallocs', blocks, held, faulted, complete)
      BY <2>11, <2>12, <3>1, <3>2, <3>3 DEF Fit
    <3> QED BY <1>6, <3>4 DEF IInv
  <2> QED BY <2>10, <2>13, <2>14
<1> QED BY <1>7, <1>8

\* An address below its own half of a context stays in it.
LEMMA OwnHome ==
  ASSUME NEW c, NEW v, Own(c, v)
  PROVE  Home(c, v) = c
BY DEF Own, Home

LEMMA FreePagesFits ==
  ASSUME IInv, NEW b \in blocks, vmm_free_pages(b)
  PROVE  IInv'
<1>1. PICK D : Good(D, mem, contexts, held, RegionsOf(blocks, vmallocs), faulted)
  BY InvParts
<1>2. Runnable(mem, contexts, current, complete) /\ Lists(heapNext, vmallocs, blocks, faulted)
  BY InvParts
<1>3. PICK R : R = RegionsOf(blocks, vmallocs)
  OBVIOUS
<1>4. Good(D, mem, contexts, held, R, faulted)
  BY <1>1, <1>3
<1>5. /\ mem' = FreePages(mem, b.ctx, b.base, b.n) /\ blocks' = blocks \ {b}
      /\ UNCHANGED <<contexts, current, heapNext, vmallocs, held, faulted, complete>>
  BY DEF vmm_free_pages
<1>6. b \in R /\ Whole(mem, contexts, held, b) /\ \A r, s \in R : Apart(r, s)
  BY <1>3, <1>4, GoodParts DEF RegionsOf
<1>7. b.ctx \in contexts
  BY <1>6 DEF Whole
<1>8. b.base \in Nat /\ b.n \in Nat
  <2>1. b.base \in Page /\ b.n \in Sizes
    BY <1>2 DEF Lists
  <2> QED BY <2>1, PageNat, VMMConstants
<1>9. PICK P : P = Run(b.base, b.n)
  OBVIOUS
<1>10. PagesOf(b) = P
  BY <1>9 DEF PagesOf
<1>11. ASSUME NEW v \in P
       PROVE  /\ v \in Page /\ Reach(mem, b.ctx, v) /\ Home(b.ctx, v) = b.ctx
              /\ GetPte(mem, b.ctx, v).frame \notin held
  <2>1. v \in Page /\ Own(b.ctx, v) /\ GetPte(mem, b.ctx, v).frame \notin held
    BY <1>6, <1>10 DEF Whole
  <2> QED BY <2>1, OwnHome DEF Reach
<1>12. PICK R2 : R2 = R \ {b}
  OBVIOUS
<1>13. RegionsOf(blocks', vmallocs) = R2
  <2>1. \A r \in vmallocs : AsBlock(r) # b
    BY <1>2 DEF Lists
  <2> QED BY <1>3, <1>5, <1>12, <2>1 DEF RegionsOf
<1>14. R2 \in SUBSET R /\ \A r \in R : r \in R2 \/ (r.ctx = b.ctx /\ PagesOf(r) \subseteq P)
  BY <1>10, <1>12
<1>15. \A r \in R2 : r.ctx = b.ctx => PagesOf(r) \cap P = {}
  BY <1>6, <1>10, <1>12 DEF Apart
<1>16. \A u \in faulted : u \in faulted \/ (b.ctx = KERNEL /\ u \in P)
  OBVIOUS
<1>17. Good(D, mem', contexts, held, R2, faulted) /\ Tops(mem, mem', contexts)
  <2>1. PICK c, base, n : c = b.ctx /\ base = b.base /\ n = b.n
    OBVIOUS
  <2>2. c \in contexts /\ base \in Nat /\ n \in Nat /\ mem' = FreePages(mem, c, base, n)
    BY <1>5, <1>7, <1>8, <2>1
  <2>3. \A v \in Run(base, n) : /\ v \in Page /\ Reach(mem, c, v) /\ Home(c, v) = c
                               /\ GetPte(mem, c, v).frame \notin held
    BY <1>9, <1>11, <2>1
  <2>4. R2 \in SUBSET R /\ \A r \in R : r \in R2 \/ (r.ctx = c /\ PagesOf(r) \subseteq Run(base, n))
    BY <1>9, <1>14, <2>1
  <2>5. \A r \in R2 : r.ctx = c => PagesOf(r) \cap Run(base, n) = {}
    BY <1>9, <1>15, <2>1
  <2>6. \A u \in faulted : u \in faulted \/ (c = KERNEL /\ u \in Run(base, n))
    OBVIOUS
  <2> QED BY <1>4, <2>2, <2>3, <2>4, <2>5, <2>6, GoodFree
<1>18. Runnable(mem', contexts, current, complete)
  BY <1>2, <1>17, RunnableStays
<1>19. Lists(heapNext, vmallocs, blocks', faulted)
  BY <1>2, <1>5 DEF Lists
<1>20. Fit(mem', contexts, current, heapNext, vmallocs, blocks', held, faulted, complete)
  BY <1>13, <1>17, <1>18, <1>19 DEF Fit
<1> QED BY <1>5, <1>20 DEF IInv

LEMMA ProtectFits ==
  ASSUME IInv, NEW b \in blocks, NEW n \in Sizes, vmm_protect(b, b.base, n, "user")
  PROVE  IInv'
<1>1. PICK D : Good(D, mem, contexts, held, RegionsOf(blocks, vmallocs), faulted)
  BY InvParts
<1>2. Lists(heapNext, vmallocs, blocks, faulted)
  BY InvParts
<1>3. b.base \in Nat /\ n \in Nat /\ "user" \in {"kernel", "user"}
  <2>1. b.base \in Page
    BY <1>2 DEF Lists
  <2> QED BY <2>1, PageNat, VMMConstants
<1>4. PICK W : W = CHOOSE p : p = [k \in 0 .. n |-> IF k = 0 THEN [mem |-> mem, ok |-> TRUE]
                                                   ELSE Reflag(p[k - 1], b.ctx, b.base + k - 1, "user")]
  OBVIOUS
<1>5. /\ b.ctx \in contexts /\ mem' = W[n].mem
      /\ UNCHANGED <<contexts, current, heapNext, vmallocs, blocks, held, faulted, complete>>
  BY <1>4 DEF vmm_protect
<1>6. Sound(D, mem, contexts, held)
  BY <1>1, GoodParts
<1>7. SameFrames(D, mem, contexts, held, mem')
  BY <1>3, <1>4, <1>5, <1>6, ProtectSame
<1>8. /\ Good(D, mem', contexts, held, RegionsOf(blocks, vmallocs), faulted)
      /\ Tops(mem, mem', contexts)
  BY <1>1, <1>7, GoodProtect
<1>9. Good(D, mem', contexts, held', RegionsOf(blocks, vmallocs), faulted)
  BY <1>5, <1>8
<1> QED BY <1>5, <1>8, <1>9, MemoryFits

\* The entries of the vmalloc list that vfree finds are the one it frees, or
\* there is none and the page is nobody's.
LEMMA VfreeFits ==
  ASSUME IInv, NEW v \in HeapPages, vfree(v)
  PROVE  IInv'
<1>1. PICK D : Good(D, mem, contexts, held, RegionsOf(blocks, vmallocs), faulted)
  BY InvParts
<1>2. Runnable(mem, contexts, current, complete) /\ Lists(heapNext, vmallocs, blocks, faulted)
  BY InvParts
<1>3. PICK R : R = RegionsOf(blocks, vmallocs)
  OBVIOUS
<1>4. Good(D, mem, contexts, held, R, faulted)
  BY <1>1, <1>3
<1>5. Sound(D, mem, contexts, held)
  BY <1>1, GoodParts
<1>6. PICK found : found = {r \in vmallocs : r.base = v}
  OBVIOUS
<1>7. PICK n : n = IF found = {} THEN 1 ELSE (CHOOSE r \in found : TRUE).n
  OBVIOUS
<1>8. /\ found # {} \/ v \notin Owned
      /\ mem' = FreePages(mem, current, v, n)
      /\ vmallocs' = vmallocs \ found /\ faulted' = faulted \ Run(v, n)
      /\ UNCHANGED <<contexts, current, heapNext, blocks, held, complete>>
  BY <1>6, <1>7 DEF vfree
<1>9. current \in contexts /\ (\A u \in HeapPages : Reach(mem, current, u)) /\ KERNEL \in contexts
  BY <1>2, <1>5, RunnableReach, SoundParts
<1>10. /\ vmallocs \subseteq [base : HeapPages, n : Sizes]
       /\ \A r \in vmallocs : Run(r.base, r.n) \subseteq HeapPages /\ AsBlock(r) \notin blocks
       /\ faulted \subseteq Page
  BY <1>2 DEF Lists
<1>11. (\A r \in R : Whole(mem, contexts, held, r)) /\ \A r, s \in R : Apart(r, s)
  BY <1>4, GoodParts
<1>12. v \in Page /\ v \in Nat /\ Digit(v, 1) \in Upper
  BY HeapOwn
<1>13. PICK R2 : R2 = RegionsOf(blocks, vmallocs')
  OBVIOUS
<1>14. PICK P : P = Run(v, n)
  OBVIOUS
<1>15. \A r \in vmallocs : /\ AsBlock(r) \in R /\ AsBlock(r).ctx = KERNEL
                           /\ PagesOf(AsBlock(r)) = Run(r.base, r.n)
  BY <1>3 DEF RegionsOf, AsBlock, PagesOf
<1>16. \A r, s \in vmallocs : AsBlock(r) = AsBlock(s) => r = s
  <2>1. \A r, s \in vmallocs : r.base = s.base /\ r.n = s.n => r = s
    BY <1>10
  <2> QED BY <2>1 DEF AsBlock
<1>17. /\ n \in Nat /\ P \subseteq HeapPages /\ \A u \in P : GetPte(mem, KERNEL, u).frame \notin held
       /\ R2 \in SUBSET R /\ \A r \in R : r \in R2 \/ (r.ctx = KERNEL /\ PagesOf(r) \subseteq P)
       /\ \A r \in R2 : r.ctx = KERNEL => PagesOf(r) \cap P = {}
  <2>1. CASE found = {}
    <3>1. n = 1 /\ vmallocs' = vmallocs /\ v \notin Owned
      BY <1>7, <1>8, <2>1
    <3>2. P = {v}
      BY <1>12, <1>14, <3>1 DEF Run
    <3>3. R2 = R
      BY <1>3, <1>13, <3>1
    <3>4. ASSUME NEW r \in R, r.ctx = KERNEL PROVE v \notin PagesOf(r)
      <4>1. CASE r \in blocks
        BY <3>1, <3>4, <4>1 DEF Owned, PagesOf
      <4>2. CASE \E s \in vmallocs : r = AsBlock(s)
        <5>1. PICK s \in vmallocs : r = AsBlock(s)
          BY <4>2
        <5>2. v \notin Run(s.base, s.n)
          BY <3>1 DEF Owned
        <5> QED BY <1>15, <5>1, <5>2
      <4> QED BY <1>3, <4>1, <4>2 DEF RegionsOf
    <3>5. GetPte(mem, KERNEL, v).frame \notin held
      <4>1. ASSUME NEW x \in held, GetPte(mem, KERNEL, v).frame = x PROVE FALSE
        <5>1. x \in Frame /\ x # 0
          <6>1. held \subseteq Frame
            BY <1>5, SoundParts
          <6> QED BY <6>1 DEF Frame
        <5>2. IsLeaf(D, mem, x)
          BY <1>5, <1>9, <1>12, <4>1, <5>1, PteLeaf
        <5>3. PICK d \in contexts, u \in UserPages : GetPte(mem, d, u).frame = x
          BY <1>4, <5>2, GoodParts
        <5>4. u \in Page /\ Digit(u, 1) \notin Upper
          BY VMMAssumption
        <5>5. GetPte(mem, KERNEL, v) # NoEntry
          BY <4>1, <5>1 DEF NoEntry
        <5>6. v = u
          BY <1>5, <1>9, <1>12, <4>1, <5>3, <5>4, <5>5, PteInjective
        <5> QED BY <1>12, <5>4, <5>6
      <4> QED BY <4>1
    <3> QED BY <3>1, <3>2, <3>3, <3>4, <3>5
  <2>2. CASE found # {}
    <3>1. PICK x \in found : x = CHOOSE r \in found : TRUE
      BY <2>2
    <3>2. x \in vmallocs /\ x.base = v /\ x.n = n
      BY <1>6, <1>7, <2>2, <3>1
    <3>3. n \in Nat /\ 0 < n /\ P \subseteq HeapPages /\ PagesOf(AsBlock(x)) = P
      <4>1. x.n \in Sizes
        BY <1>10, <3>2
      <4> QED BY <1>10, <1>14, <1>15, <3>2, <4>1, VMMConstants
    <3>4. v \in P
      BY <1>12, <1>14, <3>3 DEF Run
    <3>5. ASSUME NEW r \in vmallocs, v \in Run(r.base, r.n) PROVE r = x
      <4>1. /\ v \in PagesOf(AsBlock(r)) /\ v \in PagesOf(AsBlock(x))
            /\ AsBlock(r).ctx = AsBlock(x).ctx /\ AsBlock(r) \in R /\ AsBlock(x) \in R
        BY <1>15, <3>2, <3>3, <3>4, <3>5
      <4>2. AsBlock(r) = AsBlock(x)
        BY <1>11, <4>1 DEF Apart
      <4> QED BY <1>16, <3>2, <4>2
    <3>6. found = {x}
      <4>1. ASSUME NEW r \in found PROVE r = x
        <5>1. r \in vmallocs /\ r.base = v
          BY <1>6
        <5>2. r.n \in Nat /\ 0 < r.n
          BY <1>10, <5>1, VMMConstants
        <5>3. v \in Run(r.base, r.n)
          BY <1>12, <5>1, <5>2 DEF Run
        <5> QED BY <3>5, <5>1, <5>3
      <4> QED BY <4>1
    <3>7. R2 = R \ {AsBlock(x)}
      <4>1. AsBlock(x) \notin blocks
        BY <1>10, <3>2
      <4>2. vmallocs' = vmallocs \ {x}
        BY <1>8, <3>6
      <4>3. ASSUME NEW r PROVE r \in R2 <=> r \in R /\ r # AsBlock(x)
        <5>1. r \in R2 <=> r \in blocks \/ \E s \in vmallocs : s # x /\ r = AsBlock(s)
          BY <1>13, <4>2 DEF RegionsOf
        <5>2. r \in R <=> r \in blocks \/ \E s \in vmallocs : r = AsBlock(s)
          BY <1>3 DEF RegionsOf
        <5> QED BY <1>16, <3>2, <4>1, <5>1, <5>2
      <4> QED BY <4>3
    <3>8. Whole(mem, contexts, held, AsBlock(x)) /\ AsBlock(x) \in R /\ AsBlock(x).ctx = KERNEL
      BY <1>11, <1>15, <3>2
    <3>9. \A u \in P : GetPte(mem, KERNEL, u).frame \notin held
      BY <3>3, <3>8 DEF Whole
    <3>10. \A r \in R2 : r.ctx = KERNEL => PagesOf(r) \cap P = {}
      BY <1>11, <3>3, <3>7, <3>8 DEF Apart
    <3> QED BY <3>3, <3>7, <3>8, <3>9, <3>10
  <2> QED BY <2>1, <2>2
<1>18. \A u \in P : /\ u \in Page /\ Reach(mem, current, u) /\ Home(current, u) = KERNEL
                    /\ GetPte(mem, KERNEL, u).frame \notin held
  BY <1>9, <1>17, HeapOwn
<1>19. \A u \in faulted : u \in faulted' \/ (KERNEL = KERNEL /\ u \in P)
  BY <1>8, <1>14
<1>20. PICK F2 : F2 = faulted'
  OBVIOUS
<1>21. Good(D, mem', contexts, held, R2, F2) /\ Tops(mem, mem', contexts)
  <2>1. PICK h : h = KERNEL
    OBVIOUS
  <2>2. h \in contexts /\ current \in contexts /\ v \in Nat /\ n \in Nat
        /\ mem' = FreePages(mem, current, v, n)
    BY <1>8, <1>9, <1>12, <1>17, <2>1
  <2>3. \A u \in Run(v, n) : /\ u \in Page /\ Reach(mem, current, u) /\ Home(current, u) = h
                             /\ GetPte(mem, h, u).frame \notin held
    BY <1>14, <1>18, <2>1
  <2>4. R2 \in SUBSET R /\ \A r \in R : r \in R2 \/ (r.ctx = h /\ PagesOf(r) \subseteq Run(v, n))
    BY <1>14, <1>17, <2>1
  <2>5. \A r \in R2 : r.ctx = h => PagesOf(r) \cap Run(v, n) = {}
    BY <1>14, <1>17, <2>1
  <2>6. \A u \in faulted : u \in F2 \/ (h = KERNEL /\ u \in Run(v, n))
    BY <1>14, <1>19, <1>20, <2>1
  <2> QED BY <1>4, <2>2, <2>3, <2>4, <2>5, <2>6, GoodFree
<1>22. Runnable(mem', contexts, current, complete)
  BY <1>2, <1>21, RunnableStays
<1>23. Lists(heapNext, vmallocs', blocks, faulted')
  BY <1>2, <1>8 DEF Lists
<1>24. Fit(mem', contexts, current, heapNext, vmallocs', blocks, held, faulted', complete)
  BY <1>13, <1>20, <1>21, <1>22, <1>23 DEF Fit
<1> QED BY <1>8, <1>24 DEF IInv

LEMMA FaultFits ==
  ASSUME IInv, NEW v \in HeapPages \cup LowPages, page_fault(v)
  PROVE  IInv'
<1>1. PICK D : Good(D, mem, contexts, held, RegionsOf(blocks, vmallocs), faulted)
  BY InvParts
<1>2. Runnable(mem, contexts, current, complete) /\ Lists(heapNext, vmallocs, blocks, faulted)
  BY InvParts
<1>3. UNCHANGED <<contexts, current, heapNext, vmallocs, blocks, held, complete>>
  BY DEF page_fault
<1>4. "page fault" \in Panics /\ "page fault" # "double free"
  BY DEF Panics
<1>5. PICK R : R = RegionsOf(blocks, vmallocs)
  OBVIOUS
<1>6. Good(D, mem, contexts, held, R, faulted)
  BY <1>1, <1>5
<1>7. CASE mem.free = {}
  <2>1. mem' = Halt(mem, "page fault") /\ faulted' = faulted
    BY <1>7 DEF page_fault
  <2>2. Good(D, mem', contexts, held, RegionsOf(blocks, vmallocs), faulted) /\ mem'.tab = mem.tab
    BY <1>1, <1>4, <2>1, GoodHalt
  <2>3. Tops(mem, mem', contexts)
    BY <2>2, SameTops
  <2>4. Good(D, mem', contexts, held', RegionsOf(blocks, vmallocs), faulted)
    BY <1>3, <2>2
  <2> QED BY <1>3, <2>1, <2>3, <2>4, MemoryFits
<1>8. CASE mem.free # {}
  <2>1. PICK r : r = AllocAt(mem, KERNEL, v, 1, "kernel")
    OBVIOUS
  <2>2. /\ mem' = IF r.ok THEN r.mem ELSE Halt(r.mem, "page fault")
        /\ faulted' = IF r.ok THEN faulted \cup {v} ELSE faulted
    BY <1>8, <2>1 DEF page_fault
  <2>3. v \in Page /\ v \in Nat /\ Own(KERNEL, v) /\ Home(KERNEL, v) = KERNEL
    BY HeapOwn, LowOwn
  <2>4. \A u : u \in Run(v, 1) <=> u = v
    BY <2>3 DEF Run
  <2>5. RunsIn(mem.free, 1) # {} /\ KERNEL \in contexts
    <3>1. mem.free \subseteq Frame /\ KERNEL \in contexts
      <4>1. Sound(D, mem, contexts, held)
        BY <1>1, GoodParts
      <4> QED BY <4>1, SoundParts
    <3>2. PICK f \in mem.free : f \in Frame
      BY <1>8, <3>1
    <3>3. Run(f, 1) \subseteq mem.free
      BY <3>2 DEF Run, Frame
    <3>4. f \in RunsIn(mem.free, 1)
      BY <3>2, <3>3 DEF RunsIn
    <3> QED BY <3>1, <3>4
  <2>6. PICK new : new = [ctx |-> KERNEL, base |-> v, n |-> 1]
    OBVIOUS
  <2>7. new.ctx = KERNEL /\ new.base = v /\ new.n = 1
    BY <2>6
  <2>8. \A u \in Run(v, 1) : u \in Page /\ Reach(mem, KERNEL, u) /\ Home(KERNEL, u) = KERNEL
    BY <2>3, <2>4 DEF Reach
  <2>9. /\ r.ok \in BOOLEAN /\ Tops(mem, r.mem, contexts)
        /\ \E D2 : Good(D2, r.mem, contexts, held, With(R, new, r.ok), faulted) /\ (r.ok => new \notin R)
    <3>1. 1 \in Sizes \cup {1} /\ "kernel" \in {"kernel", "user"}
      OBVIOUS
    <3> QED BY <1>6, <2>1, <2>3, <2>5, <2>7, <2>8, <3>1, AllocAtGood
  <2>10. PICK D2 : Good(D2, r.mem, contexts, held, With(R, new, r.ok), faulted)
    BY <2>9
  <2>11. Tops(mem, mem', contexts)
    <3>1. Halt(r.mem, "page fault").tab = r.mem.tab
      <4>1. /\ Good(D2, Halt(r.mem, "page fault"), contexts, held, With(R, new, r.ok), faulted)
            /\ Halt(r.mem, "page fault").tab = r.mem.tab
        BY <1>4, <2>10, GoodHalt
      <4> QED BY <4>1
    <3> QED BY <2>2, <2>9, <3>1 DEF Tops
  <2>12. \E E : Good(E, mem', contexts, held, R, faulted')
    <3>1. CASE r.ok
      <4>1. Good(D2, r.mem, contexts, held, R \cup {new}, faulted)
        BY <2>10, <3>1 DEF With
      <4>2. Good(D2, r.mem, contexts, held, R, faulted \cup PagesOf(new))
        BY <2>7, <4>1, GoodFault
      <4>3. faulted' = faulted \cup PagesOf(new)
        BY <2>2, <2>4, <2>7, <3>1 DEF PagesOf
      <4> QED BY <2>2, <3>1, <4>2, <4>3
    <3>2. CASE ~ r.ok
      <4>1. Good(D2, r.mem, contexts, held, R, faulted)
        BY <2>10, <3>2 DEF With
      <4>2. Good(D2, Halt(r.mem, "page fault"), contexts, held, R, faulted)
        BY <1>4, <4>1, GoodHalt
      <4> QED BY <2>2, <3>2, <4>2
    <3> QED BY <2>9, <3>1, <3>2
  <2>13. Runnable(mem', contexts, current, complete)
    BY <1>2, <2>11, RunnableStays
  <2>14. Lists(heapNext, vmallocs, blocks, faulted')
    <3>1. faulted \subseteq Page
      BY <1>2 DEF Lists
    <3>2. faulted' \subseteq Page
      BY <2>2, <2>3, <3>1
    <3> QED BY <1>2, <3>2 DEF Lists
  <2>15. Fit(mem', contexts, current, heapNext, vmallocs, blocks, held, faulted', complete)
    BY <1>5, <2>12, <2>13, <2>14 DEF Fit
  <2> QED BY <1>3, <2>15 DEF IInv
<1> QED BY <1>7, <1>8

LEMMA NextFits ==
  ASSUME IInv, [Next]_vars
  PROVE  IInv'
<1>1. CASE UNCHANGED vars
  BY <1>1 DEF vars, IInv
<1>2. CASE Next
  <2>1. CASE vmm_create_context
    BY <2>1, CreateFits
  <2>2. CASE \E c \in contexts : vmm_destroy_context(c) \/ vmm_switch_context(c)
    BY <2>2, DestroyFits, SwitchFits
  <2>3. CASE TakeFrame
    BY <2>3, TakeFits
  <2>4. CASE \E f \in held : GiveFrame(f)
    BY <2>4, GiveFits
  <2>5. CASE \E c \in contexts, v \in UserPages, f \in held : vmm_map_page(c, v, f)
    BY <2>5, MapPageFits
  <2>6. CASE \E c \in contexts, v \in UserPages : vmm_unmap_page(c, v)
    BY <2>6, UnmapPageFits
  <2>7. CASE \E c \in contexts, n \in Sizes : vmm_alloc_pages(c, n)
    BY <2>7, AllocPagesFits
  <2>8. CASE \E c \in contexts, v \in UserPages, n \in Sizes : vmm_reserve_region(c, v, n)
    BY <2>8, ReserveFits
  <2>9. CASE \E b \in blocks : vmm_free_pages(b)
    BY <2>9, FreePagesFits
  <2>10. CASE \E b \in blocks, n \in Sizes : vmm_protect(b, b.base, n, "user")
    BY <2>10, ProtectFits
  <2>11. CASE \E n \in Sizes : vmalloc(n)
    BY <2>11, VmallocFits
  <2>12. CASE \E v \in HeapPages : vfree(v)
    BY <2>12, VfreeFits
  <2>13. CASE \E v \in HeapPages \cup LowPages : page_fault(v)
    BY <2>13, FaultFits
  <2> QED
    BY <1>2, <2>1, <2>2, <2>3, <2>4, <2>5, <2>6, <2>7, <2>8, <2>9, <2>10, <2>11, <2>12, <2>13 DEF Next
<1> QED BY <1>1, <1>2

LEMMA VMMInvariant == Spec => []IInv
<1>1. Init => IInv
  BY InitFits
<1>2. IInv /\ [Next]_vars => IInv'
  BY NextFits
<1> QED BY <1>1, <1>2, PTL DEF Spec

-------------------------------------------------------------------------------
(***************************************************************************)
(* What follows.                                                           *)
(***************************************************************************)
\* The variables of the memory manager have their types in every state.
THEOREM AddressSpaceTypes == Spec => []TypeOK
<1>1. ASSUME IInv PROVE TypeOK
  <2>1. PICK D : Good(D, mem, contexts, held, RegionsOf(blocks, vmallocs), faulted)
    BY <1>1, InvParts
  <2>2. Sound(D, mem, contexts, held)
    BY <2>1, GoodParts
  <2>3. mem \in Memories /\ contexts \subseteq Frame /\ held \subseteq Frame /\ KERNEL \in contexts
    BY <2>2, SoundParts
  <2>4. mem \in [free : SUBSET Frame, tab : [Frame -> [Index -> Entry]],
                 panic : {"no", "double free", "invalid free", "unmapped table", "page fault"}]
    <3>1. \A e \in GoodEntry : e \in Entry
      BY DEF GoodEntry, Entry, NoEntry
    <3>2. \A b \in [Frame -> [Index -> GoodEntry]] : b \in [Frame -> [Index -> Entry]]
      BY <3>1
    <3> QED BY <2>3, <3>2 DEF Memories, Panics
  <2>5. current \in complete \cup {KERNEL} /\ complete \subseteq contexts
    BY <1>1, InvParts DEF Runnable
  <2>6. /\ heapNext \in HEAP_BASE .. HEAP_END
        /\ vmallocs \subseteq [base : HeapPages, n : Sizes]
        /\ blocks \subseteq [ctx : Frame, base : Page, n : Sizes]
        /\ faulted \subseteq Page
    BY <1>1, InvParts DEF Lists
  <2> QED BY <2>3, <2>4, <2>5, <2>6 DEF TypeOK
<1> QED BY <1>1, VMMInvariant, PTL

\* Every frame PMM has handed out has exactly one use, whatever walks, mappings
\* and rollbacks have failed, and none is freed twice.
THEOREM EachFrameUsedOnce == Spec => []FrameUsedOnce
<1>1. ASSUME IInv PROVE FrameUsedOnce
  <2>1. PICK D : Good(D, mem, contexts, held, RegionsOf(blocks, vmallocs), faulted)
    BY <1>1, InvParts
  <2>2. Sound(D, mem, contexts, held)
    BY <2>1, GoodParts
  <2> QED BY <2>2, SoundOnce
<1> QED BY <1>1, VMMInvariant, PTL

LEMMA RegionsAre == Regions = RegionsOf(blocks, vmallocs)
BY DEF Regions, RegionsOf, AsBlock

\* What vmalloc, vmm_alloc_pages and vmm_reserve_region have returned stays
\* mapped until its owner frees it, and no two owners share a page.
THEOREM RegionsStayMapped == Spec => []RegionsMapped
<1>1. ASSUME IInv PROVE RegionsMapped
  <2>1. PICK D : Good(D, mem, contexts, held, RegionsOf(blocks, vmallocs), faulted)
    BY <1>1, InvParts
  <2>2. /\ \A r \in RegionsOf(blocks, vmallocs) : Whole(mem, contexts, held, r)
        /\ \A r, s \in RegionsOf(blocks, vmallocs) : Apart(r, s)
    BY <2>1, GoodParts
  <2> QED BY <2>2, RegionsAre DEF RegionsMapped, Whole, Apart
<1> QED BY <1>1, VMMInvariant, PTL

\* A call that fails leaves no page mapped: each page a context maps is its
\* owner's, a holder's of its frame, or demand paging's.
THEOREM NoStrayMapping == Spec => []NothingStray
<1>1. ASSUME IInv PROVE NothingStray
  <2>1. PICK D : Good(D, mem, contexts, held, RegionsOf(blocks, vmallocs), faulted)
    BY <1>1, InvParts
  <2>2. \A c \in contexts, v \in Page :
          Own(c, v) /\ IsMapped(mem, c, v) =>
            Claimed(mem, held, RegionsOf(blocks, vmallocs), faulted, c, v)
    BY <2>1, GoodParts
  <2> QED BY <2>2, RegionsAre DEF NothingStray, Own, Claimed
<1> QED BY <1>1, VMMInvariant, PTL

\* An address of the kernel heap is one page in every context that may run.
THEOREM KernelHeapIsShared == Spec => []KernelHalfShared
<1>1. ASSUME IInv PROVE KernelHalfShared
  <2>1. PICK D : Good(D, mem, contexts, held, RegionsOf(blocks, vmallocs), faulted)
    BY <1>1, InvParts
  <2>2. Sound(D, mem, contexts, held)
    BY <2>1, GoodParts
  <2>3. Runnable(mem, contexts, current, complete)
    BY <1>1, InvParts
  <2>4. KERNEL \in contexts
    BY <2>2, SoundParts
  <2>5. ASSUME NEW c \in complete \cup {current}, NEW v \in HeapPages
        PROVE  GetPte(mem, c, v) = GetPte(mem, KERNEL, v)
    <3>1. c \in contexts /\ Reach(mem, c, v)
      <4>1. CASE c \in complete
        BY <2>3, <4>1 DEF Runnable
      <4>2. CASE c = current
        BY <2>2, <2>3, <4>2, RunnableReach
      <4> QED BY <4>1, <4>2
    <3>2. v \in Nat /\ Home(c, v) = KERNEL
      BY HeapOwn
    <3>3. GetPte(mem, c, v) = GetPte(mem, Home(c, v), v)
      BY <2>2, <3>1, <3>2, AtHome
    <3> QED BY <3>2, <3>3
  <2> QED BY <2>5 DEF KernelHalfShared
<1> QED BY <1>1, VMMInvariant, PTL

===============================================================================
