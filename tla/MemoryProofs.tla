----------------------------- MODULE MemoryProofs -----------------------------
(***************************************************************************)
(* The two allocators.  For every memory map, page size and request size,  *)
(* the bitmap gives each page of RAM one owner at a time, an honest caller *)
(* never meets the double-free panic, and a free page is always found.     *)
(*                                                                         *)
(* For every size of the pool, of the header and of the alignment of the   *)
(* heap: the blocks tile the pool, every caller has the bytes it asked     *)
(* for, a request is refused only when no stretch of the pool could serve  *)
(* it, and when everything is freed the pool is one block again.           *)
(***************************************************************************)
EXTENDS PMM, Heap, TLAPS, WellFoundedInduction

-------------------------------------------------------------------------------
(***************************************************************************)
(* The search.                                                             *)
(***************************************************************************)

\* A set of page numbers that is not empty has a least member.
LEMMA LeastExists ==
  ASSUME NEW S, S \subseteq Nat, S # {}
  PROVE  Least(S) \in S /\ \A t \in S : Least(S) <= t
<1> DEFINE R == OpToRel(<, Nat)
<1>1. \E x \in S : \A y \in S : ~ (<<y, x>> \in R)
  <2> HIDE DEF R
  <2>1. IsWellFoundedOn(R, Nat)
    BY NatLessThanWellFounded DEF R
  <2> QED BY <2>1, WFMin
<1>2. \A x, y \in Nat : y < x => <<y, x>> \in R
  BY DEF OpToRel
<1>3. \E x \in S : \A y \in S : x <= y
  <2> HIDE DEF R
  <2>1. PICK x \in S : \A y \in S : ~ (<<y, x>> \in R)
    BY <1>1
  <2>2. ASSUME NEW y \in S PROVE x <= y
    <3>1. x \in Nat /\ y \in Nat
      OBVIOUS
    <3>2. ~ (y < x)
      BY <2>1, <1>2, <3>1
    <3> QED BY <3>1, <3>2
  <2> QED BY <2>2
<1> QED BY <1>3 DEF Least

\* pmm_find_free_sequence returns the first page of a run of n free pages of
\* the bitmap, or nothing.
LEMMA FoundRunIsFree ==
  ASSUME TypeOK, NEW n \in Nat \ {0}, FindFree(n) # NONE
  PROVE  /\ FindFree(n) \in Managed
         /\ Run(FindFree(n), n) \subseteq free
<1> DEFINE Upper == FreeRuns(lastFree, pages, n)
           Lower == FreeRuns(0, lastFree, n)
<1>1. pages \in Nat /\ lastFree \in Nat /\ lastFree < pages
  BY DEF TypeOK, Managed
<1>2. Upper \subseteq Nat /\ Lower \subseteq Nat
  BY <1>1 DEF FreeRuns
<1>3. \A s \in Upper \cup Lower : s \in Managed /\ Run(s, n) \subseteq free
  BY <1>1 DEF FreeRuns, Managed
<1>4. CASE Upper # {}
  <2>1. FindFree(n) = Least(Upper)
    BY <1>4 DEF FindFree
  <2>2. Least(Upper) \in Upper
    BY <1>2, <1>4, LeastExists
  <2> QED BY <2>1, <2>2, <1>3
<1>5. CASE Upper = {}
  <2>1. Lower # {} /\ FindFree(n) = Least(Lower)
    BY <1>5 DEF FindFree
  <2>2. Least(Lower) \in Lower
    BY <1>2, <2>1, LeastExists
  <2> QED BY <2>1, <2>2, <1>3
<1> QED BY <1>4, <1>5

\* Wherever the search starts, it finds a single page if there is one.
LEMMA SinglePageFound ==
  ASSUME TypeOK, free # {}
  PROVE  FindFree(1) # NONE
<1> DEFINE Upper == FreeRuns(lastFree, pages, 1)
           Lower == FreeRuns(0, lastFree, 1)
<1>1. pages \in Nat /\ lastFree \in Nat /\ lastFree < pages /\ free \subseteq Nat
  BY DEF TypeOK, Managed
<1>2. Upper \subseteq Nat /\ Lower \subseteq Nat
  BY <1>1 DEF FreeRuns
<1>3. PICK p \in free : p \in 0 .. pages - 1
  BY DEF TypeOK, Managed
<1>4. Run(p, 1) \subseteq free
  BY <1>3 DEF Run
<1>5. p \in Upper \/ p \in Lower
  BY <1>1, <1>3, <1>4 DEF FreeRuns
<1>6. CASE Upper # {}
  <2>1. FindFree(1) = Least(Upper) /\ Least(Upper) \in Nat
    BY <1>2, <1>6, LeastExists DEF FindFree
  <2> QED BY <2>1 DEF NONE
<1>7. CASE Upper = {}
  <2>1. Lower # {}
    BY <1>5, <1>7
  <2>2. FindFree(1) = Least(Lower) /\ Least(Lower) \in Nat
    BY <1>2, <1>7, <2>1, LeastExists DEF FindFree
  <2> QED BY <2>2 DEF NONE
<1> QED BY <1>6, <1>7

-------------------------------------------------------------------------------
(***************************************************************************)
(* The loops of the search.                                                *)
(***************************************************************************)

\* What holds before a loop and is kept by each turn holds after every turn.
LEMMA LoopKeeps ==
  ASSUME NEW S, NEW n \in Nat, NEW w, w[0] \in S,
         \A k \in 1 .. n : w[k - 1] \in S => w[k] \in S
  PROVE  \A k \in 0 .. n : w[k] \in S
<1> DEFINE bad == {k \in 0 .. n : w[k] \notin S}
<1>1. SUFFICES ASSUME bad # {} PROVE FALSE
  OBVIOUS
<1>2. PICK k : k \in bad /\ \A t \in bad : k <= t
  <2>1. bad \subseteq Nat
    OBVIOUS
  <2> HIDE DEF bad
  <2> QED BY <1>1, <2>1, LeastExists
<1>3. k \in 1 .. n /\ k - 1 \in 0 .. n
  <2>1. k \in 0 .. n /\ k # 0
    BY <1>2
  <2> QED BY <2>1
<1>4. k - 1 \notin bad
  <2>1. ~ (k <= k - 1)
    BY <1>3
  <2> QED BY <1>2, <2>1
<1>5. w[k - 1] \in S
  BY <1>3, <1>4
<1> QED BY <1>2, <1>3, <1>5

\* A loop of n turns that starts with x and whose k-th turn is F[k] has a run.
IsRun(g, S, n, x, F) ==
  g \in [0 .. n -> S] /\ g[0] = x /\ \A k \in 1 .. n : g[k] = F[k][g[k - 1]]

LEMMA LoopRuns ==
  ASSUME NEW S, NEW n \in Nat, NEW x \in S, NEW F \in [1 .. n -> [S -> S]]
  PROVE  \E g : IsRun(g, S, n, x, F)
<1> USE DEF IsRun
<1> DEFINE Goes(m, g) == g \in [0 .. m -> S] /\ g[0] = x /\ \A k \in 1 .. m : g[k] = F[k][g[k - 1]]
           bad == {m \in 0 .. n : ~ \E g : Goes(m, g)}
<1>1. SUFFICES ASSUME bad # {} PROVE FALSE
  <2>1. n \notin bad
    BY <1>1
  <2>2. \E g : Goes(n, g)
    BY <2>1
  <2> QED BY <2>2
<1>2. PICK m : m \in bad /\ \A t \in bad : m <= t
  <2>1. bad \subseteq Nat
    OBVIOUS
  <2> HIDE DEF bad
  <2> QED BY <1>1, <2>1, LeastExists
<1>3. m # 0
  <2>1. Goes(0, [k \in 0 .. 0 |-> x])
    OBVIOUS
  <2> QED BY <1>2, <2>1
<1>4. m \in 1 .. n /\ m - 1 \in 0 .. n /\ m - 1 \notin bad
  <2>1. m \in 0 .. n
    BY <1>2
  <2>2. m \in 1 .. n /\ m - 1 \in 0 .. n /\ ~ (m <= m - 1)
    BY <1>3, <2>1
  <2> QED BY <1>2, <2>2
<1>5. PICK g : Goes(m - 1, g)
  BY <1>4
<1> DEFINE h == [k \in 0 .. m |-> IF k = m THEN F[m][g[m - 1]] ELSE g[k]]
<1>6. Goes(m, h)
  <2>1. F[m][g[m - 1]] \in S
    BY <1>4, <1>5
  <2>2. h \in [0 .. m -> S] /\ h[0] = x
    BY <1>3, <1>4, <1>5, <2>1
  <2>3. ASSUME NEW k \in 1 .. m PROVE h[k] = F[k][h[k - 1]]
    <3>1. k \in 0 .. m /\ k - 1 \in 0 .. m /\ k - 1 # m /\ m - 1 \in 0 .. m
      BY <1>4, <2>3
    <3>2. CASE k = m
      BY <3>1, <3>2
    <3>3. CASE k # m
      <4>1. k \in 1 .. m - 1
        BY <1>4, <3>3
      <4> QED BY <1>5, <3>1, <3>3, <4>1
    <3> QED BY <3>2, <3>3
  <2> QED BY <2>2, <2>3
<1> QED BY <1>2, <1>6

\* The counter of a loop over the pages from lo to hi - 1.
LEMMA Counts ==
  ASSUME NEW lo \in Nat, NEW hi \in Nat, lo <= hi
  PROVE  /\ \A k \in 0 .. hi - lo : Consecutive(lo, hi)[k] \in Nat
         /\ Consecutive(lo, hi)[0] = 0
         /\ \A k \in 1 .. hi - lo :
              Consecutive(lo, hi)[k] =
                IF lo + k - 1 \in free THEN Consecutive(lo, hi)[k - 1] + 1 ELSE 0
<1> DEFINE n == hi - lo
           Turns(w) == [k \in 0 .. n |->
                          IF k > 0 /\ lo + k - 1 \in free THEN w[k - 1] + 1 ELSE 0]
           loop == CHOOSE w : w = Turns(w)
           F == [k \in 1 .. n |->
                   [v \in Nat |-> IF lo + k - 1 \in free THEN v + 1 ELSE 0]]
<1>1. n \in Nat
  OBVIOUS
<1>2. \E w : w = Turns(w)
  <2>1. F \in [1 .. n -> [Nat -> Nat]]
    OBVIOUS
  <2>2. PICK G : G = F
    OBVIOUS
  <2>3. PICK j : j = n
    OBVIOUS
  <2>4. \E g : IsRun(g, Nat, j, 0, G)
    <3>1. j \in Nat /\ G \in [1 .. j -> [Nat -> Nat]]
      BY <1>1, <2>1, <2>2, <2>3
    <3> QED BY <3>1, LoopRuns
  <2>5. PICK g : g \in [0 .. n -> Nat] /\ g[0] = 0 /\ \A k \in 1 .. n : g[k] = G[k][g[k - 1]]
    BY <2>3, <2>4 DEF IsRun
  <2>6. ASSUME NEW k \in 0 .. n
        PROVE  g[k] = IF k > 0 /\ lo + k - 1 \in free THEN g[k - 1] + 1 ELSE 0
    <3>1. CASE k = 0
      BY <2>5, <3>1
    <3>2. CASE k # 0
      <4>1. k \in 1 .. n /\ k - 1 \in 0 .. n
        BY <1>1, <3>2
      <4>2. g[k - 1] \in Nat
        BY <2>5, <4>1
      <4>3. G[k][g[k - 1]] = IF lo + k - 1 \in free THEN g[k - 1] + 1 ELSE 0
        BY <2>2, <4>1, <4>2
      <4> QED BY <2>5, <4>1, <4>3
    <3> QED BY <3>1, <3>2
  <2>7. g = Turns(g)
    BY <2>5, <2>6
  <2> QED BY <2>7
<1>3. loop = Turns(loop)
  BY <1>2
<1>4. Consecutive(lo, hi) = loop
  BY DEF Consecutive
<1> HIDE DEF loop
<1>5. \A k \in 0 .. n : loop[k] = IF k > 0 /\ lo + k - 1 \in free THEN loop[k - 1] + 1 ELSE 0
  BY <1>3
<1>6. loop[0] = 0 /\ \A k \in 1 .. n :
        loop[k] = IF lo + k - 1 \in free THEN loop[k - 1] + 1 ELSE 0
  BY <1>1, <1>5
<1>7. \A k \in 0 .. n : loop[k] \in Nat
  <2>1. \A k \in 1 .. n : loop[k - 1] \in Nat => loop[k] \in Nat
    BY <1>6
  <2>2. loop[0] \in Nat
    BY <1>6
  <2> HIDE DEF n
  <2> QED BY <1>1, <2>1, <2>2, LoopKeeps
<1> QED BY <1>4, <1>6, <1>7

\* It counts the free pages up to the one looked at, back to one that is not.
CountsRun(lo, k, v) ==
  /\ v \in 0 .. k
  /\ \A p \in lo + k - v .. lo + k - 1 : p \in free
  /\ v < k => lo + k - v - 1 \notin free

LEMMA CountIsRun ==
  ASSUME NEW lo \in Nat, NEW hi \in Nat, lo <= hi
  PROVE  \A k \in 0 .. hi - lo : CountsRun(lo, k, Consecutive(lo, hi)[k])
<1>1. PICK c : c = Consecutive(lo, hi)
  OBVIOUS
<1>2. /\ \A k \in 0 .. hi - lo : c[k] \in Nat
      /\ c[0] = 0
      /\ \A k \in 1 .. hi - lo : c[k] = IF lo + k - 1 \in free THEN c[k - 1] + 1 ELSE 0
  BY <1>1, Counts
<1> DEFINE n == hi - lo
           S == {s \in (0 .. n) \X Nat : CountsRun(lo, s[1], s[2])}
           h == [k \in 0 .. n |-> <<k, c[k]>>]
<1>3. \A k \in 0 .. n : h[k] \in S <=> CountsRun(lo, k, c[k])
  BY <1>2
<1>4. CountsRun(lo, 0, c[0])
  BY <1>2 DEF CountsRun
<1>5. ASSUME NEW k \in 1 .. n, CountsRun(lo, k - 1, c[k - 1]) PROVE CountsRun(lo, k, c[k])
  <2>1. CASE lo + k - 1 \in free
    <3>1. PICK v : v = c[k - 1]
      OBVIOUS
    <3>2. c[k] = v + 1
      BY <1>2, <2>1, <3>1
    <3>3. /\ v \in 0 .. k - 1
          /\ \A p \in lo + (k - 1) - v .. lo + (k - 1) - 1 : p \in free
          /\ v < k - 1 => lo + (k - 1) - v - 1 \notin free
      BY <1>5, <3>1 DEF CountsRun
    <3>4. \A p \in lo + k - (v + 1) .. lo + k - 1 : p \in free
      <4>1. ASSUME NEW p \in lo + k - (v + 1) .. lo + k - 1 PROVE p \in free
        <5>1. p = lo + k - 1 \/ p \in lo + (k - 1) - v .. lo + (k - 1) - 1
          BY <3>3
        <5> QED BY <2>1, <3>3, <5>1
      <4> QED BY <4>1
    <3>5. v + 1 \in 0 .. k /\ lo + k - (v + 1) - 1 = lo + (k - 1) - v - 1
          /\ (v + 1 < k => v < k - 1)
      BY <3>3
    <3>6. v + 1 < k => lo + k - (v + 1) - 1 \notin free
      BY <3>3, <3>5
    <3> QED BY <3>2, <3>4, <3>5, <3>6 DEF CountsRun
  <2>2. CASE lo + k - 1 \notin free
    <3>1. c[k] = 0
      BY <1>2, <2>2
    <3> QED BY <2>2, <3>1 DEF CountsRun
  <2> QED BY <2>1, <2>2
<1>6. \A k \in 0 .. n : h[k] \in S
  <2>1. n \in Nat
    OBVIOUS
  <2>2. h[0] \in S
    BY <1>3, <1>4, <2>1
  <2>3. ASSUME NEW k \in 1 .. n, h[k - 1] \in S PROVE h[k] \in S
    <3>1. k \in 0 .. n /\ k - 1 \in 0 .. n
      OBVIOUS
    <3> QED BY <1>3, <1>5, <2>3, <3>1
  <2> HIDE DEF h, S
  <2> QED BY <2>1, <2>2, <2>3, LoopKeeps
<1> QED BY <1>1, <1>3, <1>6

\* So a loop returns the first window of free pages.
LEMMA LoopFindsRun ==
  ASSUME NEW lo \in Nat, NEW hi \in Nat, lo <= hi, NEW n \in Nat \ {0}
  PROVE  Loop(lo, hi, n) = IF FreeRuns(lo, hi, n) = {} THEN NONE ELSE Least(FreeRuns(lo, hi, n))
<1>1. PICK c : c = Consecutive(lo, hi)
  OBVIOUS
<1>2. \A k \in 0 .. hi - lo : CountsRun(lo, k, c[k])
  BY <1>1, CountIsRun
<1>3. PICK hits : hits = {k \in 1 .. hi - lo : c[k] = n}
  OBVIOUS
<1>4. PICK runs : runs = FreeRuns(lo, hi, n)
  OBVIOUS
<1>5. \A k \in hits : lo + k - n \in runs
  <2>1. ASSUME NEW k \in hits PROVE lo + k - n \in runs
    <3>1. k \in 1 .. hi - lo /\ c[k] = n
      BY <1>3
    <3>2. n \in 0 .. k /\ \A p \in lo + k - n .. lo + k - 1 : p \in free
      BY <1>2, <3>1 DEF CountsRun
    <3>3. lo + k - n \in lo .. hi - n /\ lo + k - n + n - 1 = lo + k - 1
      BY <3>1, <3>2
    <3>4. Run(lo + k - n, n) \subseteq free
      BY <3>2, <3>3 DEF Run
    <3> QED BY <1>4, <3>3, <3>4 DEF FreeRuns
  <2> QED BY <2>1
<1>6. CASE runs = {}
  <2>1. hits = {}
    BY <1>5, <1>6
  <2> QED BY <1>1, <1>3, <1>4, <1>6, <2>1 DEF Loop
<1>7. CASE runs # {}
  <2>1. PICK s : s = Least(runs)
    OBVIOUS
  <2>2. runs \subseteq Nat
    BY <1>4 DEF FreeRuns
  <2>3. s \in runs /\ \A t \in runs : s <= t
    BY <1>7, <2>1, <2>2, LeastExists
  <2>4. s \in lo .. hi - n /\ \A p \in s .. s + n - 1 : p \in free
    BY <1>4, <2>3 DEF FreeRuns, Run
  <2>5. PICK k : k = s + n - lo
    OBVIOUS
  <2>6. k \in 1 .. hi - lo /\ lo + k - n = s /\ lo + k - 1 = s + n - 1 /\ k \in 0 .. hi - lo /\ n <= k
    BY <2>4, <2>5
  <2>7. PICK v : v = c[k]
    OBVIOUS
  <2>8. /\ v \in 0 .. k /\ \A p \in lo + k - v .. lo + k - 1 : p \in free
        /\ v < k => lo + k - v - 1 \notin free
    BY <1>2, <2>6, <2>7 DEF CountsRun
  <2>9. ~ (v < n)
    <3>1. SUFFICES ASSUME v < n PROVE FALSE
      OBVIOUS
    <3>2. v < k /\ lo + k - v - 1 \in s .. s + n - 1
      BY <2>4, <2>6, <2>8, <3>1
    <3> QED BY <2>4, <2>8, <3>2
  <2>10. ~ (n < v)
    <3>1. SUFFICES ASSUME n < v PROVE FALSE
      OBVIOUS
    <3>2. s - 1 \in lo .. hi - n /\ \A p \in s - 1 .. s - 1 + n - 1 : p \in lo + k - v .. lo + k - 1
      BY <2>4, <2>6, <2>8, <3>1
    <3>3. Run(s - 1, n) \subseteq free
      BY <2>8, <3>2 DEF Run
    <3>4. s - 1 \in runs
      BY <1>4, <3>2, <3>3 DEF FreeRuns
    <3>5. s <= s - 1
      BY <2>3, <3>4
    <3> QED BY <2>4, <3>5
  <2>11. k \in hits
    BY <1>3, <2>6, <2>7, <2>8, <2>9, <2>10
  <2>12. PICK l : l = Least(hits)
    OBVIOUS
  <2>13. l \in hits /\ \A t \in hits : l <= t
    <3>1. hits \subseteq Nat /\ hits # {}
      BY <1>3, <2>11
    <3> QED BY <2>12, <3>1, LeastExists
  <2>14. l <= k /\ s <= lo + l - n /\ l \in Nat
    <3>1. l <= k
      BY <2>11, <2>13
    <3>2. lo + l - n \in runs
      BY <1>5, <2>13
    <3> QED BY <1>3, <2>3, <2>13, <3>1, <3>2
  <2>15. lo + l - n = s
    BY <2>4, <2>6, <2>14
  <2>16. Loop(lo, hi, n) = lo + l - n
    BY <1>1, <1>3, <2>11, <2>12 DEF Loop
  <2> QED BY <1>4, <1>7, <2>1, <2>15, <2>16
<1> QED BY <1>6, <1>7

-------------------------------------------------------------------------------
(***************************************************************************)
(* Page arithmetic.                                                        *)
(***************************************************************************)

\* Multiplication by PAGE keeps the order, and can be undone.
LEMMA PageOrder ==
  ASSUME NEW a \in Int, NEW b \in Int
  PROVE  /\ a * PAGE < b * PAGE => a < b
         /\ a <= b => a * PAGE <= b * PAGE
         /\ (a * PAGE) \div PAGE = a
         /\ a * PAGE \in Int /\ (a + 1) * PAGE = a * PAGE + PAGE
<1>1. PAGE \in Int /\ PAGE > 0
  BY PMMAssumption
<1>2. a <= b => a * PAGE <= b * PAGE
  BY <1>1
<1>3. a * PAGE < b * PAGE => a < b
  <2> SUFFICES ASSUME b <= a PROVE b * PAGE <= a * PAGE
    BY <1>1
  <2> QED BY <1>1
<1>4. (a * PAGE) \div PAGE = a
  BY <1>1
<1> QED BY <1>1, <1>2, <1>3, <1>4

\* Every address lies in the page that ALIGN_DOWN gives the start of.
LEMMA AlignDownIs ==
  ASSUME NEW a \in Nat
  PROVE  \E m \in Nat : /\ AlignDown(a) = m * PAGE
                        /\ m * PAGE <= a /\ a < m * PAGE + PAGE
<1>1. PAGE \in Int /\ PAGE > 0
  BY PMMAssumption
<1>2. a \div PAGE \in Nat
  BY <1>1
<1>3. a = PAGE * (a \div PAGE) + (a % PAGE) /\ a % PAGE \in 0 .. PAGE - 1
  BY <1>1
<1>4. PAGE * (a \div PAGE) = (a \div PAGE) * PAGE
  BY <1>1, <1>2
<1>5. (a \div PAGE) * PAGE \in Int
  BY <1>1, <1>2
<1>6. (a \div PAGE) * PAGE <= a /\ a < (a \div PAGE) * PAGE + PAGE
  BY <1>1, <1>3, <1>4, <1>5
<1> QED BY <1>2, <1>6 DEF AlignDown

\* ALIGN_UP gives the first page boundary that is not below the address.
LEMMA AlignUpIs ==
  ASSUME NEW a \in Nat
  PROVE  \E m \in Nat : /\ AlignUp(a) = m * PAGE
                        /\ a <= m * PAGE /\ m * PAGE < a + PAGE
<1>1. PAGE \in Int /\ PAGE > 0
  BY PMMAssumption
<1>2. a + PAGE - 1 \in Nat
  BY <1>1
<1>3. PICK m \in Nat : /\ AlignDown(a + PAGE - 1) = m * PAGE
                       /\ m * PAGE <= a + PAGE - 1 /\ a + PAGE - 1 < m * PAGE + PAGE
  BY <1>2, AlignDownIs
<1>4. m * PAGE \in Int
  BY PageOrder
<1> QED BY <1>1, <1>3, <1>4 DEF AlignUp

\* Below the end of the address space the subtraction in pmm_reserve_region
\* does not wrap, and gives the number of the page.
LEMMA PageOfBoundary ==
  ASSUME NEW m \in Nat, NEW b \in Nat, BASE = b * PAGE, b <= m, m * PAGE < WORD
  PROVE  PageOf(m * PAGE) = m - b
<1>1. PAGE \in Int /\ PAGE > 0 /\ WORD \in Int /\ BASE \in Nat
  BY PMMAssumption
<1>2. m * PAGE \in Int /\ b * PAGE <= m * PAGE
  BY PageOrder
<1>3. m * PAGE - BASE \in 0 .. WORD - 1
  BY <1>1, <1>2
<1>4. (m * PAGE - BASE) % WORD = m * PAGE - BASE
  BY <1>1, <1>3
<1>5. m * PAGE - BASE = (m - b) * PAGE
  BY <1>1
<1>6. ((m - b) * PAGE) \div PAGE = m - b
  BY PageOrder
<1> QED BY <1>4, <1>5, <1>6 DEF PageOf

\* Where pmm_init lets the bitmap lie: behind 1 MB, and mapped at boot.
Placed == BitmapStart >= BASE /\ BitmapEnd(pages) <= IDENTITY_LIMIT

\* pmm_reserve_region takes every page that holds a part of the bitmap.
LEMMA BitmapReserved ==
  ASSUME TypeOK, Placed, NEW p \in Managed,
         BASE + p * PAGE < BitmapEnd(pages), BitmapStart < BASE + (p + 1) * PAGE
  PROVE  p \in BitmapPages(pages)
<1> DEFINE B == BitmapStart
           L == BitmapEnd(pages)
<1>1. /\ PAGE \in Int /\ PAGE > 0 /\ BASE \in Nat /\ KernelEnd \in Nat
      /\ PagesPerUnit \in Int /\ PagesPerUnit > 0
      /\ WORD \in Int /\ IDENTITY_LIMIT \in Int /\ IDENTITY_LIMIT + PAGE <= WORD
  BY PMMAssumption
<1>2. pages \in Nat /\ pages > 0 /\ p \in Nat /\ p < pages
  BY DEF TypeOK, Managed
<1>3. PICK k \in Nat : B = k * PAGE
  BY <1>1, AlignUpIs DEF BitmapStart
<1>4. PICK b \in Nat : BASE = b * PAGE
  <2>1. BASE \div PAGE \in Nat
    BY <1>1
  <2>2. BASE = PAGE * (BASE \div PAGE) + (BASE % PAGE)
    BY <1>1
  <2>3. PAGE * (BASE \div PAGE) = (BASE \div PAGE) * PAGE
    BY <1>1, <2>1
  <2>4. BASE = (BASE \div PAGE) * PAGE
    BY <1>1, <2>1, <2>2, <2>3, PMMAssumption
  <2> QED BY <2>1, <2>4
<1>5. k * PAGE \in Int /\ b * PAGE \in Int
  BY PageOrder
<1>6. L \in Nat /\ B < L
  <2>1. (pages + PagesPerUnit - 1) \div PagesPerUnit \in Nat
    BY <1>1, <1>2
  <2>2. (pages + PagesPerUnit - 1) \div PagesPerUnit > 0
    BY <1>1, <1>2
  <2> QED BY <1>3, <1>5, <1>1, <2>1, <2>2 DEF Placed, BitmapEnd
<1>7. PICK m \in Nat : AlignUp(L) = m * PAGE /\ L <= m * PAGE /\ m * PAGE < L + PAGE
  BY <1>6, AlignUpIs
<1>8. m * PAGE \in Int
  BY PageOrder
<1>9. AlignDown(B) = k * PAGE
  BY <1>3, PageOrder DEF AlignDown
<1>10. b <= k /\ k < m
  <2>1. k * PAGE < m * PAGE
    BY <1>3, <1>5, <1>6, <1>7, <1>8
  <2>2. b * PAGE <= k * PAGE
    BY <1>3, <1>4 DEF Placed
  <2>3. b * PAGE < (k + 1) * PAGE
    BY <2>2, <1>1, <1>5, PageOrder
  <2>4. b < k + 1
    BY <2>3, PageOrder
  <2>5. k < m
    BY <2>1, PageOrder
  <2> QED BY <2>4, <2>5
<1>11. PageOf(AlignDown(B)) = k - b /\ PageOf(AlignUp(L)) = m - b
  <2>1. m * PAGE < WORD
    BY <1>1, <1>6, <1>7, <1>8 DEF Placed
  <2>2. k * PAGE < WORD
    BY <2>1, <1>1, <1>3, <1>5, <1>6, <1>7, <1>8
  <2>3. PageOf(k * PAGE) = k - b
    BY <2>2, <1>4, <1>10, PageOfBoundary
  <2>4. PageOf(m * PAGE) = m - b
    BY <2>1, <1>4, <1>10, PageOfBoundary
  <2> QED BY <2>3, <2>4, <1>7, <1>9
<1>12. k - b <= p
  <2>1. BASE + (p + 1) * PAGE = (b + p + 1) * PAGE
    BY <1>1, <1>2, <1>4
  <2>2. k * PAGE < (b + p + 1) * PAGE
    BY <2>1, <1>3
  <2>3. k < b + p + 1
    BY <2>2, <1>2, PageOrder
  <2> QED BY <2>3, <1>2
<1>13. p < m - b
  <2>1. BASE + p * PAGE = (b + p) * PAGE
    BY <1>1, <1>2, <1>4
  <2>2. (b + p) * PAGE \in Int
    BY <1>2, PageOrder
  <2>3. (b + p) * PAGE < m * PAGE
    BY <2>1, <2>2, <1>6, <1>7, <1>8
  <2>4. b + p < m
    BY <2>3, <1>2, PageOrder
  <2> QED BY <2>4, <1>2
<1>14. AlignDown(B) < AlignUp(L)
  BY <1>3, <1>5, <1>6, <1>7, <1>8, <1>9
<1>15. p \in ReservedPages(B, L, pages)
  BY <1>2, <1>11, <1>12, <1>13, <1>14 DEF ReservedPages
<1> QED BY <1>15 DEF BitmapPages

-------------------------------------------------------------------------------
(***************************************************************************)
(* The inductive invariant: types and ownership.  Ownership alone makes    *)
(* pmm_free safe: a page of an owner is counted once already, so its bit   *)
(* cannot be 0.                                                            *)
(***************************************************************************)
IInv == TypeOK /\ OneOwner /\ NeverPanics /\ Placed

LEMMA InitIInv == Init => IInv
<1> SUFFICES ASSUME Init PROVE IInv
  OBVIOUS
<1>1. PICK last \in Usable(map) : pages = (last.end - BASE) \div PAGE
  BY DEF Init
<1>2. last.end \in Nat
  BY PMMAssumption DEF Init, Usable, Region
<1>3. pages \in Nat \ {0}
  BY <1>1, <1>2, PMMAssumption DEF Init
<1>4. InitiallyFree(map, pages) \subseteq Managed
  BY DEF InitiallyFree, FreedByMap, PagesOfRegion, Managed
<1>5. TypeOK
  <2>1. 0 \in Managed
    BY <1>3 DEF Managed
  <2>2. holders \in [Managed -> Nat]
    BY DEF Init
  <2> QED BY <1>3, <1>4, <2>1, <2>2 DEF Init, TypeOK
<1>6. OneOwner
  BY DEF Init, OneOwner
<1> QED BY <1>5, <1>6 DEF IInv, NeverPanics, Placed, Init

\* Handing out a run that was free gives each of its pages its only owner.
LEMMA AllocKeeps ==
  ASSUME IInv, NEW n \in Nat \ {0}, pmm_alloc(n)
  PROVE  IInv'
<1> DEFINE found == FindFree(n)
<1>1. found \in Managed /\ Run(found, n) \subseteq free
  BY FoundRunIsFree DEF IInv, pmm_alloc
<1> HIDE DEF found
<1>2. /\ free' = free \ Run(found, n)
      /\ lastFree' = found
      /\ holders' = [p \in Managed |->
                       IF p \in Run(found, n) THEN holders[p] + 1 ELSE holders[p]]
      /\ UNCHANGED <<map, pages, panicked>>
  BY DEF pmm_alloc, found
<1>3. TypeOK'
  <2>1. \A p \in Managed : holders[p] \in Nat
    BY DEF IInv, TypeOK
  <2>2. holders' \in [Managed -> Nat]
    BY <1>2, <2>1
  <2>3. Managed' = Managed
    BY <1>2 DEF Managed
  <2> QED BY <1>1, <1>2, <2>2, <2>3 DEF IInv, TypeOK
<1>4. OneOwner'
  <2> SUFFICES ASSUME NEW p \in Managed
               PROVE  holders'[p] + (IF p \in free' THEN 1 ELSE 0)
                        = IF p \in InitiallyFree(map, pages) THEN 1 ELSE 0
    BY <1>2 DEF OneOwner, Managed
  <2>1. holders[p] \in Nat
    BY DEF IInv, TypeOK
  <2>2. holders[p] + (IF p \in free THEN 1 ELSE 0)
          = IF p \in InitiallyFree(map, pages) THEN 1 ELSE 0
    BY DEF IInv, OneOwner
  <2>3. CASE p \in Run(found, n)
    <3>1. p \in free /\ p \notin free' /\ holders'[p] = holders[p] + 1
      BY <1>1, <1>2, <2>3
    <3> QED BY <2>1, <2>2, <3>1
  <2>4. CASE p \notin Run(found, n)
    <3>1. (p \in free <=> p \in free') /\ holders'[p] = holders[p]
      BY <1>2, <2>4
    <3> QED BY <2>2, <3>1
  <2> QED BY <2>3, <2>4
<1> QED BY <1>2, <1>3, <1>4 DEF IInv, NeverPanics, Placed

\* An owner's pages are not free: the check for a double free passes, and the
\* pages go back to the bitmap once.
LEMMA FreeKeeps ==
  ASSUME IInv, NEW n \in Nat \ {0}, NEW first \in Managed, pmm_free(first, n)
  PROVE  IInv'
<1>1. Run(first, n) \subseteq Managed
  BY DEF pmm_free
<1>2. \A p \in Managed : holders[p] \in Nat
  BY DEF IInv, TypeOK
<1>3. \A p \in Run(first, n) : p \notin free
  <2> SUFFICES ASSUME NEW p \in Run(first, n), p \in free PROVE FALSE
    OBVIOUS
  <2>1. holders[p] > 0 /\ holders[p] \in Nat
    BY <1>1, <1>2 DEF pmm_free
  <2>2. holders[p] + 1 = IF p \in InitiallyFree(map, pages) THEN 1 ELSE 0
    BY <1>1 DEF IInv, OneOwner
  <2> QED BY <2>1, <2>2
<1>4. Run(first, n) \cap free = {}
  BY <1>3
<1>5. /\ free' = free \cup Run(first, n)
      /\ lastFree' = IF first < lastFree THEN first ELSE lastFree
      /\ holders' = [p \in Managed |->
                       IF p \in Run(first, n) THEN holders[p] - 1 ELSE holders[p]]
      /\ UNCHANGED <<map, pages, panicked>>
  BY <1>4 DEF pmm_free
<1>6. \A p \in Run(first, n) : holders[p] > 0
  BY DEF pmm_free
<1>7. TypeOK'
  <2>1. \A p \in Managed : holders'[p] \in Nat
    BY <1>2, <1>5, <1>6
  <2>2. holders' \in [Managed -> Nat]
    BY <1>5, <2>1
  <2>3. Managed' = Managed
    BY <1>5 DEF Managed
  <2> QED BY <1>1, <1>5, <2>2, <2>3 DEF IInv, TypeOK
<1>8. OneOwner'
  <2> SUFFICES ASSUME NEW p \in Managed
               PROVE  holders'[p] + (IF p \in free' THEN 1 ELSE 0)
                        = IF p \in InitiallyFree(map, pages) THEN 1 ELSE 0
    BY <1>5 DEF OneOwner, Managed
  <2>1. holders[p] + (IF p \in free THEN 1 ELSE 0)
          = IF p \in InitiallyFree(map, pages) THEN 1 ELSE 0
    BY DEF IInv, OneOwner
  <2>2. CASE p \in Run(first, n)
    <3>1. p \notin free /\ p \in free' /\ holders'[p] = holders[p] - 1
      BY <1>3, <1>5, <2>2
    <3> QED BY <1>2, <2>1, <3>1
  <2>3. CASE p \notin Run(first, n)
    <3>1. (p \in free <=> p \in free') /\ holders'[p] = holders[p]
      BY <1>5, <2>3
    <3> QED BY <2>1, <3>1
  <2> QED BY <2>2, <2>3
<1> QED BY <1>5, <1>7, <1>8 DEF IInv, NeverPanics, Placed

LEMMA NextKeepsIInv == IInv /\ [Next]_vars => IInv'
<1> SUFFICES ASSUME IInv, [Next]_vars PROVE IInv'
  OBVIOUS
<1>1. CASE UNCHANGED vars
  BY <1>1 DEF vars, IInv, TypeOK, OneOwner, NeverPanics, Placed, Managed
<1>2. CASE Next
  <2>1. PICK n \in Sizes : \/ pmm_alloc(n)
                           \/ AllocFails(n)
                           \/ \E first \in Managed : pmm_free(first, n)
    BY <1>2 DEF Next
  <2>2. n \in Nat \ {0}
    BY PMMAssumption
  <2>3. CASE pmm_alloc(n)
    BY <2>2, <2>3, AllocKeeps
  <2>4. CASE AllocFails(n)
    BY <2>4 DEF AllocFails, vars, IInv, TypeOK, OneOwner, NeverPanics, Placed, Managed
  <2>5. CASE \E first \in Managed : pmm_free(first, n)
    BY <2>2, <2>5, FreeKeeps
  <2> QED BY <2>1, <2>3, <2>4, <2>5
<1> QED BY <1>1, <1>2

\* The invariant of the bitmap and its owners holds in every state pmm_alloc
\* and pmm_free can reach.
THEOREM IInvHolds == Spec => []IInv
<1>1. Init => IInv
  BY InitIInv
<1>2. IInv /\ [Next]_vars => IInv'
  BY NextKeepsIInv
<1> QED BY <1>1, <1>2, PTL DEF Spec

\* Types: the search of pmm_alloc always starts inside the bitmap.
THEOREM TypeCorrect == Spec => []TypeOK
<1>1. IInv => TypeOK
  BY DEF IInv
<1> QED BY <1>1, IInvHolds, PTL

\* No page of RAM has two owners, or is lost by pmm_alloc and pmm_free.
THEOREM PagesHaveOneOwner == Spec => []OneOwner
<1>1. IInv => OneOwner
  BY DEF IInv
<1> QED BY <1>1, IInvHolds, PTL

\* pmm_free never panics for a caller that frees pages it was given.
THEOREM HonestFreeNeverPanics == Spec => []NeverPanics
<1>1. IInv => NeverPanics
  BY DEF IInv
<1> QED BY <1>1, IInvHolds, PTL

\* pmm_alloc(1) succeeds as long as a page is free.
THEOREM FreePageIsFound == Spec => []OnePageFound
<1>1. IInv => OnePageFound
  BY SinglePageFound DEF IInv, OnePageFound
<1> QED BY <1>1, IInvHolds, PTL

\* No page under the bitmap is ever handed out or free.
THEOREM BitmapIsKept == Spec => []BitmapKept
<1>1. IInv => BitmapKept
  <2> SUFFICES ASSUME IInv, NEW p \in Managed,
                      BASE + p * PAGE < BitmapEnd(pages),
                      BitmapStart < BASE + (p + 1) * PAGE
               PROVE  p \notin free /\ holders[p] = 0
    BY DEF BitmapKept
  <2>1. p \in BitmapPages(pages)
    BY BitmapReserved DEF IInv
  <2>2. p \notin InitiallyFree(map, pages)
    BY <2>1 DEF InitiallyFree
  <2>3. holders[p] \in Nat
    BY DEF IInv, TypeOK
  <2>4. holders[p] + (IF p \in free THEN 1 ELSE 0) = 0
    BY <2>2 DEF IInv, OneOwner
  <2> QED BY <2>3, <2>4
<1> QED BY <1>1, IInvHolds, PTL

\* The windows PMM looks for are what the two counting loops of
\* pmm_find_free_sequence find, for every bitmap and every last_free.
THEOREM LoopsAlwaysAgree == Spec => []LoopsAgree
<1>1. IInv => LoopsAgree
  <2> SUFFICES ASSUME IInv, NEW n \in Sizes
               PROVE  FindFree(n) = IF Loop(lastFree, pages, n) # NONE
                                    THEN Loop(lastFree, pages, n) ELSE Loop(0, lastFree, n)
    BY DEF LoopsAgree
  <2>1. n \in Nat \ {0}
    BY PMMAssumption
  <2>2. pages \in Nat /\ lastFree \in Nat /\ lastFree <= pages /\ 0 \in Nat /\ 0 <= lastFree
    BY DEF IInv, TypeOK, Managed
  <2>3. /\ Loop(lastFree, pages, n) = IF FreeRuns(lastFree, pages, n) = {} THEN NONE
                                      ELSE Least(FreeRuns(lastFree, pages, n))
        /\ Loop(0, lastFree, n) = IF FreeRuns(0, lastFree, n) = {} THEN NONE
                                  ELSE Least(FreeRuns(0, lastFree, n))
    BY <2>1, <2>2, LoopFindsRun
  <2>4. FreeRuns(lastFree, pages, n) # {} => Least(FreeRuns(lastFree, pages, n)) # NONE
    <3>1. FreeRuns(lastFree, pages, n) \subseteq Nat
      BY <2>2 DEF FreeRuns
    <3>2. FreeRuns(lastFree, pages, n) # {} => Least(FreeRuns(lastFree, pages, n)) \in Nat
      BY <3>1, LeastExists
    <3> QED BY <3>2 DEF NONE
  <2> QED BY <2>3, <2>4 DEF FindFree
<1> QED BY <1>1, IInvHolds, PTL

-------------------------------------------------------------------------------
(***************************************************************************)
(* Arithmetic.                                                             *)
(***************************************************************************)

\* The constants as numbers.
LEMMA HeapConstants ==
  /\ POOL \in Nat /\ HDR \in Nat /\ ALIGN \in Nat /\ SIZE_WORD \in Nat
  /\ HDR > 0 /\ ALIGN > 0 /\ HDR < POOL
BY HeapAssumption

\* A set of numbers that is not empty has a least member.
LEMMA LowestExists ==
  ASSUME NEW S, S \subseteq Nat, S # {}
  PROVE  Lowest(S) \in S /\ \A t \in S : Lowest(S) <= t
BY LeastExists DEF Least, Lowest

\* A set of numbers below a bound that is not empty has a greatest member.
LEMMA GreatestExists ==
  ASSUME NEW n \in Nat, NEW S, S \subseteq 0 .. n, S # {}
  PROVE  Greatest(S) \in S /\ \A t \in S : t <= Greatest(S)
<1> DEFINE T == {n - t : t \in S}
<1>1. T \subseteq Nat /\ T # {}
  <2>1. \A t \in S : n - t \in Nat
    OBVIOUS
  <2> QED BY <2>1
<1>2. Lowest(T) \in T /\ \A t \in T : Lowest(T) <= t
  BY <1>1, LowestExists
<1>3. PICK g \in S : Lowest(T) = n - g
  BY <1>2
<1>4. ASSUME NEW t \in S PROVE t <= g
  <2>1. n - g <= n - t
    BY <1>2, <1>3
  <2> QED BY <2>1
<1> QED BY <1>4 DEF Greatest

\* Rounding does not lose bytes.
LEMMA RoundedIs ==
  ASSUME NEW n \in Requests
  PROVE  n \in Nat /\ Rounded(n) \in Nat /\ n <= Rounded(n)
<1>1. ALIGN \in Nat /\ ALIGN > 0 /\ SIZE_WORD \in Nat /\ n \in Nat /\ n <= SIZE_WORD - ALIGN /\ n > 0
  BY HeapAssumption
<1> DEFINE up == n + ALIGN - 1
<1>2. up \in Nat /\ up < SIZE_WORD
  BY <1>1
<1>3. up % SIZE_WORD = up
  BY <1>1, <1>2
<1>4. up % ALIGN \in Nat /\ up % ALIGN <= ALIGN - 1
  BY <1>1, <1>2
<1>5. Rounded(n) = up - (up % ALIGN)
  BY <1>3 DEF Rounded
<1>6. up - (up % ALIGN) >= n
  <2> HIDE DEF up
  <2>1. up = n + ALIGN - 1
    BY DEF up
  <2> QED BY <1>1, <1>2, <1>4, <2>1
<1> QED BY <1>1, <1>2, <1>4, <1>5, <1>6

-------------------------------------------------------------------------------
(***************************************************************************)
(* The inductive invariant.  No free block begins where another one ends:  *)
(* that is what kfree's two merges keep, and what makes the first test of  *)
(* the neighbours enough for the next call.                                *)
(***************************************************************************)
Coalesced == \A b \in free_list : End(b) \notin free_list

HeapInv == HeapTypeOK /\ BlocksTile /\ CallersServed /\ Coalesced

\* What the invariant says of one block.
LEMMA BlockIs ==
  ASSUME HeapInv, NEW b \in Blocks
  PROVE  /\ b \in Nat /\ b < POOL /\ size[b] \in Nat
         /\ End(b) = b + HDR + size[b] /\ End(b) \in Nat /\ b < End(b)
<1>1. size \in [Blocks -> Nat] /\ Blocks \subseteq 0 .. POOL - 1
  BY DEF HeapInv, HeapTypeOK
<1>2. b \in Nat /\ b < POOL /\ size[b] \in Nat
  BY <1>1, HeapConstants
<1> QED BY <1>2, HeapConstants DEF End

\* The search for the neighbour before a block finds the free block that ends
\* where it begins, if there is one.
LEMMA BeforeIs ==
  ASSUME HeapInv, NEW b \in Blocks
  PROVE  Before(b) = {c \in free_list : End(c) = b}
<1> DEFINE lower == {c \in free_list : c < b}
<1>1. free_list \subseteq Blocks
  BY DEF HeapInv, HeapTypeOK
<1>2. lower \subseteq 0 .. b /\ b \in Nat
  BY <1>1, BlockIs
<1>3. ASSUME NEW c \in free_list, End(c) = b
      PROVE  c \in lower /\ c = Greatest(lower)
  <2>1. c \in lower
    BY <1>1, <1>3, BlockIs
  <2>2. Greatest(lower) \in lower /\ c <= Greatest(lower)
    BY <1>2, <2>1, GreatestExists
  <2>3. c < Greatest(lower) => End(c) <= Greatest(lower)
    BY <1>1, <2>2 DEF HeapInv, BlocksTile
  <2>4. c \in Nat /\ Greatest(lower) \in Nat /\ Greatest(lower) < b
    BY <1>1, <1>2, <2>2, BlockIs
  <2> QED BY <1>2, <1>3, <2>1, <2>2, <2>3, <2>4
<1>4. lower # {} => Greatest(lower) \in free_list
  BY <1>2, GreatestExists
<1> QED BY <1>3, <1>4 DEF Before

\* The search for the one after finds the free block that begins where the
\* block ends, if there is one.
LEMMA AfterIs ==
  ASSUME HeapInv, NEW b \in Blocks
  PROVE  After(b) = {c \in free_list : c = End(b)}
<1> DEFINE higher == {c \in free_list : c > b}
<1>1. free_list \subseteq Blocks
  BY DEF HeapInv, HeapTypeOK
<1>2. higher \subseteq Nat
  BY <1>1, BlockIs
<1>3. ASSUME NEW c \in free_list, c = End(b)
      PROVE  c \in higher /\ c = Lowest(higher)
  <2>1. c \in higher
    BY <1>3, BlockIs
  <2>2. Lowest(higher) \in higher /\ Lowest(higher) <= c
    BY <1>2, <2>1, LowestExists
  <2>3. b < Lowest(higher) /\ b \in Nat /\ Lowest(higher) \in Blocks
    BY <1>1, <2>2, BlockIs
  <2>4. End(b) <= Lowest(higher)
    BY <2>3 DEF HeapInv, BlocksTile
  <2> QED BY <1>2, <1>3, <2>1, <2>2, <2>4
<1>4. higher # {} => Lowest(higher) \in free_list
  BY <1>2, LowestExists
<1> QED BY <1>3, <1>4 DEF After

-------------------------------------------------------------------------------
(***************************************************************************)
(* kmalloc.                                                                *)
(***************************************************************************)

\* First fit takes a free block that is large enough.
LEMMA FitIs ==
  ASSUME HeapInv, NEW n \in Requests, Fits(n) # {}
  PROVE  /\ Lowest(Fits(n)) \in free_list /\ Lowest(Fits(n)) \in Blocks
         /\ Rounded(n) <= size[Lowest(Fits(n))]
<1>1. free_list \subseteq Blocks
  BY DEF HeapInv, HeapTypeOK
<1>2. Fits(n) \subseteq Nat
  BY <1>1, BlockIs DEF Fits
<1>3. Lowest(Fits(n)) \in Fits(n)
  BY <1>2, LowestExists
<1> QED BY <1>1, <1>3 DEF Fits

\* Splitting a free block keeps the tiling, and the rest is not next to
\* another free block.
LEMMA SplitTiles ==
  ASSUME HeapInv, NEW b \in free_list, NEW s \in Nat, size[b] > s + HDR + ALIGN,
         Split(b, s)
  PROVE  /\ b + HDR + s \notin Blocks
         /\ Blocks' = Blocks \cup {b + HDR + s}
         /\ size' \in [Blocks' -> Nat] /\ Blocks' \subseteq 0 .. POOL - 1
         /\ free_list' = (free_list \ {b}) \cup {b + HDR + s}
         /\ size'[b] = s /\ \A c \in Blocks \ {b} : size'[c] = size[c]
         /\ \A c \in Blocks' : End(c)' = POOL \/ End(c)' \in Blocks'
         /\ \A c, d \in Blocks' : c < d => End(c)' <= d
         /\ Coalesced'
<1> DEFINE r == b + HDR + s
<1>1. free_list \subseteq Blocks /\ b \in Blocks
  BY DEF HeapInv, HeapTypeOK
<1>2. /\ b \in Nat /\ r \in Nat /\ b < r /\ r < End(b) /\ size[b] \in Nat
      /\ size[b] - s - HDR \in Nat /\ End(b) \in Nat
      /\ r + HDR + (size[b] - s - HDR) = End(b)
  BY <1>1, BlockIs, HeapConstants
<1>3. End(b) <= POOL
  BY <1>1, <1>2, BlockIs, HeapConstants DEF HeapInv, BlocksTile
<1>4. \A c \in Blocks : c \in Nat /\ c < POOL /\ End(c) \in Nat /\ c < End(c)
  BY BlockIs
<1>5. \A c, d \in Blocks : c < d => End(c) <= d
  BY DEF HeapInv, BlocksTile
<1>6. r \notin Blocks
  BY <1>1, <1>2, <1>5
<1>7. /\ size' = [c \in Blocks \cup {r} |->
                    IF c = b THEN s ELSE IF c = r THEN size[b] - s - HDR ELSE size[c]]
      /\ free_list' = (free_list \ {b}) \cup {r}
  BY DEF Split
<1>8. Blocks' = Blocks \cup {r} /\ size' \in [Blocks' -> Nat]
  <2>1. size \in [Blocks -> Nat]
    BY DEF HeapInv, HeapTypeOK
  <2>2. Blocks' = Blocks \cup {r}
    BY <1>7 DEF Blocks
  <2> QED BY <1>2, <1>7, <2>1, <2>2
<1>9. Blocks' \subseteq 0 .. POOL - 1
  BY <1>2, <1>3, <1>4, <1>8, HeapConstants
<1>10. size'[b] = s /\ size'[r] = size[b] - s - HDR
       /\ \A c \in Blocks \ {b} : size'[c] = size[c]
  BY <1>1, <1>2, <1>6, <1>7
<1>11. End(b)' = r /\ End(r)' = End(b) /\ \A c \in Blocks \ {b} : End(c)' = End(c)
  BY <1>2, <1>10 DEF End
<1> HIDE DEF r
<1>12. \A c \in Blocks : End(c) = POOL \/ End(c) \in Blocks
  BY DEF HeapInv, BlocksTile
<1>13. \A c \in Blocks' : End(c)' = POOL \/ End(c)' \in Blocks'
  BY <1>1, <1>8, <1>11, <1>12
<1>14. ASSUME NEW c \in Blocks', NEW d \in Blocks', c < d PROVE End(c)' <= d
  <2>1. CASE c = b
    <3>1. d = r \/ (d \in Blocks /\ End(b) <= d)
      BY <1>1, <1>5, <1>8, <1>14, <2>1
    <3> QED BY <1>2, <1>4, <1>11, <2>1, <3>1
  <2>2. CASE c = r
    <3>1. d \in Blocks /\ b < d
      BY <1>2, <1>4, <1>8, <1>14, <2>2
    <3> QED BY <1>1, <1>5, <1>11, <2>2, <3>1
  <2>3. CASE c \in Blocks \ {b}
    <3>1. End(c)' = End(c)
      BY <1>11, <2>3
    <3>2. CASE d = r
      <4>1. c < b
        BY <1>1, <1>2, <1>4, <1>5, <1>14, <2>3, <3>2
      <4>2. End(c) <= b
        BY <1>1, <1>5, <2>3, <4>1
      <4> QED BY <1>2, <1>4, <2>3, <3>1, <3>2, <4>2
    <3>3. CASE d \in Blocks
      BY <1>5, <1>14, <2>3, <3>1, <3>3
    <3> QED BY <1>8, <3>2, <3>3
  <2> QED BY <1>8, <2>1, <2>2, <2>3
<1>15. Coalesced'
  <2>1. ASSUME NEW c \in free_list' PROVE End(c)' \notin free_list'
    <3>1. CASE c = r
      <4>1. End(b) \notin free_list /\ End(b) # r
        BY <1>2 DEF HeapInv, Coalesced
      <4> QED BY <1>7, <1>11, <3>1, <4>1 DEF r
    <3>2. CASE c \in free_list \ {b}
      <4>1. End(c)' = End(c) /\ End(c) \notin free_list
        BY <1>1, <1>11, <3>2 DEF HeapInv, Coalesced
      <4>2. End(c) # r
        <5>1. c < b \/ b < c
          BY <1>1, <1>4, <3>2
        <5>2. CASE c < b
          BY <1>1, <1>2, <1>4, <1>5, <3>2, <5>2
        <5>3. CASE b < c
          BY <1>1, <1>2, <1>4, <1>5, <3>2, <5>3
        <5> QED BY <5>1, <5>2, <5>3
      <4> QED BY <1>7, <4>1, <4>2 DEF r
    <3> QED BY <1>7, <3>1, <3>2 DEF r
  <2> QED BY <2>1 DEF Coalesced
<1> QED BY <1>6, <1>7, <1>8, <1>9, <1>10, <1>13, <1>14, <1>15 DEF r

LEMMA MallocPreserves ==
  ASSUME HeapInv, NEW n \in Requests, kmalloc(n)
  PROVE  HeapInv'
<1>1. CASE Fits(n) = {}
  <2>1. UNCHANGED <<size, free_list, asked>> /\ heapPanic' = "out of memory"
    BY <1>1 DEF kmalloc
  <2> QED BY <2>1 DEF HeapInv, HeapTypeOK, BlocksTile, CallersServed, Coalesced, Blocks, Held, End
<1>2. CASE Fits(n) # {}
  <2> DEFINE b == Lowest(Fits(n))
  <2>1. b \in free_list /\ b \in Blocks /\ Rounded(n) <= size[b]
    BY <1>2, FitIs
  <2>2. n \in Nat /\ Rounded(n) \in Nat /\ n <= Rounded(n)
    BY RoundedIs
  <2>3. /\ asked' = [c \in Held \cup {b} |-> IF c = b THEN n ELSE asked[c]]
        /\ heapPanic' = heapPanic
        /\ IF size[b] > Rounded(n) + HDR + ALIGN
            THEN Split(b, Rounded(n))
            ELSE free_list' = free_list \ {b} /\ UNCHANGED size
    BY <1>2 DEF kmalloc
  <2> HIDE DEF b
  <2>4. /\ free_list \cap Held = {} /\ Blocks = free_list \cup Held /\ 0 \in Blocks
        /\ asked \in [Held -> Requests] /\ size \in [Blocks -> Nat]
        /\ \A c \in Held : asked[c] <= size[c] /\ asked[c] \in Nat
    BY RoundedIs DEF HeapInv, HeapTypeOK, BlocksTile, CallersServed
  <2>5. Held' = Held \cup {b} /\ asked' \in [Held' -> Requests]
    BY <2>3, <2>4 DEF Held
  <2>6. CASE size[b] > Rounded(n) + HDR + ALIGN
    <3> DEFINE r == b + HDR + Rounded(n)
    <3>1. Split(b, Rounded(n))
      BY <2>3, <2>6
    <3>2. /\ r \notin Blocks /\ Blocks' = Blocks \cup {r}
          /\ size' \in [Blocks' -> Nat] /\ Blocks' \subseteq 0 .. POOL - 1
          /\ free_list' = (free_list \ {b}) \cup {r}
          /\ size'[b] = Rounded(n) /\ \A c \in Blocks \ {b} : size'[c] = size[c]
          /\ \A c \in Blocks' : End(c)' = POOL \/ End(c)' \in Blocks'
          /\ \A c, d \in Blocks' : c < d => End(c)' <= d
          /\ Coalesced'
      BY <2>1, <2>2, <2>6, <3>1, SplitTiles
    <3> HIDE DEF r
    <3>3. HeapTypeOK'
      BY <2>1, <2>3, <2>4, <2>5, <3>2 DEF HeapInv, HeapTypeOK
    <3>4. BlocksTile'
      BY <2>1, <2>4, <2>5, <3>2 DEF BlocksTile
    <3>5. CallersServed'
      <4>1. \A c \in Held' : asked'[c] <= size'[c]
        BY <2>1, <2>2, <2>3, <2>4, <2>5, <3>2
      <4> QED BY <2>3, <4>1 DEF HeapInv, CallersServed
    <3> QED BY <3>2, <3>3, <3>4, <3>5 DEF HeapInv
  <2>7. CASE ~(size[b] > Rounded(n) + HDR + ALIGN)
    <3>1. free_list' = free_list \ {b} /\ size' = size
      BY <2>3, <2>7
    <3>2. Blocks' = Blocks /\ \A c : End(c)' = End(c)
      BY <3>1 DEF Blocks, End
    <3>3. HeapTypeOK'
      BY <2>3, <2>5, <3>1, <3>2 DEF HeapInv, HeapTypeOK
    <3>4. BlocksTile'
      BY <2>1, <2>4, <2>5, <3>1, <3>2 DEF HeapInv, BlocksTile
    <3>5. CallersServed'
      <4>1. \A c \in Held' : asked'[c] <= size'[c]
        BY <2>1, <2>2, <2>3, <2>4, <2>5, <3>1
      <4> QED BY <2>3, <4>1 DEF HeapInv, CallersServed
    <3>6. Coalesced'
      BY <3>1, <3>2 DEF HeapInv, Coalesced
    <3> QED BY <3>3, <3>4, <3>5, <3>6 DEF HeapInv
  <2> QED BY <2>6, <2>7
<1> QED BY <1>1, <1>2

-------------------------------------------------------------------------------
(***************************************************************************)
(* kfree.                                                                  *)
(***************************************************************************)

\* What kfree joins: the blocks from first to the one that ends at end become
\* one block, and the blocks in between, all of them free or the one given
\* back, are gone.
LEMMA JoinTiles ==
  ASSUME HeapInv, NEW first \in Blocks, NEW end \in Nat,
         first < end, end = POOL \/ end \in Blocks,
         NEW gone, gone = {c \in Blocks : first < c /\ c < end},
         size' = [c \in Blocks \ gone |-> IF c = first THEN end - first - HDR ELSE size[c]],
         End(first) <= end
  PROVE  /\ Blocks' = Blocks \ gone /\ size' \in [Blocks' -> Nat]
         /\ Blocks' \subseteq 0 .. POOL - 1 /\ first \in Blocks'
         /\ \A c \in Blocks' : End(c)' = IF c = first THEN end ELSE End(c)
         /\ \A c \in Blocks' \ {first} : size'[c] = size[c]
         /\ \A c \in Blocks' : End(c)' = POOL \/ End(c)' \in Blocks'
         /\ \A c, d \in Blocks' : c < d => End(c)' <= d
<1>1. \A c \in Blocks : c \in Nat /\ c < POOL /\ size[c] \in Nat
                        /\ End(c) = c + HDR + size[c] /\ End(c) \in Nat /\ c < End(c)
  BY BlockIs
<1>2. end - first - HDR \in Nat
  BY <1>1, HeapConstants
<1>3. first \notin gone /\ Blocks' = Blocks \ gone
  BY <1>1 DEF Blocks
<1>4. size' \in [Blocks' -> Nat]
  BY <1>1, <1>2, <1>3
<1>5. Blocks' \subseteq 0 .. POOL - 1
  BY <1>3 DEF HeapInv, HeapTypeOK
<1>6. \A c \in Blocks' : size'[c] = IF c = first THEN end - first - HDR ELSE size[c]
  BY <1>3
<1>7. \A c \in Blocks' : End(c)' = IF c = first THEN end ELSE End(c)
  <2>1. ASSUME NEW c \in Blocks' PROVE End(c)' = IF c = first THEN end ELSE End(c)
    <3>1. End(c)' = c + HDR + size'[c]
      BY DEF End
    <3> QED BY <1>1, <1>3, <1>6, <3>1, HeapConstants
  <2> QED BY <2>1
<1>8. \A c, d \in Blocks : c < d => End(c) <= d
  BY DEF HeapInv, BlocksTile
<1>9. \A c \in Blocks : End(c) = POOL \/ End(c) \in Blocks
  BY DEF HeapInv, BlocksTile
<1>10. ASSUME NEW c \in Blocks' PROVE End(c)' = POOL \/ End(c)' \in Blocks'
  <2>1. CASE c = first
    <3>1. end \notin gone
      OBVIOUS
    <3> QED BY <1>3, <1>7, <2>1, <3>1
  <2>2. CASE c # first
    <3>1. End(c)' = End(c)
      BY <1>7, <2>2
    <3>2. CASE End(c) \in gone
      <4>1. first < End(c) /\ End(c) < end /\ End(c) \in Blocks
        BY <3>2
      <4>2. c < first \/ (first < c /\ c < end)
        BY <1>1, <1>3, <2>2, <4>1
      <4>3. ~(c < first)
        BY <1>1, <1>3, <1>8, <4>1
      <4> QED BY <1>3, <4>2, <4>3
    <3> QED BY <1>3, <1>9, <3>1, <3>2
  <2> QED BY <2>1, <2>2
<1>11. ASSUME NEW c \in Blocks', NEW d \in Blocks', c < d PROVE End(c)' <= d
  <2>1. CASE c = first
    <3>1. ~(d < end)
      BY <1>3, <1>11, <2>1
    <3> QED BY <1>1, <1>3, <1>7, <2>1, <3>1
  <2>2. CASE c # first
    BY <1>3, <1>7, <1>8, <1>11, <2>2
  <2> QED BY <2>1, <2>2
<1> QED BY <1>3, <1>4, <1>5, <1>6, <1>7, <1>10, <1>11

LEMMA FreePreserves ==
  ASSUME HeapInv, NEW b \in Held, kfree(b)
  PROVE  HeapInv'
<1>1. /\ free_list \cap Held = {} /\ Blocks = free_list \cup Held /\ 0 \in Blocks
      /\ asked \in [Held -> Requests] /\ free_list \subseteq Blocks /\ b \in Blocks
      /\ \A c \in Held : asked[c] <= size[c]
      /\ \A c \in Blocks : End(c) = POOL \/ End(c) \in Blocks
      /\ \A c, d \in Blocks : c < d => End(c) <= d
  BY DEF HeapInv, HeapTypeOK, BlocksTile, CallersServed
<1>2. /\ InsertAndMerge(b) /\ heapPanic' = heapPanic
      /\ asked' = [c \in Held \ {b} |-> asked[c]]
  BY <1>1 DEF kfree
<1>3. Before(b) = {c \in free_list : End(c) = b} /\ After(b) = {c \in free_list : c = End(b)}
  BY <1>1, BeforeIs, AfterIs
<1>4. \A c \in Blocks : c \in Nat /\ c < POOL /\ End(c) \in Nat /\ c < End(c)
  BY BlockIs
<1> DEFINE before == Before(b)
           after == After(b)
           first == IF before = {} THEN b ELSE Lowest(before)
           gone == after \cup (IF before = {} THEN {} ELSE {b})
           end == IF after = {} THEN End(b) ELSE End(Lowest(after))
<1>5. /\ size' = [c \in Blocks \ gone |-> IF c = first THEN end - first - HDR ELSE size[c]]
      /\ free_list' = (free_list \cup {first}) \ gone
  BY <1>2 DEF InsertAndMerge, Merge
<1>6. \/ before = {} /\ first = b
      \/ before # {} /\ first \in free_list /\ End(first) = b /\ first < b
  <2>1. before # {} => Lowest(before) \in before
    <3>1. before \subseteq Nat
      BY <1>1, <1>3, <1>4
    <3> QED BY <3>1, LowestExists
  <2> QED BY <1>1, <1>3, <1>4, <2>1
<1>7. \/ after = {} /\ end = End(b) /\ End(b) \notin free_list
      \/ after = {End(b)} /\ End(b) \in free_list /\ end = End(End(b))
  <2>1. after # {} => Lowest(after) \in after
    <3>1. after \subseteq Nat
      BY <1>1, <1>3, <1>4
    <3> QED BY <3>1, LowestExists
  <2> QED BY <1>3, <2>1
<1>8. first \in Blocks /\ first \in Nat /\ first <= b /\ end \in Nat
      /\ b < end /\ (end = POOL \/ end \in Blocks) /\ End(first) <= end /\ End(b) <= end
  BY <1>1, <1>4, <1>6, <1>7
<1>9. gone = {c \in Blocks : first < c /\ c < end}
  <2>1. ASSUME NEW c \in gone PROVE c \in Blocks /\ first < c /\ c < end
    BY <1>1, <1>4, <1>6, <1>7, <1>8, <2>1
  <2>2. ASSUME NEW c \in Blocks, first < c, c < end PROVE c \in gone
    <3>1. End(first) <= c
      BY <1>1, <1>8, <2>2
    <3>2. c = b \/ b < c
      BY <1>4, <1>6, <1>8, <2>2, <3>1
    <3>3. CASE c = b
      BY <1>4, <1>6, <2>2, <3>3
    <3>4. CASE b < c
      <4>1. End(b) <= c
        BY <1>1, <3>4
      <4>2. after = {End(b)} /\ End(b) \in free_list /\ end = End(End(b))
        BY <1>1, <1>4, <1>7, <2>2, <4>1
      <4>3. End(b) < c => End(End(b)) <= c
        BY <1>1, <4>2
      <4> QED BY <1>1, <1>4, <2>2, <4>1, <4>2, <4>3
    <3> QED BY <3>2, <3>3, <3>4
  <2> QED BY <2>1, <2>2
<1>10. first \notin gone /\ gone \subseteq free_list \cup {b} /\ b \in gone \cup {first}
  BY <1>1, <1>4, <1>6, <1>7, <1>8, <1>9
<1> HIDE DEF before, after, first, gone, end
<1>11. /\ Blocks' = Blocks \ gone /\ size' \in [Blocks' -> Nat]
       /\ Blocks' \subseteq 0 .. POOL - 1 /\ first \in Blocks'
       /\ \A c \in Blocks' : End(c)' = IF c = first THEN end ELSE End(c)
       /\ \A c \in Blocks' \ {first} : size'[c] = size[c]
       /\ \A c \in Blocks' : End(c)' = POOL \/ End(c)' \in Blocks'
       /\ \A c, d \in Blocks' : c < d => End(c)' <= d
  <2>1. first < end
    BY <1>1, <1>4, <1>8
  <2> QED BY <1>5, <1>8, <1>9, <2>1, JoinTiles
<1>12. Held' = Held \ {b} /\ asked' \in [Held' -> Requests]
  BY <1>1, <1>2 DEF Held
<1>13. /\ Held' \cap gone = {} /\ first \notin Held'
       /\ free_list' \cap Held' = {} /\ Blocks' = free_list' \cup Held' /\ 0 \in Blocks'
  <2>1. 0 \notin gone
    BY <1>1, <1>4, <1>8, <1>9
  <2>2. first = b \/ first \in free_list
    BY <1>6
  <2>3. Held' \cap gone = {} /\ first \notin Held'
    BY <1>1, <1>10, <1>12, <2>2
  <2>4. free_list' \cap Held' = {}
    BY <1>1, <1>5, <1>12, <2>3
  <2>5. Blocks' = free_list' \cup Held'
    <3>1. Blocks \ gone = (free_list \cup (Held \ {b}) \cup {first}) \ gone
      BY <1>1, <1>8, <1>10
    <3> QED BY <1>5, <1>11, <1>12, <2>3, <3>1
  <2> QED BY <1>1, <1>11, <2>1, <2>3, <2>4, <2>5
<1>14. HeapTypeOK'
  BY <1>2, <1>11, <1>12, <1>13 DEF HeapInv, HeapTypeOK
<1>15. BlocksTile'
  BY <1>11, <1>13 DEF BlocksTile
<1>16. CallersServed'
  <2>1. \A c \in Held' : asked'[c] = asked[c] /\ c \in Blocks' \ {first}
    BY <1>2, <1>12, <1>13
  <2>2. \A c \in Held' : asked'[c] <= size'[c]
    BY <1>1, <1>11, <1>12, <2>1
  <2> QED BY <1>2, <2>2 DEF HeapInv, CallersServed
<1>17. Coalesced'
  <2>1. \A c \in free_list : End(c) \notin free_list
    BY DEF HeapInv, Coalesced
  <2>2. end \notin free_list /\ end # first
    BY <1>4, <1>7, <1>8, <2>1
  <2>3. ASSUME NEW c \in free_list' PROVE End(c)' \notin free_list'
    <3>1. CASE c = first
      BY <1>5, <1>11, <2>2, <3>1
    <3>2. CASE c # first
      <4>1. c \in free_list /\ c \in Blocks' /\ End(c)' = End(c)
        BY <1>1, <1>5, <1>11, <3>2
      <4>2. End(c) # first
        <5>1. CASE before = {}
          <6>1. first = b /\ ~(End(c) = b)
            BY <1>3, <1>6, <4>1, <5>1 DEF before
          <6> QED BY <6>1
        <5>2. CASE before # {}
          <6>1. first \in free_list
            BY <1>6, <5>2
          <6> QED BY <2>1, <4>1, <6>1
        <5> QED BY <5>1, <5>2
      <4> QED BY <1>5, <2>1, <4>1, <4>2
    <3> QED BY <3>1, <3>2
  <2> QED BY <2>3 DEF Coalesced
<1> QED BY <1>14, <1>15, <1>16, <1>17 DEF HeapInv

-------------------------------------------------------------------------------
(***************************************************************************)
(* The theorems.                                                           *)
(***************************************************************************)
LEMMA HeapInvariant == HeapSpec => []HeapInv
<1>1. HeapInit => HeapInv
  <2> SUFFICES ASSUME HeapInit PROVE HeapInv
    OBVIOUS
  <2>1. Blocks = {0} /\ Held = {} /\ size[0] = POOL - HDR /\ free_list = {0}
    BY DEF HeapInit, Blocks, Held
  <2>2. POOL - HDR \in Nat /\ End(0) = POOL /\ 0 \in 0 .. POOL - 1 /\ POOL # 0
    BY <2>1, HeapConstants DEF End
  <2>3. HeapTypeOK
    BY <2>1, <2>2 DEF HeapInit, HeapTypeOK, Blocks, Held
  <2>4. BlocksTile
    BY <2>1, <2>2 DEF BlocksTile
  <2>5. CallersServed
    BY <2>1 DEF HeapInit, CallersServed
  <2>6. Coalesced
    BY <2>1, <2>2 DEF Coalesced
  <2> QED BY <2>3, <2>4, <2>5, <2>6 DEF HeapInv
<1>2. HeapInv /\ [HeapNext]_heapVars => HeapInv'
  <2> SUFFICES ASSUME HeapInv, [HeapNext]_heapVars PROVE HeapInv'
    OBVIOUS
  <2>1. CASE \E n \in Requests : kmalloc(n)
    BY <2>1, MallocPreserves
  <2>2. CASE \E b \in Held : kfree(b)
    BY <2>2, FreePreserves
  <2>3. CASE UNCHANGED heapVars
    BY <2>3 DEF heapVars, HeapInv, HeapTypeOK, BlocksTile, CallersServed, Coalesced, Blocks, Held, End
  <2> QED BY <2>1, <2>2, <2>3 DEF HeapNext
<1> QED BY <1>1, <1>2, PTL DEF HeapSpec

\* The blocks of the free list and those of the callers always tile the pool:
\* klib.c's kmalloc and kfree neither lose a byte nor give it away twice.
THEOREM BlocksAlwaysTile == HeapSpec => []BlocksTile
<1>1. HeapInv => BlocksTile
  BY DEF HeapInv
<1> QED BY <1>1, HeapInvariant, PTL

\* Every caller has the bytes it asked for, and kfree never panics on a caller
\* that frees what it was given once.
THEOREM CallersAlwaysServed == HeapSpec => []CallersServed
<1>1. HeapInv => CallersServed
  BY DEF HeapInv
<1> QED BY <1>1, HeapInvariant, PTL

\* kmalloc gives up ("Out of kernel memory!") only when no stretch of the pool
\* between the callers' blocks has room for a header and the request.
THEOREM RefusedOnlyWithoutRoom == HeapSpec => []NoRoomMeansNoRoom
<1>1. HeapInv => NoRoomMeansNoRoom
  <2> SUFFICES ASSUME HeapInv, NEW n \in Requests, Fits(n) = {},
                      NEW x \in 0 .. POOL - 1, Unheld(x, HDR + Rounded(n))
               PROVE  FALSE
    BY DEF NoRoomMeansNoRoom
  <2>1. /\ Blocks = free_list \cup Held /\ 0 \in Blocks
        /\ \A c \in Blocks : End(c) = POOL \/ End(c) \in Blocks
    BY DEF HeapInv, BlocksTile
  <2>2. \A c \in Blocks : c \in Nat /\ c < POOL /\ End(c) \in Nat /\ c < End(c)
                          /\ size[c] \in Nat /\ End(c) = c + HDR + size[c]
    BY BlockIs
  <2>3. Rounded(n) \in Nat /\ x \in Nat /\ x < POOL
    BY RoundedIs, HeapConstants
  <2> DEFINE below == {c \in Blocks : c <= x}
             b == Greatest(below)
  <2>4. below \subseteq 0 .. x /\ 0 \in below
    BY <2>1, <2>2, <2>3
  <2>5. b \in below /\ \A c \in below : c <= b
    BY <2>3, <2>4, GreatestExists
  <2> HIDE DEF b
  <2>6. b \in Blocks /\ b <= x /\ x < End(b)
    <3>1. End(b) \notin below
      BY <2>2, <2>5
    <3> QED BY <2>1, <2>2, <2>3, <2>5, <3>1
  <2>7. /\ x + (HDR + Rounded(n)) <= POOL
        /\ \A c \in Held : End(c) <= x \/ x + (HDR + Rounded(n)) <= c
    BY DEF Unheld
  <2>8. b \notin Held
    BY <2>2, <2>3, <2>6, <2>7, HeapConstants
  <2>9. b \in free_list /\ size[b] < Rounded(n)
    BY <2>1, <2>2, <2>3, <2>6, <2>8 DEF Fits
  <2>10. End(b) < x + (HDR + Rounded(n))
    BY <2>2, <2>3, <2>6, <2>9, HeapConstants
  <2>11. End(b) \in Held
    <3>1. End(b) \notin free_list
      BY <2>9 DEF HeapInv, Coalesced
    <3> QED BY <2>1, <2>2, <2>3, <2>6, <2>7, <2>10, <3>1, HeapConstants
  <2> QED BY <2>1, <2>2, <2>3, <2>6, <2>7, <2>10, <2>11, HeapConstants
<1> QED BY <1>1, HeapInvariant, PTL

\* When every caller has freed what it held, the pool is one free block again,
\* as mem_init left it, whatever the order of the calls was.
THEOREM AllFreedIsAsInitialised ==
  HeapSpec => [](Held = {} => free_list = {0} /\ size = [b \in {0} |-> POOL - HDR])
<1>1. HeapInv => (Held = {} => free_list = {0} /\ size = [b \in {0} |-> POOL - HDR])
  <2> SUFFICES ASSUME HeapInv, Held = {}
               PROVE  free_list = {0} /\ size = [b \in {0} |-> POOL - HDR]
    OBVIOUS
  <2>1. /\ Blocks = free_list /\ 0 \in Blocks /\ size \in [Blocks -> Nat]
        /\ \A c \in Blocks : End(c) = POOL \/ End(c) \in Blocks
        /\ \A c, d \in Blocks : c < d => End(c) <= d
    BY DEF HeapInv, HeapTypeOK, BlocksTile
  <2>2. \A c \in Blocks : c \in Nat /\ c < POOL /\ End(c) = c + HDR + size[c]
    BY BlockIs
  <2>3. End(0) = POOL
    BY <2>1 DEF HeapInv, Coalesced
  <2>4. \A c \in Blocks : c = 0
    <3>1. \A c \in Blocks : 0 < c => POOL <= c
      BY <2>1, <2>3
    <3> QED BY <2>2, <3>1, HeapConstants
  <2>5. Blocks = {0} /\ size[0] = POOL - HDR
    BY <2>1, <2>2, <2>3, <2>4, HeapConstants
  <2> QED BY <2>1, <2>5
<1> QED BY <1>1, HeapInvariant, PTL
=============================================================================
