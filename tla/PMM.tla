-------------------------------- MODULE PMM --------------------------------
(***************************************************************************)
(* The physical memory manager: one bitmap over the pages from 1 MB to the *)
(* end of the last usable region of the e820 map, a next-fit search over   *)
(* it, and the pages reserved for the kernel and for the bitmap itself.    *)
(*                                                                         *)
(* Addresses are counted in units, PAGE units to a page, so that a region  *)
(* of the map may start or end inside a page.  Every operation holds       *)
(* pmm_zone.lock from its first read to its last write and no interrupt    *)
(* handler calls one, so each is one action.                               *)
(***************************************************************************)
EXTENDS Integers, FiniteSets

CONSTANTS PAGE,               \* units in a page
          BASE,               \* pmm_zone.base, 1 MB
          WORD,               \* units of the address space; uintptr_t wraps
          KernelStart,        \* _kernel_start and _kernel_end of linker.ld
          KernelEnd,
          PagesPerUnit,       \* pages that one unit of the bitmap describes
          IDENTITY_LIMIT,     \* end of the memory mapped at boot, 16 MB
          MemoryMaps,         \* the e820 maps the machine may report
          Sizes               \* numbers of pages callers ask for

Region == [base : Nat, end : Nat, usable : BOOLEAN]

ASSUME PMMAssumption ==
    /\ PAGE \in Nat \ {0} /\ PagesPerUnit \in Nat \ {0}
    /\ BASE \in Nat /\ KernelStart \in Nat /\ KernelEnd \in Nat
    /\ BASE % PAGE = 0
    /\ IDENTITY_LIMIT \in Nat
    /\ WORD \in Nat /\ IDENTITY_LIMIT + PAGE <= WORD
    /\ \A m \in MemoryMaps : \A e \in m : e \in Region
    /\ Sizes \subseteq Nat \ {0}

VARIABLES map,       \* the entries of the e820 map
          pages,     \* pmm_zone.pages
          free,      \* the pages whose bit is 0
          lastFree,  \* pmm_zone.last_free
          holders,   \* how many owners each page was handed to and not freed by
          panicked   \* pmm_free has called panic

vars == <<map, pages, free, lastFree, holders, panicked>>

NONE == -1
Managed == 0 .. pages - 1
Run(first, n) == first .. first + n - 1

-----------------------------------------------------------------------------
AlignDown(a) == (a \div PAGE) * PAGE
AlignUp(a) == AlignDown(a + PAGE - 1)

\* The number of the page at address a: the subtraction is of unsigned words.
PageOf(a) == ((a - BASE) % WORD) \div PAGE

Usable(m) == {e \in m : e.usable /\ e.end > e.base}

\* The pages pmm_init frees of one region: the region is clipped to 1 MB, and
\* both ends are rounded down.
PagesOfRegion(e, total) ==
    {p \in 0 .. total - 1 :
        /\ e.end > BASE
        /\ p >= (IF e.base < BASE THEN 0 ELSE (e.base - BASE) \div PAGE)
        /\ p < (e.end - BASE) \div PAGE}

FreedByMap(m, total) == UNION {PagesOfRegion(e, total) : e \in Usable(m)}

\* Mutant: the end is rounded down like the start.
ReservedRoundedDown(base, end, total) ==
    {p \in 0 .. total - 1 : /\ PageOf(AlignDown(base)) <= p
                            /\ p < PageOf(AlignDown(end))}

\* The pages pmm_reserve_region takes: none if the region starts outside.
ReservedPages(base, end, total) ==
    {p \in 0 .. total - 1 :
        /\ AlignDown(base) < AlignUp(end)
        /\ PageOf(AlignDown(base)) < total
        /\ p >= PageOf(AlignDown(base))
        /\ p < PageOf(AlignUp(end))}

BitmapStart == AlignUp(KernelEnd)
BitmapEnd(total) ==
    BitmapStart + (total + PagesPerUnit - 1) \div PagesPerUnit

BitmapPages(total) == ReservedPages(BitmapStart, BitmapEnd(total), total)

\* What is free when pmm_init returns.
InitiallyFree(m, total) ==
    (FreedByMap(m, total) \ ReservedPages(KernelStart, KernelEnd, total))
        \ BitmapPages(total)

\* pmm_init.  Where it panics there is no initial state.
Init ==
    /\ map \in MemoryMaps
    /\ \E last \in Usable(map) :
          /\ \A e \in Usable(map) : e.end <= last.end
          /\ last.end > BASE
          /\ pages = (last.end - BASE) \div PAGE
    /\ pages > 0
    /\ BitmapEnd(pages) <= IDENTITY_LIMIT
    /\ BitmapStart >= BASE
    /\ free = InitiallyFree(map, pages)
    /\ lastFree = 0
    /\ holders = [p \in Managed |-> 0]
    /\ panicked = FALSE

-----------------------------------------------------------------------------
\* Mutant: only the first and the last page of a run are looked at.
FreeRunEnds(lo, hi, n) == {s \in lo .. hi - n : {s, s + n - 1} \subseteq free}

\* The runs of n free pages that lie in lo .. hi - 1, by their first page.
FreeRuns(lo, hi, n) == {s \in lo .. hi - n : Run(s, n) \subseteq free}

Least(S) == CHOOSE s \in S : \A t \in S : s <= t

\* Bugs: no second pass below last_free; a first fit instead of a next fit.
FindFreeOnePass(n) ==
    IF FreeRuns(lastFree, pages, n) # {} THEN Least(FreeRuns(lastFree, pages, n)) ELSE NONE
FindFirstFit(n) ==
    IF FreeRuns(0, pages, n) # {} THEN Least(FreeRuns(0, pages, n)) ELSE NONE

\* pmm_find_free_sequence: first from last_free on, then below it.
FindFree(n) ==
    IF FreeRuns(lastFree, pages, n) # {} THEN Least(FreeRuns(lastFree, pages, n))
    ELSE IF FreeRuns(0, lastFree, n) # {} THEN Least(FreeRuns(0, lastFree, n))
    ELSE NONE

\* A successful pmm_alloc (pmm_alloc_zero also clears the pages).
pmm_alloc(n) ==
    /\ FindFree(n) # NONE
    /\ free' = free \ Run(FindFree(n), n)
    /\ lastFree' = FindFree(n)
    /\ holders' = [p \in Managed |->
                     IF p \in Run(FindFree(n), n) THEN holders[p] + 1 ELSE holders[p]]
    /\ UNCHANGED <<map, pages, panicked>>

\* pmm_alloc with no run long enough returns NULL and changes nothing.
AllocFails(n) == FindFree(n) = NONE /\ UNCHANGED vars

\* pmm_free of n pages from page first, by an owner of those pages; owners
\* give back part of a run, too.
pmm_free(first, n) ==
    /\ Run(first, n) \subseteq Managed
    /\ \A p \in Run(first, n) : holders[p] > 0
    /\ IF Run(first, n) \cap free # {}
       THEN panicked' = TRUE /\ UNCHANGED <<map, pages, free, lastFree, holders>>
       ELSE /\ free' = free \cup Run(first, n)
            /\ lastFree' = IF first < lastFree THEN first ELSE lastFree
            /\ holders' = [p \in Managed |->
                  IF p \in Run(first, n) THEN holders[p] - 1 ELSE holders[p]]
            /\ UNCHANGED <<map, pages, panicked>>

Next ==
    /\ ~panicked
    /\ \E n \in Sizes : \/ pmm_alloc(n)
                        \/ AllocFails(n)
                        \/ \E first \in Managed : pmm_free(first, n)

Spec == Init /\ [][Next]_vars

-----------------------------------------------------------------------------
\* Every variable keeps its type; the search starts inside the bitmap.
TypeOK ==
    /\ pages \in Nat \ {0}
    /\ free \subseteq Managed
    /\ lastFree \in Managed
    /\ holders \in [Managed -> Nat]
    /\ panicked \in BOOLEAN

\* A page of RAM is either free or has exactly one owner, and no other page
\* has any: no page is handed out twice, and none is lost, whatever runs are
\* taken and in whatever pieces they come back (pmm_alloc, pmm_free).
OneOwner ==
    \A p \in Managed :
        holders[p] + (IF p \in free THEN 1 ELSE 0)
            = IF p \in InitiallyFree(map, pages) THEN 1 ELSE 0

\* A caller that frees what it was given never meets the double-free panic.
NeverPanics == ~panicked

\* A request for one page fails only if no page is free, wherever the next-fit
\* search starts (pmm_find_free_sequence).
OnePageFound == free # {} => FindFree(1) # NONE

\* No page that holds a part of the bitmap is ever handed out: its owner would
\* overwrite the record of what is free (pmm_reserve_region, pmm_alloc).
BitmapKept ==
    \A p \in Managed :
        BASE + p * PAGE < BitmapEnd(pages) /\ BitmapStart < BASE + (p + 1) * PAGE
            => p \notin free /\ holders[p] = 0

\* The two loops of pmm_find_free_sequence as they count: `consecutive' after
\* the first k pages from lo on, and what a loop over lo .. hi - 1 returns, or
\* NONE when it runs to its end.
Consecutive(lo, hi) ==
    LET c[k \in 0 .. hi - lo] == IF k > 0 /\ lo + k - 1 \in free THEN c[k - 1] + 1 ELSE 0
    IN  c
Loop(lo, hi, n) ==
    LET hits == {k \in 1 .. hi - lo : Consecutive(lo, hi)[k] = n}
    IN  IF hits = {} THEN NONE ELSE lo + Least(hits) - n

\* The first window of free pages, which FindFree looks for, is what they find.
LoopsAgree ==
    \A n \in Sizes :
        FindFree(n) = IF Loop(lastFree, pages, n) # NONE THEN Loop(lastFree, pages, n)
                      ELSE Loop(0, lastFree, n)
=============================================================================
