-------------------------------- MODULE VMM --------------------------------
(***************************************************************************)
(* The virtual memory manager: page tables of LEVELS levels in frames of   *)
(* the physical memory manager, address spaces (contexts) that share the   *)
(* kernel's half, allocation of mapped pages with rollback, the vmalloc    *)
(* list, and demand paging.                                                *)
(*                                                                         *)
(* Every function runs to its end on the kernel's one thread, under the    *)
(* lock of its context, and no interrupt handler but the page fault calls  *)
(* one: each is one action.  An address is a page number, a context is     *)
(* named by the frame of its top table.  Left out: the tables of the       *)
(* identity and direct maps, which vmm_init builds and nothing changes     *)
(* later (Direct says what the second one covers), the TLB, statistics.    *)
(***************************************************************************)
EXTENDS Integers, FiniteSets, FiniteSetsExt

CONSTANTS
  FRAMES,          \* pages pmm_init manages
  BASE_PAGES,      \* pages below the first one managed (1 MB)
  LEVELS,          \* levels of tables: PML4, PDPT, PD, PT
  ENTRIES,         \* entries of a table, the upper half of the top one kernel's
  LOW_END,         \* end of the low pages demand paging serves (256 MB)
  USER_BASE,       \* VMM_USER_BASE
  USER_TOP,        \* VMM_USER_STACK_TOP
  HEAP_BASE,       \* VMM_KERNEL_HEAP_BASE
  HEAP_END,        \* VMM_KERNEL_HEAP_BASE + VMM_KERNEL_HEAP_SIZE
  Sizes,           \* numbers of pages callers ask for
  MaxContexts,     \* bound: contexts alive at a time
  MaxHeld,         \* bound: frames a caller of vmm_map_page holds
  PmmChoice(_, _)  \* PmmChoice(S, n): the first frame of the run of n frames
                   \* pmm_alloc takes when S is free

Frame == 1 .. FRAMES
Index == 0 .. ENTRIES - 1
Upper == ENTRIES \div 2 .. ENTRIES - 1

\* Pages below an entry of a table j levels above the last; page v is below
\* entry Digit(v, k) of the k-th table of its walk.
span[j \in 0 .. LEVELS] == IF j = 0 THEN 1 ELSE ENTRIES * span[j - 1]
Digit(v, k) == (v \div span[LEVELS - k]) % ENTRIES
Page == 0 .. span[LEVELS] - 1

HeapPages == HEAP_BASE .. HEAP_END - 1
UserPages == USER_BASE .. USER_TOP - 1
LowPages == 0 .. LOW_END - 1

Run(first, n) == first .. first + n - 1
RunsIn(S, n) == {f \in Frame : Run(f, n) \subseteq S}

ASSUME VMMAssumption ==
  /\ {FRAMES, LEVELS, ENTRIES} \subseteq Nat \ {0} /\ LEVELS > 1 /\ BASE_PAGES \in Nat
  /\ {LOW_END, USER_BASE, USER_TOP, HEAP_BASE, HEAP_END} \subseteq Nat /\ HEAP_BASE <= HEAP_END
  /\ HeapPages \cup UserPages \cup LowPages \subseteq Page
  /\ \A v \in HeapPages : Digit(v, 1) = Digit(HEAP_BASE, 1) /\ Digit(v, 1) \in Upper
  /\ \A v \in UserPages : Digit(v, 1) \notin Upper
  /\ Sizes \subseteq Nat \ {0}
  /\ \A S \in SUBSET Frame, n \in Sizes \cup {1} :
       RunsIn(S, n) # {} => PmmChoice(S, n) \in RunsIn(S, n)

VARIABLES
  mem,        \* [free: the frames PMM has, tab: what each table holds,
              \*  panic: why the kernel has stopped]
  contexts,   \* the contexts that exist, the kernel's among them
  current,    \* current_context
  heapNext,   \* kernel_heap_current
  vmallocs,   \* vmalloc_list
  blocks,     \* what callers of vmm_alloc_pages and vmm_reserve_region own
  held,       \* frames a caller took from pmm_alloc itself, to map them
  faulted,    \* history: pages of the kernel context demand paging has mapped
  complete    \* history: contexts created when the heap had its top entry

vars == <<mem, contexts, current, heapNext, vmallocs, blocks, held, faulted, complete>>

KERNEL == 1   \* kernel_context: PMM's first frame holds its top table
NULL == -1

Entry == [frame : {0} \cup Frame, flags : {"none", "kernel", "user"}]
NoEntry == [frame |-> 0, flags |-> "none"]
Pte(f, flags) == [frame |-> f, flags |-> flags]
EmptyTable == [i \in Index |-> NoEntry]

\* vmm_init maps the physical pages 0 .. FRAMES - 1; those PMM manages begin
\* at BASE_PAGES.
Direct == {f \in Frame : BASE_PAGES + f - 1 < FRAMES}
-------------------------------------------------------------------------------
(***************************************************************************)
(* PMM, as module PMM has it: pmm_free panics on a frame that is free.     *)
(***************************************************************************)
Taken(m, S) == [m EXCEPT !.free = @ \ S]
Freed(m, S) == [m EXCEPT !.free = @ \cup S,
                         !.panic = IF S \cap m.free = {} THEN @ ELSE "double free"]

\* vmm_alloc_page_table clears the frame it took through the direct map.
NewTable(m, f) ==
  [Taken(m, {f}) EXCEPT !.tab[f] = EmptyTable,
                        !.panic = IF f \in Direct THEN @ ELSE "unmapped table"]

(***************************************************************************)
(* The walk goes LEVELS - 1 steps from the top table to the last one.      *)
(***************************************************************************)
Last == LEVELS - 1

\* vmm_get_or_create_table: the last table of the walk to page v.  Tables it
\* has added stay when a later one cannot be had.
AddTable(w, i, new) ==
  [ok |-> TRUE, table |-> new,
   mem |-> [NewTable(w.mem, new) EXCEPT !.tab[w.table][i] = Pte(new, "kernel")]]
Descend(w, i) ==
  LET here == w.mem.tab[w.table][i].frame
  IN  IF ~w.ok THEN w
      ELSE IF here # 0 THEN [w EXCEPT !.table = here]
      ELSE IF w.mem.free = {} THEN [w EXCEPT !.ok = FALSE]
      ELSE AddTable(w, i, PmmChoice(w.mem.free, 1))
GetOrCreate(m, c, v) ==
  LET w[k \in 0 .. Last] ==
        IF k = 0 THEN [mem |-> m, table |-> c, ok |-> TRUE] ELSE Descend(w[k - 1], Digit(v, k))
  IN  w[Last]

\* vmm_get_pte: the tables of the walk without creating any, 0 from where there
\* is none, and the entry of page v in the last.
Below(m, t, i) == IF t = 0 THEN 0 ELSE m.tab[t][i].frame
Walk(m, c, v) ==
  LET t[k \in 0 .. Last] == IF k = 0 THEN c ELSE Below(m, t[k - 1], Digit(v, k)) IN t
TableOf(m, c, v) == Walk(m, c, v)[Last]
PteIn(m, t, v) == IF t = 0 THEN NoEntry ELSE m.tab[t][Digit(v, LEVELS)]
GetPte(m, c, v) == PteIn(m, TableOf(m, c, v), v)
IsMapped(m, c, v) == GetPte(m, c, v) # NoEntry

(***************************************************************************)
(* vmm_map_page and vmm_unmap_page; mapping a page again to the same frame *)
(* with the same flags succeeds.                                           *)
(***************************************************************************)
SetPte(m, t, v, pte) == [m EXCEPT !.tab[t][Digit(v, LEVELS)] = pte]

\* Mutant: without the test for an entry that is present.
SetNewPteBlindly(w, v, pte) ==
  [mem |-> IF w.ok THEN SetPte(w.mem, w.table, v, pte) ELSE w.mem, ok |-> w.ok]

SetNewPte(w, v, pte) ==
  LET old == PteIn(w.mem, w.table, v)
  IN  IF w.ok /\ old = NoEntry
      THEN [mem |-> SetPte(w.mem, w.table, v, pte), ok |-> TRUE]
      ELSE [mem |-> w.mem, ok |-> w.ok /\ old = pte]
MapPage(m, c, v, pte) == SetNewPte(GetOrCreate(m, c, v), v, pte)

UnmapPage(m, c, v) == IF IsMapped(m, c, v) THEN SetPte(m, TableOf(m, c, v), v, NoEntry) ELSE m

UnmapPages(m, c, base, n) ==
  LET u[k \in 0 .. n] == IF k = 0 THEN m ELSE UnmapPage(u[k - 1], c, base + k - 1) IN u[n]

\* Mutant: the rollback stops one page early.
RollBackShort(r, c, base) ==
  IF r.ok \/ r.done = 0 THEN r ELSE [r EXCEPT !.mem = UnmapPages(@, c, base, r.done - 1)]

\* When a page of a run cannot be mapped, those before it are unmapped.
RollBack(r, c, base) ==
  IF r.ok THEN r ELSE [r EXCEPT !.mem = UnmapPages(@, c, base, r.done)]

\* The loop of vmm_map_pages and vmm_alloc_pages: n pages from page base on, to
\* the frames from first on.
MapNext(a, c, base, first, flags) ==
  LET one == MapPage(a.mem, c, base + a.done, Pte(first + a.done, flags))
  IN  IF a.ok THEN [mem |-> one.mem, ok |-> one.ok, done |-> a.done + (IF one.ok THEN 1 ELSE 0)]
      ELSE a
MapRun(m, c, base, first, n, flags) ==
  LET a[k \in 0 .. n] == IF k = 0 THEN [mem |-> m, ok |-> TRUE, done |-> 0]
                         ELSE MapNext(a[k - 1], c, base, first, flags)
  IN  RollBack(a[n], c, base)

\* Mutant: a failed mapping keeps the frames.
KeepOnFailure(r, frames) == r

\* A run of frames is taken and mapped at base, or given back.
GiveBack(r, frames) == IF r.ok THEN r ELSE [r EXCEPT !.mem = Freed(@, frames)]
AllocRun(m, c, base, first, n, flags) ==
  GiveBack(MapRun(Taken(m, Run(first, n)), c, base, first, n, flags), Run(first, n))
AllocAt(m, c, base, n, flags) == AllocRun(m, c, base, PmmChoice(m.free, n), n, flags)

\* vmm_find_free_region over the user pages, NULL when there is none.
FreeRegions(m, c, n) ==
  {v \in UserPages : v + n <= USER_TOP /\ \A u \in Run(v, n) : ~IsMapped(m, c, u)}
FindFreeRegion(m, c, n) == IF FreeRegions(m, c, n) = {} THEN NULL ELSE Min(FreeRegions(m, c, n))

\* vmm_alloc_pages: the page it returns, or NULL.  Addresses of the kernel heap
\* are spent even if the mapping then fails.
BaseFor(m, c, n, flags) ==
  IF RunsIn(m.free, n) = {} THEN NULL
  ELSE IF flags = "user" THEN FindFreeRegion(m, c, n)
  ELSE IF heapNext + n <= HEAP_END THEN heapNext ELSE NULL
Allocated(m, base, r) == [mem |-> r.mem, base |-> IF r.ok THEN base ELSE NULL]
AllocFrom(m, c, base, n, flags) ==
  IF base = NULL THEN [mem |-> m, base |-> NULL]
  ELSE Allocated(m, base, AllocAt(m, c, base, n, flags))
AllocPages(m, c, n, flags) == AllocFrom(m, c, BaseFor(m, c, n, flags), n, flags)
HeapSpent(c, n) == IF BaseFor(mem, c, n, "kernel") = NULL THEN 0 ELSE n

\* vmm_free_pages: the frames are looked up before the pages are unmapped.
FreePages(m, c, base, n) ==
  Freed(UnmapPages(m, c, base, n), {GetPte(m, c, v).frame : v \in Run(base, n)} \ {0})

-------------------------------------------------------------------------------
(***************************************************************************)
(* Contexts.                                                               *)
(***************************************************************************)
Halt(m, why) == [m EXCEPT !.panic = why]
HeapEntry(m, c) == m.tab[c][Digit(HEAP_BASE, 1)].frame

Init ==
  /\ mem = [free |-> Frame \ {KERNEL}, tab |-> [f \in Frame |-> EmptyTable], panic |-> "no"]
  /\ contexts = {KERNEL} /\ current = KERNEL
  /\ heapNext = HEAP_BASE
  /\ vmallocs = {} /\ blocks = {} /\ held = {} /\ faulted = {} /\ complete = {}

\* Mutant: the copy of the kernel's entries starts one entry late.
CreateContextCopiesLate ==
  /\ Cardinality(contexts) < MaxContexts /\ mem.free # {}
  /\ LET c == PmmChoice(mem.free, 1)
         copied == [i \in Index |->
                      IF i \in Upper /\ i # Min(Upper) THEN mem.tab[KERNEL][i] ELSE NoEntry]
     IN  /\ mem' = [NewTable(mem, c) EXCEPT !.tab[c] = copied]
         /\ contexts' = contexts \cup {c}
         /\ complete' = IF HeapEntry(mem, KERNEL) # 0 THEN complete \cup {c} ELSE complete
  /\ UNCHANGED <<current, heapNext, vmallocs, blocks, held, faulted>>

\* The kernel's entries are copied once, as they are now.
vmm_create_context ==
  /\ Cardinality(contexts) < MaxContexts /\ mem.free # {}
  /\ LET c == PmmChoice(mem.free, 1)
         copied == [i \in Index |-> IF i \in Upper THEN mem.tab[KERNEL][i] ELSE NoEntry]
     IN  /\ mem' = [NewTable(mem, c) EXCEPT !.tab[c] = copied]
         /\ contexts' = contexts \cup {c}
         /\ complete' = IF HeapEntry(mem, KERNEL) # 0 THEN complete \cup {c} ELSE complete
  /\ UNCHANGED <<current, heapNext, vmallocs, blocks, held, faulted>>

\* The tables of the lower half are handed to pmm_free by the address the kernel
\* reaches them at, which is no frame: it panics at the first.
vmm_destroy_context(c) ==
  /\ c \in contexts \ {KERNEL, current}
  /\ IF \E i \in Index \ Upper : mem.tab[c][i].frame # 0
     THEN mem' = Halt(mem, "invalid free") /\ UNCHANGED <<contexts, complete>>
     ELSE /\ mem' = [Freed(mem, {c}) EXCEPT !.tab[c] = EmptyTable]
          /\ contexts' = contexts \ {c} /\ complete' = complete \ {c}
  /\ UNCHANGED <<current, heapNext, vmallocs, blocks, held, faulted>>

\* Environment: a context runs only if the heap had its entry in the top table
\* when the context copied it.
vmm_switch_context(c) ==
  /\ c \in complete \cup {KERNEL}
  /\ current' = c
  /\ UNCHANGED <<mem, contexts, heapNext, vmallocs, blocks, held, faulted, complete>>

-------------------------------------------------------------------------------
(***************************************************************************)
(* Mapping frames of one's own in a context of one's own, as               *)
(* vmm_test_basic does: pmm_alloc, vmm_map_page, vmm_unmap_page, pmm_free. *)
(***************************************************************************)
Mapped(f) == \E c \in contexts, v \in UserPages : GetPte(mem, c, v).frame = f

TakeFrame ==
  /\ mem.free # {} /\ Cardinality(held) < MaxHeld
  /\ mem' = Taken(mem, {PmmChoice(mem.free, 1)})
  /\ held' = held \cup {PmmChoice(mem.free, 1)}
  /\ UNCHANGED <<contexts, current, heapNext, vmallocs, blocks, faulted, complete>>

GiveFrame(f) ==
  /\ f \in held /\ ~Mapped(f)
  /\ mem' = Freed(mem, {f}) /\ held' = held \ {f}
  /\ UNCHANGED <<contexts, current, heapNext, vmallocs, blocks, faulted, complete>>

vmm_map_page(c, v, f) ==
  /\ c \in contexts \ {KERNEL} /\ f \in held
  /\ (Mapped(f) => GetPte(mem, c, v).frame = f)
  /\ mem' = MapPage(mem, c, v, Pte(f, "kernel")).mem
  /\ UNCHANGED <<contexts, current, heapNext, vmallocs, blocks, held, faulted, complete>>

vmm_unmap_page(c, v) ==
  /\ c \in contexts /\ GetPte(mem, c, v).frame \in held
  /\ mem' = UnmapPage(mem, c, v)
  /\ UNCHANGED <<contexts, current, heapNext, vmallocs, blocks, held, faulted, complete>>

-------------------------------------------------------------------------------
(***************************************************************************)
(* Mapped memory.  Environment: pages of the kernel are asked for in the   *)
(* kernel context (storage deck, task stacks), pages of the user in others.*)
(***************************************************************************)
Block(c, base, n) == IF base = NULL THEN {} ELSE {[ctx |-> c, base |-> base, n |-> n]}

vmm_alloc_pages(c, n) ==
  /\ c \in contexts
  /\ \E r \in {AllocPages(mem, c, n, IF c = KERNEL THEN "kernel" ELSE "user")} :
       mem' = r.mem /\ blocks' = blocks \cup Block(c, r.base, n)
  /\ heapNext' = IF c = KERNEL THEN heapNext + HeapSpent(c, n) ELSE heapNext
  /\ UNCHANGED <<contexts, current, vmallocs, held, faulted, complete>>

vmm_reserve_region(c, v, n) ==
  /\ c \in contexts \ {KERNEL} /\ Run(v, n) \subseteq UserPages /\ RunsIn(mem.free, n) # {}
  /\ \E r \in {AllocAt(mem, c, v, n, "kernel")} :
       mem' = r.mem /\ blocks' = blocks \cup Block(c, IF r.ok THEN v ELSE NULL, n)
  /\ UNCHANGED <<contexts, current, heapNext, vmallocs, held, faulted, complete>>

vmm_free_pages(b) ==
  /\ b \in blocks /\ b.ctx \in contexts
  /\ mem' = FreePages(mem, b.ctx, b.base, b.n)
  /\ blocks' = blocks \ {b}
  /\ UNCHANGED <<contexts, current, heapNext, vmallocs, held, faulted, complete>>

\* The flags of the pages from v on, up to the first that is not mapped.
Reflag(p, c, v, flags) ==
  IF p.ok /\ IsMapped(p.mem, c, v)
  THEN [p EXCEPT !.mem = SetPte(@, TableOf(@, c, v), v, Pte(GetPte(@, c, v).frame, flags))]
  ELSE [p EXCEPT !.ok = FALSE]
vmm_protect(b, v, n, flags) ==
  LET p[k \in 0 .. n] == IF k = 0 THEN [mem |-> mem, ok |-> TRUE]
                         ELSE Reflag(p[k - 1], b.ctx, v + k - 1, flags)
  IN  /\ b \in blocks /\ b.ctx \in contexts /\ v \in Run(b.base, b.n)
      /\ mem' = p[n].mem
      /\ UNCHANGED <<contexts, current, heapNext, vmallocs, blocks, held, faulted, complete>>

vmalloc(n) ==
  /\ \E r \in {AllocPages(mem, current, n, "kernel")} :
       /\ mem' = r.mem
       /\ vmallocs' = vmallocs \cup
            (IF r.base = NULL THEN {} ELSE {[base |-> r.base, n |-> n]})
  /\ heapNext' = heapNext + HeapSpent(current, n)
  /\ UNCHANGED <<contexts, current, blocks, held, faulted, complete>>

\* A page that is not the first of an entry of the list is freed alone.
\* Environment: no caller names a page inside what another one owns, but one may
\* free the same address twice.
Owned == UNION {Run(r.base, r.n) : r \in vmallocs \cup {b \in blocks : b.ctx = KERNEL}}

vfree(v) ==
  LET found == {r \in vmallocs : r.base = v}
      n == IF found = {} THEN 1 ELSE (CHOOSE r \in found : TRUE).n
  IN  /\ found # {} \/ v \notin Owned
      /\ mem' = FreePages(mem, current, v, n)
      /\ vmallocs' = vmallocs \ found
      /\ faulted' = faulted \ Run(v, n)
      /\ UNCHANGED <<contexts, current, heapNext, blocks, held, complete>>

-------------------------------------------------------------------------------
(***************************************************************************)
(* vmm_handle_page_fault for a page that is not present, with the panic of *)
(* exception_handler when it returns -1.                                   *)
(***************************************************************************)
page_fault(v) ==
  /\ ~IsMapped(mem, current, v)
  /\ IF v \in HeapPages \cup LowPages /\ mem.free # {}
     THEN \E r \in {AllocAt(mem, KERNEL, v, 1, "kernel")} :
            /\ mem' = IF r.ok THEN r.mem ELSE Halt(r.mem, "page fault")
            /\ faulted' = IF r.ok THEN faulted \cup {v} ELSE faulted
     ELSE mem' = Halt(mem, "page fault") /\ UNCHANGED faulted
  /\ UNCHANGED <<contexts, current, heapNext, vmallocs, blocks, held, complete>>

Next ==
  /\ mem.panic = "no"
  /\ \/ vmm_create_context
     \/ \E c \in contexts : vmm_destroy_context(c) \/ vmm_switch_context(c)
     \/ TakeFrame
     \/ \E f \in held : GiveFrame(f)
     \/ \E c \in contexts, v \in UserPages, f \in held : vmm_map_page(c, v, f)
     \/ \E c \in contexts, v \in UserPages : vmm_unmap_page(c, v)
     \/ \E c \in contexts, n \in Sizes : vmm_alloc_pages(c, n)
     \/ \E c \in contexts, v \in UserPages, n \in Sizes : vmm_reserve_region(c, v, n)
     \/ \E b \in blocks : vmm_free_pages(b)
     \/ \E b \in blocks, n \in Sizes : vmm_protect(b, b.base, n, "user")
     \/ \E n \in Sizes : vmalloc(n)
     \/ \E v \in HeapPages : vfree(v)
     \/ \E v \in HeapPages \cup LowPages : page_fault(v)   \* elsewhere it halts

Spec == Init /\ [][Next]_vars

-------------------------------------------------------------------------------
(***************************************************************************)
(* Properties, of the states in which the kernel runs.                     *)
(***************************************************************************)
Running == mem.panic = "no"

\* Every variable has its type.
TypeOK ==
  /\ mem \in [free : SUBSET Frame, tab : [Frame -> [Index -> Entry]],
              panic : {"no", "double free", "invalid free", "unmapped table", "page fault"}]
  /\ contexts \subseteq Frame /\ current \in contexts /\ complete \subseteq contexts
  /\ heapNext \in HEAP_BASE .. HEAP_END
  /\ vmallocs \subseteq [base : HeapPages, n : Sizes]
  /\ blocks \subseteq [ctx : Frame, base : Page, n : Sizes]
  /\ held \subseteq Frame /\ faulted \subseteq Page

\* The tables k steps below the top ones of C, and the entries that own what
\* they point to: all but the copies of the kernel's.
Under(m, S) == {m.tab[f][i].frame : f \in S, i \in Index} \ {0}
TablesOf(m, C) ==
  LET T[k \in 0 .. Last] == IF k = 0 THEN C ELSE Under(m, T[k - 1]) IN T
Tables == TablesOf(mem, contexts)
Slots ==
  {s \in (UNION {Tables[k] : k \in 0 .. Last}) \X Index :
     /\ mem.tab[s[1]][s[2]].frame # 0
     /\ ~(s[1] \in contexts \ {KERNEL} /\ s[2] \in Upper)}
Target(s) == mem.tab[s[1]][s[2]].frame

\* Every frame the VMM took from PMM has exactly one use: it is the top table
\* of a context, or one entry points to it, as to a table or as to a page, or
\* its owner holds it.  No failed walk, mapping or rollback loses a frame or
\* leaves it in two places, and none is freed twice.
FrameUsedOnce ==
  /\ mem.panic # "double free"
  /\ Running =>
       LET used == {Target(s) : s \in Slots}
           tables == UNION {Tables[k] : k \in 0 .. Last}
       IN  /\ \A s, t \in Slots : Target(s) = Target(t) => s = t
           /\ used \cap contexts = {} /\ held \cap tables = {}
           /\ mem.free \cap (contexts \cup used \cup held) = {}
           /\ mem.free \cup contexts \cup used \cup held = Frame

\* What vmalloc, vmm_alloc_pages and vmm_reserve_region returned stays mapped
\* page by page until it is freed, and no two callers own one address.
Regions == blocks \cup {[ctx |-> KERNEL, base |-> r.base, n |-> r.n] : r \in vmallocs}
PagesOf(r) == Run(r.base, r.n)
RegionsMapped ==
  Running =>
    /\ \A r \in Regions : \A v \in PagesOf(r) : IsMapped(mem, r.ctx, v)
    /\ \A r, s \in Regions :
         r # s /\ r.ctx = s.ctx => PagesOf(r) \cap PagesOf(s) = {}

\* A call that failed leaves no page mapped: what a context maps belongs to a
\* caller or was mapped by demand paging.
NothingStray ==
  Running =>
    \A c \in contexts, v \in Page :
      IsMapped(mem, c, v) /\ (c = KERNEL \/ Digit(v, 1) \notin Upper) =>
        \/ \E r \in Regions : r.ctx = c /\ v \in PagesOf(r)
        \/ GetPte(mem, c, v).frame \in held
        \/ c = KERNEL /\ v \in faulted

\* An address of the kernel heap means the same page in every context that may
\* run, although the kernel's entries are copied only once (vmm_create_context)
\* and vmalloc and the page fault change one context only.
KernelHalfShared ==
  Running => \A c \in complete \cup {current}, v \in HeapPages :
               GetPte(mem, c, v) = GetPte(mem, KERNEL, v)

\* vmm_test_basic passes: a context whose owner has unmapped and given back what it
\* mapped there can be destroyed.
ContextsCanBeDestroyed ==
  held = {} /\ blocks = {} => mem.panic # "invalid free"
===============================================================================
