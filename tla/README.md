# BoxKernel in TLA+

TLA+ modules, TLC configurations and TLAPS proofs for the kernel in `src/`: its
event pipeline, its task scheduler and timers, its page allocator and page
tables, its heap, its file system from the queries down to the sectors of the
disk, and its console. Paths below are relative to `src/src/kernel/` unless they begin
with `src/`; `ed/` stands for `eventdriven/`.

## 1. The system

BoxKernel is a single-address-space x86-64 kernel. A program asks for a service
by submitting an *event*; the event travels through a pipeline of components
that are connected by ring buffers and a routing table, and a *response* comes
back through another ring.

    program --userRing--> Receiver --centerRing--> Center --> routing table
                                                                  |
    program <--respRing-- Execution <--execQueue-- Guide <--scan--+
                                                     |            ^
                                                     +-deckQueue-> decks

The documentation gives every component a core of its own. The code has a
`*_run` loop for each, but nothing starts other cores: the demo, and only the demo,
calls `eventdriven_process_one_iteration` (by way of `eventdriven_process_events`, 50
to 200 times), which gives every component one turn on the one thread there is. After
the demo `kernel_main` enters `shell_run`, which never returns and never iterates the
pipeline. Both schedules are modelled.

All this is behind a self-test. `kernel_main` runs `vmm_test_basic` (`main_box/main.c:81`)
before it touches the disk, and the self-test ends in a panic (section 3, findings)
unless memory is so short that it returns early. The modules of what comes later -
tasks, pipeline, decks, file system, disk, console - describe that code as it would run
if the boot got there, and their properties say what it does then.

### Inventory

| Component | State | Operations | What is hard | What makes it correct |
|---|---|---|---|---|
| ring buffers (`ed/core/ringbuffer.h`, `atomics.h`) | head, tail, slots | push, pop | lock-free, wraparound, one producer assumed | a FIFO; no torn message |
| user API (`ed/userlib/eventapi.c`) | response cache | submit, poll, wait | unbounded busy wait, identity of a response | every request gets its own answer |
| Receiver (`ed/receiver`) | id counter | validate, forward | full ring, timeout | an event is forwarded or dropped, once |
| Center (`ed/center`) | – | security check, route, insert | full ring, full bucket | denied events are never served |
| routing table (`ed/routing`) | buckets of 4 entries, counter, lock | insert, remove | reuse of a slot while pointers to it are queued | counter and slots agree |
| Guide (`ed/guide`) | scan position, queues of pointers | scan, dispatch | an entry is pushed on every scan | each entry is handed to its deck once |
| decks (`ed/decks`) | queue of pointers | take, process, complete, error | result stored through a pointer | result of the right request |
| Execution (`ed/execution`) | – | collect, respond, remove | full ring | one response per event |
| task system (`ed/task/task.c`) | task table, linked list, clock fields | spawn, kill, sleep, wake, pause, resume, throttle, tick, next, yield | calls in any order, timer interrupt | list and table agree with the states |
| page allocator (`core/memory/pmm`) | bitmap, `last_free` | init, alloc, free | unaligned regions, wraparound, next fit | one owner per page |
| virtual memory (`core/memory/vmm`) | page tables, contexts | map, unmap, alloc, contexts, page fault | rollback, shared tables | one frame per page, no leak |
| TagFS (`ed/storage/tagfs.c`) | superblock, inodes, bitmaps, tag index | create, write, tag, trash, erase, query, sync | restart, running out of blocks | blocks owned once |
| storage deck (`ed/decks/storage_deck.c`) | descriptors | open, read, write, close, stat | stale descriptors | – |
| hardware deck (`ed/decks/hardware_deck.c`) | timers | create, cancel, sleep, expire | slots are used again, owners come and go, who looks at the timers | every timer fires as often as it should |
| heap (`src/src/lib/kernel/klib.c`) | list of free blocks | kmalloc, kfree | split and merge | blocks tile the pool, no room is lost |
| disk (`drivers/disk/ata.c`, boot of `ed/storage/tagfs.c`) | drive, its cache, what is loaded | identify, read, write, flush, retry; init, format, sync | errors half way, power cuts | files survive, what is mounted is whole and on the disk |
| console (`arch/x86-64/idt`, `drivers/keyboard`, `drivers/timer`, `shell`) | keyboard ring, modifiers, line | handlers, getchar, line editor | interrupts between any two steps, locks taken in handlers | no key lost, every key read |
| context switch, screen, CPU tables, network deck | – | – | hardware, stubs | – |

The last row is not modelled: it is register set-up, programmed I/O, output, or
operations that answer with a constant.

## 2. Modules

| Module | Models | Used by |
|---|---|---|
| `BoundedFifo` | abstract: a bounded FIFO with atomic put and get | `RingBuffer` refines it |
| `RingBuffer` | `event_ring_push/pop`, `response_ring_push/pop`, one step per access to shared memory | `MCRingBuffer`, `RingBufferProofs` |
| `EventPipeline` | state and steps of user API, Receiver, Center, table, Guide, decks, Execution | the two schedules |
| `EventService` | abstract: what the pipeline owes a request | `SyncPipeline` refines it |
| `SyncPipeline` | the schedule of `eventdriven_process_one_iteration` | `MCSyncPipeline`, `PipelineProofs` |
| `CorePipeline` | a core per component, the `*_run` loops | `MCCorePipeline`, `PipelineProofs` |
| `RunQueue` | abstract: the queue of runnable tasks | `TaskScheduler` refines it |
| `TaskScheduler` | task table, linked list, timer tick, round robin, yield | its run, `HardwareDeck`, `TaskProofs` |
| `PMM` | bitmap of pages, `pmm_init`, `pmm_alloc`, `pmm_free` | `MCPMM`, `MemoryProofs` |
| `VMM` | page tables, contexts, mapping, allocation, `vmalloc`, page faults | `MCVMM`, `VMMProofs` |
| `FileStore` | abstract: files are sequences of bytes of their own | `StorageDeck` refines it |
| `TagFS` | the functions of `tagfs.c`, as operators on the file system's state | `StorageDeck` |
| `StorageDeck` | descriptors, the deck's file events, the shell's calls, restarts | `MCStorage`, `StorageProofs` |
| `TimerService` | abstract: timers that go off as often as they should | `HardwareDeck` refines it |
| `HardwareDeck` | the timer table and its scan, on top of `TaskScheduler` (EXTENDS) | its run, `TaskProofs` |
| `Heap` | `mem_init`, `kmalloc`, `kfree` | its run, `MemoryProofs` |
| `Console` | keyboard and timer interrupts, keyboard ring, line editor | its run, `ConsoleProofs` |
| `DiskBoot` | `tagfs_init`, `tagfs_format`, `tagfs_sync` down to the ATA commands; the drive and its cache; power cuts | its run, `DiskBootProofs` |
| `MC*` | constants of the runs | the cfgs |
| `RingBufferProofs`, `DiskBootProofs`, `ConsoleProofs`, `VMMProofs` | theorems about the module of that name | – |
| `MemoryProofs` | theorems about `PMM` and `Heap` | – |
| `TaskProofs` | theorems about `TaskScheduler` and `HardwareDeck` | – |
| `PipelineProofs` | theorems about `CorePipeline`, any interleaving, and `SyncPipeline`, the kernel's schedule | – |
| `StorageProofs` | theorems about `TagFS` and `StorageDeck` | – |

The mutants beside some definitions (`CheckOffByOne`, `RollBackShort`, ...) are
never part of a specification. Each is a bug the code might have had; putting it
in place of the definition that follows it makes a property of a run fail.

### How state and steps correspond to the code

*RingBuffer.* `head`, `tail` and `slots` are the fields of the ring; a slot is a
function over its words, so that a copy interrupted half way shows. `push` is
load tail / load head and test / copy a word (as often as there are words) /
store tail, `pop` likewise. `Minus` and `Plus` are `uint64_t` arithmetic modulo
`WRAP`. Batch operations, `peek` and `is_full` have no caller.

*EventPipeline.* A ring is the sequence that `RingBuffer` is shown to implement.
`table[b][i]` is a `RoutingEntry`, a queued `RoutingEntry*` is the pair `<<b, i>>`,
so that a pointer goes stale exactly when the slot is reused. A step ends where
another component may look: between taking an event and pushing it on, between
the work of a deck, the store of its result and the clearing of its prefix, and
between Execution's response and the removal of the entry. One turn of the batch
loop of the Guide is one step, because it holds the lock of the bucket. The
payload of an event is its `Kind`: whether Receiver and Center accept it, and the
deck of its type. `served` and `fate` record what happened to each
request. Statistics and timestamps are left out, the code only prints them.

*TaskScheduler.* `taskTable`, `next`, `prev`, `head`, `tail` and `current` are the
code's pointers. A task is named by the number of its spawn, counted from 1, and
a freed task keeps its name, so a pointer to it is a dangling pointer. The model
stops (`Intact`) where the code would follow one. `due` and `stale` are what
comparisons with the clock yield. `onCpu` is the task whose context the CPU has.
A *careless* call names a task in a state the call does not expect (sleeping
twice, say); `MaxCareless` bounds them, because two of them in a row damage the
list beyond what is worth following.

*PMM.* The bitmap is the set `free` of the pages whose bit is 0. Addresses are
counted in parts of a page, so regions of the e820 map may be unaligned, and the
subtraction in `pmm_reserve_region` is modulo `WORD`. `FindFree` states the search
by the runs of free pages; `LoopsAgree` compares it with the two
counting loops of the code (`Loop`). `holders` counts the owners of
each page, which the code does not record.

*VMM.* `mem.tab[f]` is the table in frame `f`, `mem.free` what PMM has left, and
which run of frames PMM gives is the constant `PmmChoice`, of which only that the
run is free, when there is one, is assumed. An address is a page number, a walk takes its digits
(`Digit`) from the top table down, and a page table is taken from the same frames
as the pages. Each function of `vmm.c` is one action, with its rollback. The
tables of the identity and direct maps, built once at boot, are left out; `Direct`
says which frames the kernel can reach. Assumed of the callers: kernel pages are
asked for in the kernel context (storage deck, task stacks) and user pages in
others; nobody unmaps or frees what another owns, although one may free an
address twice; and only contexts created after the heap got its entry in the top
table are switched to, since the copy of the kernel's entries is never renewed.
A fault outside the heap and the low pages ends in the panic of
`exception_handler`, and the model stops where the kernel halts. `VMMAssumption` is what
`vmm.h` lays out: the kernel heap lies under one entry in the upper half of the top
table, the user's addresses in the lower half.

*TagFS, StorageDeck.* `fs` is `global_tagfs` with `tagfs_storage`: `used` and `bits`
are the two bitmaps, `table` the inodes by slot, `index` the tag index as a
function from tags to lists of ids. `(uint64_t)-1`, which a failed allocation
leaves among the block pointers, is `BAD`. `disk` is what `tagfs_sync` wrote, which
is the freshly formatted file system: nothing calls it later, so `Restart` comes
up empty. Erasing a file whose pointers hold `BAD` sends `bitmap_clear_bit` to an
address that does not exist, and the model stops. Block contents are `UNITS` bytes
that can be told apart. The callers are the deck, the shell and whoever calls
`tagfs.h` with an id it was given; the shell itself never gets as far as trash or
erase, because of what is said of `tagfs_query_single` below.

*HardwareDeck.* `timers` is the code's table; an expiration is reduced to `ripe`:
the time stamp counter has reached it. `CheckStart` is the reading of the time,
`CheckSlot` one turn of the loop, and between two turns come the timer interrupt
and time, nothing else of the kernel's thread. `WillHaveFired` counts how often each
timer will have gone off when the scan under way is done; no step of it may change that. The task system is the whole of
`TaskScheduler`, used carefully. Nothing in the code calls `task_scheduler_next`
but a yield that nothing calls, so `current_task` stays NULL and timers have no
owner today; the model also explores what the code is written for.

*Heap.* Addresses are offsets in the pool. The free list is always in the order of
the addresses, so it is the set `free_list`, and its neighbours are `Before` and `After`.
`asked` is what callers asked for. kmalloc never returns NULL, it panics; a size
near 2^64 wraps in the rounding (`SIZE_WORD`), and the assumption on `Requests` excludes
it. The header has 24 bytes, so a payload is aligned to 8 and not to 16.

*Console.* `InitLoad` and `InitStore` are one turn each for each bit-field `keyboard_init`
clears: the byte is loaded into `reg` and stored back without the field, and an interrupt
may come between. `FAKE` is the shift code that a keyboard puts around the arrow keys
(E0 2A, E0 AA); the driver drops the E0. `missed` records that the last shift code was a
release which came between such a load and its store. One processor: `Press`, `Release` and `Timer` are whole handlers, the
shell goes in steps of one access to shared state. `spins` stands for a handler
that waits, with interrupts off, for a lock the interrupted code holds.
`TaskCall` stands for the demonstration's calls under `task_table_lock`. `typed`
records what got into the ring since `keyboard_init`, which forgets the keys typed
before. `Parsed` is the loop of `shell_parse_command`, one turn a character (`Look`),
`Words` what it should find, and `Typewriter` the lines that `typed` makes. `keyboard_flush` and `keyboard_getchar_blocking` have no caller.

*DiskBoot.* A boot begins with the self-test of the memory manager, which panics or, when
memory is too short for it, returns (`SelfTestPanics`, `SelfTestReturns`), and only then
comes to the disk. A sector holds one of a few contents; a file system is told by its
superblock: `files` (found on the disk), `new` (just formatted), `wide` (its inode
table leaves the disk), `long` (too many blocks). The rejections of `ata.c` that
depend on the controller are the choice to fail (`DriveFails`), bounded by
`MaxFaults`. A write goes into the drive's `cache`, a flush empties it, a power cut
keeps any part of it. The last sector of a block may be lost without a notice (`dropped`),
because nobody looks at the status behind it. The first `tagfs_sync` runs before the bitmap exists and
reads it at address 0, which is mapped and holds whatever the BIOS left there: so
a data block is written or skipped by choice (`SkipData`). Nothing calls
`tagfs_sync` after formatting, so data blocks are never loaded.

## 3. Runs

| Run | Shows | Bounds and why they are enough |
|---|---|---|
| `ring_spsc` | one producer, one consumer: FIFO, no torn message | ring of 4, 2 words, counters modulo 8: full, empty and two wraparounds occur |
| `sync_paths` | every kind of request and every outcome of a deck; implements `EventService`; every request is resolved | 3 events, rings of 3, one bucket of 2, so a bucket overflows and a slot is reused; 0.4 million states |
| `core_any_order` | what survives full concurrency | rings of 1, one bucket of 2, queues of 2: everything overflows; 1.4 million states |
| `tasks_calls` | table and list agree; the list implements the run queue | 3 slots, 4 spawns: head, middle, tail and the full table; 1 careless call; 1.6 million states |
| `timers` | timers go off as often as they should; a scan that has begun ends, with all it found expired; the run queue stays right | 2 slots, 2 timers, 2 tasks: a slot is used again, an owner has gone when its timer goes off; a timer ripens twice, so a periodic one is set again and goes off again; 1.5 million states |
| `pmm_runs` | one owner per page, no panic, search = loops | up to 9 pages, runs of 1 to 3, three memory maps |
| `vmm_paths` | one use per frame, nothing lost in a rollback, regions stay mapped, the kernel's half is shared | 8 frames, 3 levels of 2 entries, 2 contexts: every allocation fails at every place somewhere; 0.5 million states |
| `heap_blocks` | blocks tile the pool; refused only without room | a pool of 27 bytes, headers of 3, requests of 1, 4 and 7: split and not, merged with none, one and both neighbours, out of memory; 3004 states |
| `storage_files` | blocks, index and contents of files; queries for one tag or two miss no file short of the limits; implements `FileStore` | 3 inodes, 2 data blocks of 2 bytes, writes of 3 bytes, reads of 2, 1 descriptor, ids 2 to 5 between restarts: writes cross blocks, overlay what is there and run out of blocks; 2 tags to query, an index of 3 entries, 2 results, marks for the ids below 5: each limit is reached (without any of the three conditions of `QueriesFit` the property fails); 0.12 million states |
| `vmm_self_test` | *violation:* the first context the self-test destroys ends in a panic | as `vmm_paths`, but no mapped memory can be had, so that what is left are the calls of the self-test |
| `disk_power_cuts` | files survive, what is mounted is whole and on the disk, every boot ends | 2 sectors a block, a table of 2 blocks, 3 attempts and 4 faults: a block fails for good, and another once; drives that are absent, too small and large enough; the disk the machine boots from and others; 90 thousand states |
| `console_keys` | lines are what was typed, shift does not stick but in one case, keys are read | a ring of 2 characters, 5 presses, two shift keys and the fake shift: full ring, full line, wraparound, a release between any load and store of `keyboard_init`; 0.38 million states. An argument too many needs a longer line than 5: `ParseIsWords` covers it |

Every component's module states its type invariant `TypeOK` (`HardwareDeck` has
that of the tasks it extends). The runs list the deeper
invariants only; `TypeOK` is proved for the ring, the page allocator, the heap, the
tasks (`TaskTypes`), the pipeline (`PipelineTypes`), the page tables
(`AddressSpaceTypes`) and the console (`ConsoleTypesHold`).

`CHECK_DEADLOCK FALSE` stands where the system may stop: the task list at a
dangling pointer (`tasks_calls`, `timers`), the kernel in a panic (`vmm_paths`,
`heap_blocks`) or at an address that does not exist (`storage_files`), a handler
that spins (`console_keys`), a machine whose boot loader is overwritten (`disk_power_cuts`).

### Fairness

`sync_paths`: `SyncFairSpec` is weak fairness of the kernel's turns, because the
thread runs on while it is inside the kernel, and of the steps of a submission or
poll under way. Strong fairness of `ProcessOneIteration` is an assumption about the
environment, not something the kernel sees to: that whoever drives the pipeline goes on
doing so, between other calls. `EveryRequestResolved` says what the pipeline then does;
with the demo's fixed number of iterations a request may still be under way at the end,
and the shell resolves none. Nothing forces a program to submit or
poll, and the decks' choice of outcome is never fair. The queues never fill in this run,
so that a full queue delays a request and never loses it is not part of what it shows.

`timers`: weak fairness of `CheckSlot` alone: the loop of `timer_check_expired`, once
begun, goes on on the kernel's one thread. That a scan begins is not assumed: only an
iteration begins one, `hardware_deck_run` never does, and after the demo nothing does.
`TimersGoOff` is about the scan that has begun.

`console_keys`: weak fairness of the main thread and of the timer interrupt, which
comes 100 times a second. The tick is what wakes a shell that has gone to sleep
just after a key came: with the timer masked the property fails.

`disk_power_cuts`: weak fairness of the processor's steps. Faults, power cuts and
switching on are never forced, and that faults are bounded is not needed for
`BootEnds`: the retries are counted.

### Findings

The run `vmm_self_test` checks what the kernel's own self-test announces, "Context
creation/destruction" and "All basic tests PASSED!" (`core/memory/vmm/vmm.c:1147`, `1232`),
and what `src/FINAL_STATUS.md:73` and `:88` say of it ("VMM/PMM fully functional",
"Kernel boots successfully"). The test maps a page in a new context, unmaps it, gives it
back and destroys the context. The page tables that are left are freed by the address
the kernel reaches them at (`vmm.c:322`), which is no address of the zone, and `pmm_free`
panics (`pmm.c:251`). The trace TLC prints is the self-test, call by call. The theorems
about `VMM` are about the states before that panic; those about the modules of what comes
later hold of that code as it would run if the boot got there.

Seen while reading, without a run of their own:

* the Guide finds a failed event finished before it looks at its abort flag, and
  Execution answers every event with SUCCESS (`execution_deck.c:35`);
* `scheduler_dequeue` of a task that is not queued empties the queue
  (`task.c:315`), and `task_resume` of a throttled task queues it twice;
* the kernel is linked at 0x10000, so `base - pmm_zone.base` wraps and the kernel's
  pages above 1 MB are never reserved (`pmm.c:286`);
* the file system begins at sector 0 of the primary master, the disk `make run` boots
  from (`src/Makefile:149-156`): a first format (`tagfs.c:95`) would overwrite stage 1,
  stage 2 and the kernel, if the boot got so far;
* a timer that is pending when the demo ends never goes off, nor is any request resolved
  that is then under way: `shell_run` does not iterate the pipeline;
* `keyboard_init` clears six bit-fields of one byte one after the other with interrupts
  on, and undoes a release of shift that comes between (`keyboard.c:56`); the prefix E0
  is dropped, so the fake shift codes of the arrow keys count as shift (`keyboard.c:75`);
* `ata_write_sectors` does not look at the status after the last sector (`ata.c:281-298`):
  a drive that loses it is not noticed;
* `tagfs_query_single` returns 1 for success; `tagfs_find_by_name`, `fs_open` and
  `fs_stat` expect 0 and never find a file (`tagfs.c:1648`);
* a query with OR drops the files whose id has no mark (65536 on, `tagfs.c:1283`), though
  ids are never used again; a tag that comes when the index is full is not indexed, and
  the file with it is not found (`tagfs.c:1064`);
* the timer interrupt wants `task_table_lock` and the keyboard interrupt `kb_lock`,
  and both spin for ever when the interrupted code holds them; the keyboard ring
  has one writer and one reader and needs no lock at all;
* `kfree` looks for a double free among the heads of the free blocks, and does not
  find a block that was merged with the one before it (`klib.c:97`);
* a power cut inside `tagfs_sync` leaves the new superblock over old blocks, which
  every later boot mounts; what the checks at the end of `tagfs_init` format is
  never written;
* `delay_ms * 2400000` wraps for delays of more than 243 years, and the response to
  a timer's creation points into the table, where the slot is used again;
* the last argument of a command line keeps the rest of the line, when there are
  more than SHELL_MAX_ARGS;
* Center and Execution push into one response ring, which is documented as SPSC;
  with a core per component the Guide pushes an entry again until its deck has
  cleared the prefix, and a deck may store its result into a slot that was reused
  (`CorePipeline` behaves so, and `core_any_order` shows what still holds);
* the submission and Execution wait busily for room on the only thread there is;
* the submission returns 0, which is no event's id, so nothing can be polled;
* the timer tick marks sleeping tasks STALLED, from where no call brings them
  back; `task_scheduler_next` empties a queue of one task; `task_scheduler_yield`
  compares with a `current_task` that has already changed and never switches;
* a usable region that starts inside a page frees all of that page; a run of
  pages that straddles `last_free` is not found;
* page tables below the top are always mapped for the kernel only, so no user
  page is accessible to a user; the rollback of `vmm_map_pages` also unmaps pages
  that were mapped alike before;
* `tagfs_read_file_content` takes the number of bytes read for an error; a query
  returns files that have lost the tag; the inode bitmap is cleared by id instead
  of slot; nothing reaches the disk after formatting, although
  `src/FINAL_STATUS.md:33` says files persist; inodes are larger than the 512 bytes
  they are counted at, and the slots from 142 on lie over data blocks.

## 4. Proofs

`RingBufferProofs`, for one producer, every `SIZE`, number of words, message set
and every `WRAP` that is a multiple of `SIZE` (as 2^64 is of 256): `RingInv` is
inductive. It adds to the type invariant what a push and a pop under way own: the
pushing side the slot at `tail`, which is not live and holds a prefix of the
message; the popping side the slot at `head`, which is live and of which it has
read a prefix; every live slot holds the words of one message. That a full test
made long before the copy stays good follows from the consumer only ever moving
`head` forward. `NoTornMessage` is a consequence by `SlotsApart` (different indices
less than SIZE apart have different slots, also across the wraparound), and
`ImplementsBoundedFifo` maps the store of `tail` to a put and the store of `head`
to a get. The single producer is an assumption the response ring meets only
because one thread runs everything.

`MemoryProofs`, on `PMM`, for every page size, memory map and request size: `IInv` (types, one
owner per page, no panic, place of the bitmap) is inductive. One owner per page
makes the double-free check pass for honest callers; the search returns free
runs because a least element of a set of naturals exists; a free page is found
wherever the search starts because a single page cannot straddle `last_free`;
the pages under the bitmap are never free because `pmm_reserve_region` rounds
outward, and does not wrap below the end of the identity mapping.
`LoopsAlwaysAgree`: the counter of the search loop is, after each page, the length of the
longest run of free pages that ends there, so it first reaches `n` at the end of the
first free window of `n`, which is what `FindFree` states.
The constants' assumptions are in `PMMAssumption`: 1 MB is a multiple of the page
size, and the identity-mapped part ends below the end of the address space.

On `Heap`, for every pool, header, alignment and set of requests: the inductive
invariant `HeapInv` is the types, `BlocksTile`, `CallersServed` and `Coalesced`: no
free block ends where another begins. It makes the neighbours in the list, which
are all the code looks at, the only candidates for a merge (`BeforeIs`, `AfterIs`);
a split and a join keep the tiling (`SplitTiles`, `JoinTiles`).
`RefusedOnlyWithoutRoom` follows because a stretch of the pool that no caller holds
lies inside one free block. `AllFreedIsAsInitialised`: with no block held the heap
is one free block.

`DiskBootProofs`: `FilesAlwaysSurvive`, for every number of blocks, sectors, retries
and faults. The invariant `FilesInv` says that as long as a disk with files has
failed fewer reads than a block is tried, nothing has been written, and whatever
of the superblock and the table is loaded so far is what the disk holds; so the
magic number is found, the table ends on the disk, and no attempt is the last.
`MountsAreWhole` and `MountsAreOnDisk` rest on `MountInv`: unless a sync was torn, the
disk is as it was at first or freshly formatted, with nothing left in the drive's
cache and no sector lost; a load has copied the blocks before `block`, and of that one the sectors
before `sector`; a sync writes the formatted file system and nothing else.

`TaskProofs`, for every number of tasks, slots and timers. `TableInv` (types, table,
and that no pointer names a task that was never spawned) holds whatever is called.
`ListInv` describes the list as the sequence that the walk along `next` gives
(`Lists`): no repetition, `prev` the way back, head and tail its ends. A list has one
such sequence, so the sequence after a call is found by writing it down (`Added`,
`Without`, `Rotated`) and need not be computed by the walk. The strengthening is that a
task that sleeps, is throttled or is parked is *not* in the list, which is why
`task_wake` and `task_resume`, which do not look, queue nobody twice. That holds while
no call was careless, and `QueueStaysWellFormed` and `RunnableStayQueued` say no more.
`SchedulerImplementsRunQueue` follows call by call. `DeckInv` adds the timers: those
that are active have different ids, and what the scan found expired stays active
until it comes to it. From it `OwnersStayQueuedOnce` and `DeckImplementsTimers`.

`PipelineProofs`, for every number of requests and every size of rings, buckets,
queues and caches, in *every* interleaving. `CoreInv` is the types and

* `UserInv`, `IdInv`: ids go up on the way from the table back to Receiver, so two
  entries never share one and a removal by id removes the right entry;
* `CountInv`: a bucket's counter is the number of its used slots;
* `ExecInv`: what the Execution deck holds or will be given are different entries, in
  use, and no longer PROCESSING;
* `PastInv`: what was ever in the table or served is there still, or was answered;

and `NothingLostOrDoubled` itself, in which the places a request can be in are
counted with its fate.

On `SyncPipeline` it adds the schedule: `StageInv` (hands and rings are empty but in their
turn) and three facts about the queues of pointers, for any table, batch and queue
with BUCKETS <= QUEUE * BATCH (64 and 128 in the code). The Guide pushes an entry on
every scan until its deck has cleared the prefix. It pushes none twice because the
k-th pointer of a queue is taken before its bucket is scanned again (`QueueInv`), which
needs that the queue never gets longer than a round of the Guide; at most one event
per iteration enters the table, and an entry that waits unqueued is younger than a
round (`PendingInv`), so no more entries wait for a deck than a round has iterations
(`WaitingInv`). `QueuesHoldWhatWaits` follows, and then that a deck works only on what
waits for it: `ResponsesCarryOwnData`, and the safety part of the refinement,
`PipelineImplementsService`.

`StorageProofs`, for every size of the tables, blocks and writes. `StorageInv` says that
the disk is as formatted and of the file system in memory (`FsInv`) that the pointers
of the files are different blocks, together with the system's own just those in use
(`BlockInv`); that a set bit stands for each used inode (`InodeInv`; the bitmap is
cleared by id, so a bit may stay set, and never the other way round); that each byte
of a file has a block behind it (`SizeInv`); and that each id is at most once under a
tag (`IndexInv`), without which the single removal of an erasure would leave an id
behind. A file always has a pointer left for one more block because there are fewer
data blocks than pointers (`TagFSAssumption`: 10 and 12 in the code); so a write that
stops short does so for want of a block, and never has to skip one. Loops over pages,
blocks and tags are recursive functions, and what a proof needs of them is stated as
what a turn keeps (`WrittenBytes`), not as what they compute.
From it `BlocksHaveOneFile`, `FilesHaveNoHoles` (no descriptor stands beyond the end of
its file, since files only grow and ids are not used again between restarts) and
`IndexNamesTheLiving`. `QueriesFindAll` is `QueriesMissNothing` while `QueriesFit`: the
index has an entry left (1024 in the code), there are no more files than a list of results
holds (256), and the ids given out have marks (65536); beyond these the code does miss
files. Its invariant, `QueryInv`, is that every tag of every file is in the index as long
as there is an entry left: a tag is only ever refused when the index is full, it never
gets smaller until the next boot, and an erasure takes out its own id alone. No list of
ids is cut, because it names each file once (`ListingFits`). `DeckImplementsFileStore` is the refinement: the bytes read back
block by block are the contents, a write overlays its bytes (`OverlayIs`) on those of
one file, and as blocks have one file the others keep theirs.

`VMMProofs`, for every number of frames, levels and entries of a table, every limit of
contexts and every choice of PMM. What makes a set of frames a tree of page tables is
`Sound`, which says of a memory that *some* depth `D` of its tables exists such that

* an entry of a table points one step deeper, and each table that is not a top one has
  an entry above it (`Levelled`); the top tables are just the contexts';
* no frame has two owning entries (`OneOwner`), where the entries a context copied from
  the kernel's half own nothing: they are empty or equal to the kernel's (`Copied`);
* each frame is free, a top table, held by a caller, or owned by one entry (`Placed`).

`D` is a witness and no variable: a step that links a new table extends it (`LinkGrows`),
one that creates or destroys a context changes it in one place (`Birth`, `Death`). Two
walks that end in the same table began at the same context and page (up to the kernel's
half, which is at home in the kernel context: `Home`), so writing one entry changes one
page. On top of it `Good` says who maps what: each region is mapped page by page, regions
are apart, and every page that is mapped is claimed by a region, a holder of its frame, or
demand paging. The loops over levels and pages are recursive functions; a proof states
what `k` turns have done to the memory (`Mapping` for the loop that maps, `Cutting` for the
one that unmaps, `Tried` for a loop with its rollback) and shows that one more turn does it
for `k + 1`. That a rollback restores the pages, and not the tables added on the way, is
what `Mapping` of no pages says. `IInv` adds that a context that may run has the kernel
heap's entry (`Runnable`), and the ranges of the lists. It is kept by every step, those
that end in a panic included.
`EachFrameUsedOnce`, `RegionsStayMapped`, `NoStrayMapping`, `KernelHeapIsShared` follow.

`ConsoleProofs`, for every size of the ring, the line and the arguments and every keyboard.
`ConsoleInv` says that the characters between `tail` and `head` are the last ones typed
(`QueueInv`), and that the one the shell has in hand is the one before them (`HandInv`); a
handler that comes between any two steps only adds at `head`. Then the text that is edited
is all that was typed but what waits, and each turn of the editor is one more character for
the `Typewriter`: `LinesAreTyped`. That the arguments are the words of the line
(`ParseIsWords`) is an invariant of the loop of `shell_parse_command`: after `k` characters
the words that start among them have been found, in order, until there are as many as
the array holds. `ShiftFollowsKeys` is `NoStuckShift`, with `ShiftInv`: while
`keyboard_init` has a copy of the byte in hand whose shift bit is set, a shift code is down
or its release is recorded as `missed`.

What the proofs assume of the constants is in the module that declares them:
`RingAssumption`, `PMMAssumption`, `HeapAssumption`, `TaskAssumption`, `TimerAssumption`,
`PipelineAssumption`, `SyncAssumption`, `TagFSAssumption`, `StorageAssumption`,
`DiskAssumption`, `VMMAssumption`, `ConsoleAssumption`. TLC evaluates each on the runs.

Only model-checked, of the properties the runs check:

* liveness (`EveryRequestResolved`, `TimersGoOff`, `KeysAreRead`, `BootEnds`): the
  provers have no fairness or ENABLED.

## 5. Not modelled, and plan

Context switch, screen and serial output and the CPU tables set registers or print.
The network deck answers with constants. The shell's commands are calls of the
modules above and printing. Control and alt are recorded by the keyboard driver
and read by nobody. Energy and health figures of tasks are only printed, but for
the state they lead to.

Next, in this order; theorems where marked (T).

1. Groups of tasks, and the decoding of payloads in `operations_deck.c`.
2. The user context's filter of TagFS and the memory events of the storage deck.
3. The type invariants of `StorageDeck` and `DiskBoot`, as theorems of their own (T).
