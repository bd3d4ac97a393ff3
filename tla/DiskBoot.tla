------------------------------- MODULE DiskBoot -------------------------------
(***************************************************************************)
(* How a file system gets from the disk into memory and back: ata_init,    *)
(* tagfs_init (which runs twice in a boot, from main and again from        *)
(* storage_deck_init), tagfs_format and tagfs_sync, down to the sectors,   *)
(* the retries and the cache flushes of drivers/disk/ata.c; with errors of *)
(* the drive, power cuts at any step, and the next boot after them.        *)
(*                                                                         *)
(* A sector holds one of a few contents.  Block 0 is the superblock, all   *)
(* of whose fields lie in its first sector; the blocks up to TABLE are the *)
(* inode table; the rest are data blocks.  The blocks of the tag index are *)
(* neither loaded nor written and are left out.                            *)
(***************************************************************************)
EXTENDS Naturals, FiniteSets

CONSTANTS
  SECTORS,       \* sectors of a block (8)
  TABLE,         \* blocks of the inode table
  MEM_BLOCKS,    \* TAGFS_MEM_BLOCKS, less those of the tag index
  MAX_RETRIES,   \* attempts at a block
  Origins,       \* what the disk may hold before the first boot
  BOOT_BLOCKS,   \* blocks of the boot image that hold boot loader and kernel
  Sizes,         \* how many blocks the drive may have, 0 when there is none
  MaxFaults      \* bound: how many commands the drive fails

ASSUME DiskAssumption ==
  /\ {SECTORS, TABLE, MEM_BLOCKS, MAX_RETRIES} \subseteq Nat \ {0} /\ TABLE < MEM_BLOCKS
  /\ Origins \subseteq {"image", "zero", "files", "wide", "long"}
  /\ BOOT_BLOCKS \subseteq 0 .. MEM_BLOCKS - 1 /\ Sizes \subseteq 0 .. MEM_BLOCKS /\ MaxFaults \in Nat

VARIABLES
  size,     \* blocks of the drive
  origin,   \* what it held at first
  media,    \* what is on its platters
  cache,    \* what its write cache holds and the platters do not, "none" elsewhere
  mem,      \* tagfs_storage
  exists,   \* ata_primary_master.exists, and use_disk with it
  phase,    \* where the boot is
  block, sector, tries,   \* the transfer: block, sector, attempts so far
  synced,   \* what tagfs_sync returned in this tagfs_init
  inits,    \* how often tagfs_init has run in this boot
  dropped,  \* history: of this tagfs_sync the drive lost a sector unnoticed
  torn,     \* history: a tagfs_sync began and has not all reached the platters
  faults, readErrors      \* commands failed so far, reads among them

drive == <<media, cache>>
history == <<size, origin, faults, readErrors>>
transfer == <<block, sector, tries>>
vars == <<drive, mem, exists, phase, transfer, synced, inits, dropped, torn, history>>

Block == 0 .. MEM_BLOCKS - 1
Sector == 1 .. SECTORS
Meta == 0 .. TABLE
Content == {"none", "image", "zero", "files", "wide", "long", "new"}
Nothing == [b \in Block |-> [s \in Sector |-> "none"]]
Filled(c) == [b \in Block |-> [s \in Sector |-> c]]

\* tagfs_format: zeros, and a superblock.
Fresh == [Filled("zero") EXCEPT ![0][1] = "new"]

\* The superblock in memory: has it the magic number, where does its inode table
\* end ("wide": past the blocks there are), are its numbers acceptable ("long":
\* too many blocks in all).
Superblock == mem[0][1]
Magic(sb) == sb \in {"new", "files", "wide", "long"}
TableEnd(sb) == IF sb = "wide" THEN MEM_BLOCKS + 1 ELSE TABLE + 1
Valid(sb) == sb # "long"

Read(b, s) == IF cache[b][s] = "none" THEN media[b][s] ELSE cache[b][s]
Flushed(c) == [b \in Block |-> [s \in Sector |-> IF c[b][s] = "none" THEN media[b][s] ELSE c[b][s]]]

\* The machine is booted from the drive when that holds the boot image.
Bootable ==
  origin = "image" => \A b \in BOOT_BLOCKS, s \in Sector : media[b][s] = "image"

Init ==
  /\ size \in Sizes /\ origin \in IF size = MEM_BLOCKS THEN Origins ELSE {"zero"}
  /\ media = Filled(origin) /\ cache = Nothing
  /\ mem = Filled("zero") /\ exists = FALSE
  /\ phase = "off" /\ block = 0 /\ sector = 1 /\ tries = 0
  /\ synced = "no" /\ inits = 0 /\ dropped = FALSE /\ torn = FALSE
  /\ faults = 0 /\ readErrors = 0

-------------------------------------------------------------------------------
\* The transfer of block b is to begin, in phase p.
Start(p, b) == phase' = p /\ block' = b /\ sector' = 1 /\ tries' = 0

\* stage1 and stage2 load the kernel; its storage is cleared.
PowerOn ==
  /\ phase = "off" /\ Bootable
  /\ mem' = Filled("zero") /\ exists' = FALSE /\ inits' = 0 /\ synced' = "no"
  /\ Start("selftest", 0)
  /\ UNCHANGED <<drive, dropped, torn, history>>

\* main: vmm_test_basic comes before the disk.  It destroys a context, and pmm_free
\* panics at the address of the first table it is given - unless memory is so short
\* that there is no context, no page or no table: then the boot goes on.
SelfTest(outcome) ==
  /\ phase = "selftest" /\ Start(outcome, 0)
  /\ UNCHANGED <<drive, mem, exists, synced, inits, dropped, torn, history>>
SelfTestPanics == SelfTest("panicked")
SelfTestReturns == SelfTest("detect")

\* The begin of tagfs_init.
TagFSInit == inits' = inits + 1 /\ synced' = "no" /\ Start(IF exists' THEN "loadSuper" ELSE "format", 0)

Fault == faults < MaxFaults /\ faults' = faults + 1

\* ata_init: identifies the master, then main calls tagfs_init.
Identify ==
  /\ phase = "detect" /\ exists' = (size > 0) /\ TagFSInit
  /\ UNCHANGED <<drive, mem, dropped, torn, history>>
IdentifyFails ==
  /\ phase = "detect" /\ size > 0 /\ exists' = FALSE /\ TagFSInit
  /\ Fault /\ UNCHANGED <<drive, mem, dropped, torn, size, origin, readErrors>>

\* storage_deck_init.
SecondInit ==
  /\ phase = "mounted" /\ inits = 1 /\ UNCHANGED exists /\ TagFSInit
  /\ UNCHANGED <<drive, mem, dropped, torn, history>>

-------------------------------------------------------------------------------
(***************************************************************************)
(* ata_read_block and ata_write_block: sector by sector, the whole block   *)
(* again after an error.                                                   *)
(***************************************************************************)
Loading == phase \in {"loadSuper", "loadTable"}
Transferable == block < size

\* Mutants: the table's last block is not loaded; the inode table is not written.
MoreButLast == block + 2 < TableEnd(mem'[0][1])
AfterSuperblock == IF block = 0 THEN TABLE + 1 ELSE block + 1

MoreToLoad == block + 1 < TableEnd(mem'[0][1])
NextSynced == block + 1

\* The block is in memory: on to the next one.
BlockRead ==
  IF phase = "loadSuper"
  THEN Start(IF Magic(mem'[0][1]) THEN "loadTable" ELSE "format", 1)
  ELSE Start(IF MoreToLoad THEN "loadTable" ELSE "validate", block + 1)

ReadSector ==
  /\ Loading /\ Transferable /\ block \in Block
  /\ mem' = [mem EXCEPT ![block][sector] = Read(block, sector)]
  /\ IF sector < SECTORS THEN sector' = sector + 1 /\ UNCHANGED <<phase, block, tries>>
                         ELSE BlockRead
  /\ UNCHANGED <<drive, exists, synced, inits, dropped, torn, history>>

\* tagfs_sync goes on after a block.
BlockWritten ==
  IF NextSynced < MEM_BLOCKS
  THEN Start("sync", NextSynced) /\ UNCHANGED <<synced, torn>>
  ELSE Start("validate", 0) /\ synced' = "ok" /\ torn' = (cache' # Nothing \/ dropped')

Flush(c) == cache' = Nothing /\ media' = Flushed(c)
\* The result of ata_flush_cache is not looked at.
FlushFails(c) == cache' = c /\ UNCHANGED media

\* Before each sector ata_wait_drq sees whether the drive has failed at the one
\* before (DriveFails).  Nobody looks behind the last one: when the drive loses it,
\* the block counts as written.
WriteSector ==
  /\ phase = "sync" /\ Transferable
  /\ LET c == [cache EXCEPT ![block][sector] = mem[block][sector]]
     IN  \/ /\ sector < SECTORS /\ cache' = c
            /\ sector' = sector + 1
            /\ UNCHANGED <<media, phase, block, tries, synced, dropped, torn, faults>>
         \/ sector = SECTORS /\ Flush(c) /\ UNCHANGED <<dropped, faults>> /\ BlockWritten
         \/ sector = SECTORS /\ FlushFails(c) /\ Fault /\ UNCHANGED dropped /\ BlockWritten
         \/ /\ sector = SECTORS
            /\ Flush(cache) \/ FlushFails(cache)
            /\ Fault /\ dropped' = TRUE /\ BlockWritten
  /\ UNCHANGED <<mem, exists, inits, size, origin, readErrors>>

\* Whether a data block is written is read from a bitmap that does not exist yet.
SkipData ==
  /\ phase = "sync" /\ block > TABLE /\ sector = 1 /\ tries = 0
  /\ UNCHANGED <<drive, mem, exists, inits, dropped, history>>
  /\ BlockWritten

\* Mutants: no second attempt; attempts that are not counted.
NoRetry == FALSE
Uncounted == tries
Retry == tries + 1 < MAX_RETRIES
Counted == tries + 1

\* An attempt has failed.  After the last one tagfs_init formats, or tagfs_sync gives up.
AttemptFails ==
  IF Retry THEN tries' = Counted /\ sector' = 1 /\ UNCHANGED <<phase, block, synced>>
  ELSE IF Loading THEN Start("format", 0) /\ UNCHANGED synced
  ELSE Start("validate", 0) /\ synced' = "failed"

DriveFails ==
  /\ Loading \/ phase = "sync"
  /\ Transferable /\ block \in Block
  /\ Fault /\ readErrors' = readErrors + (IF Loading THEN 1 ELSE 0)
  /\ AttemptFails
  /\ UNCHANGED <<drive, mem, exists, inits, dropped, torn, size, origin>>

\* The drive is too small.
BeyondDrive ==
  /\ Loading \/ phase = "sync"
  /\ ~Transferable /\ block \in Block
  /\ AttemptFails
  /\ UNCHANGED <<drive, mem, exists, inits, dropped, torn, history>>

\* tagfs_read_block_raw refuses the block.
BeyondStorage ==
  /\ Loading /\ block \notin Block
  /\ Start("format", 0)
  /\ UNCHANGED <<drive, mem, exists, synced, inits, dropped, torn, history>>

-------------------------------------------------------------------------------
Format ==
  /\ phase = "format" /\ mem' = Fresh
  /\ Start(IF exists THEN "sync" ELSE "validate", 0)
  /\ dropped' = FALSE /\ torn' = (torn \/ exists)
  /\ UNCHANGED <<drive, exists, synced, inits, history>>

\* The checks at the end of tagfs_init; what they format is not written.
Validate ==
  /\ phase = "validate" /\ mem' = (IF Valid(Superblock) THEN mem ELSE Fresh)
  /\ Start("mounted", 0)
  /\ UNCHANGED <<drive, exists, synced, inits, dropped, torn, history>>

\* The power goes, at any time.  Of what the cache held any part has been written back.
PowerCut ==
  /\ phase # "off"
  /\ \E kept \in SUBSET {p \in Block \X Sector : cache[p[1]][p[2]] # "none"} :
       media' = [b \in Block |-> [s \in Sector |-> IF <<b, s>> \in kept THEN cache[b][s] ELSE media[b][s]]]
  /\ cache' = Nothing /\ mem' = Filled("zero") /\ exists' = FALSE
  /\ Start("off", 0) /\ synced' = "no" /\ inits' = 0
  /\ UNCHANGED <<dropped, torn, history>>

BootStep ==
  \/ SelfTestPanics \/ SelfTestReturns
  \/ Identify \/ SecondInit \/ ReadSector \/ WriteSector \/ SkipData
  \/ BeyondDrive \/ BeyondStorage \/ Format \/ Validate
Next == PowerOn \/ BootStep \/ IdentifyFails \/ DriveFails \/ PowerCut

\* The processor goes on; nobody has to switch the machine on, the power need
\* not fail, the drive need not.
Spec == Init /\ [][Next]_vars /\ WF_vars(BootStep)

-------------------------------------------------------------------------------
TypeOK ==
  /\ {media, cache, mem} \subseteq [Block -> [Sector -> Content]]
  /\ phase \in {"off", "selftest", "panicked", "detect", "loadSuper", "loadTable", "format",
                "sync", "validate", "mounted"}
  /\ block \in 0 .. MEM_BLOCKS /\ sector \in Sector /\ tries \in 0 .. MAX_RETRIES - 1
  /\ {exists, dropped, torn} \subseteq BOOLEAN
  /\ inits \in 0 .. 2 /\ synced \in {"no", "ok", "failed"}
  /\ {faults, readErrors} \subseteq 0 .. MaxFaults

(***************************************************************************)
(* The files on a disk outlive any number of boots, power cuts at any step *)
(* included, as long as the drive has not failed as many reads as a block  *)
(* is tried: nothing is written, not even into the drive's cache           *)
(* (tagfs_init, ata_read_sectors_retry).                                   *)
(***************************************************************************)
FilesSurvive ==
  origin = "files" /\ readErrors < MAX_RETRIES => media = Filled("files") /\ cache = Nothing

(***************************************************************************)
(* The superblock and the inode table in memory are of one file system     *)
(* whenever tagfs_init is done, unless a tagfs_sync of an earlier          *)
(* tagfs_init was cut short (it writes the superblock first): half of a    *)
(* read that failed, and the numbers of another layout, never remain.      *)
(***************************************************************************)
MountedWhole ==
  phase = "mounted" /\ (~torn \/ synced # "no") =>
    \E fs \in {Fresh, Filled("files")} : \A b \in Meta : mem[b] = fs[b]

(***************************************************************************)
(* What is mounted with a disk is what the platters hold, so that the next *)
(* boot finds it: unless tagfs_sync failed, or ata_write_sectors did not   *)
(* notice that the drive lost a block's last sector or did not flush, or   *)
(* the numbers of the superblock were not acceptable (tagfs_sync,          *)
(* tagfs_load_inode_table).                                                *)
(***************************************************************************)
MountedIsOnDisk ==
  phase = "mounted" /\ exists /\ ~torn /\ media[0][1] # "long" =>
    \A b \in Meta : mem[b] = media[b]

(***************************************************************************)
(* A boot ends, with a file system or in the panic of the self-test,       *)
(* unless the power goes: no error of the drive and no superblock keeps    *)
(* tagfs_init from returning.                                              *)
(***************************************************************************)
BootEnds == phase = "selftest" ~> phase \in {"mounted", "panicked", "off"}
===============================================================================
