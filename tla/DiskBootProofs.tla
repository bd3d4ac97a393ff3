---------------------------- MODULE DiskBootProofs ----------------------------
(***************************************************************************)
(* FilesSurvive, for every number of sectors, blocks, attempts and faults: *)
(* a file system on the disk is never written over as long as fewer reads  *)
(* have failed than a block gets attempts.                                 *)
(*                                                                         *)
(* The argument: tagfs_sync is reached through tagfs_format only, and with *)
(* a disk tagfs_format is reached from the loads only.  A load of a disk   *)
(* that holds a file system finds the magic number and an inode table      *)
(* that ends within the storage, so it gives up only after MAX_RETRIES     *)
(* attempts at one block; each attempt but the last is counted in tries,   *)
(* and tries never exceeds readErrors.                                     *)
(*                                                                         *)
(* Then MountedWhole and MountedIsOnDisk, from what the loads and the sync *)
(* have moved so far.                                                      *)
(***************************************************************************)
EXTENDS DiskBoot, TLAPS

Typed ==
  /\ {media, cache, mem} \subseteq [Block -> [Sector -> Content]]
  /\ block \in Nat /\ sector \in Sector /\ tries \in Nat
  /\ readErrors \in Nat

\* What the loads have found so far.
LoadsFind ==
  /\ phase \in {"loadSuper", "loadTable"} => tries <= readErrors
  /\ phase = "loadSuper" => block = 0 /\ (sector > 1 => mem[0][1] = "files")
  /\ phase = "loadTable" => block \in 1 .. TABLE /\ mem[0][1] = "files"

Untouched ==
  /\ size = MEM_BLOCKS
  /\ media = Filled("files") /\ cache = Nothing
  /\ phase # "sync" /\ (phase = "format" => ~exists)

FilesInv ==
  /\ Typed
  /\ origin = "files" /\ readErrors < MAX_RETRIES => Untouched /\ LoadsFind

-------------------------------------------------------------------------------
LEMMA Constants ==
  /\ SECTORS \in Nat \ {0} /\ TABLE \in Nat \ {0} /\ MEM_BLOCKS \in Nat \ {0}
  /\ MAX_RETRIES \in Nat \ {0} /\ TABLE < MEM_BLOCKS
  /\ 0 \in Block /\ 1 \in Sector
  /\ \A b \in 0 .. TABLE : b \in Block
BY DiskAssumption DEF Block, Sector

\* What storage and disk hold at first, and what a format leaves, has its type.
LEMMA Shapes ==
  /\ \A c \in Content : Filled(c) \in [Block -> [Sector -> Content]]
  /\ Nothing \in [Block -> [Sector -> Content]]
  /\ Fresh \in [Block -> [Sector -> Content]]
<1>1. \A c \in Content : Filled(c) \in [Block -> [Sector -> Content]]
  BY DEF Filled
<1>2. "none" \in Content /\ "zero" \in Content /\ "new" \in Content
  BY DEF Content
<1>3. Nothing \in [Block -> [Sector -> Content]]
  BY <1>2 DEF Nothing
<1>4. Fresh \in [Block -> [Sector -> Content]]
  BY <1>1, <1>2, Constants DEF Fresh
<1> QED BY <1>1, <1>3, <1>4

LEMMA AtFirst == Init => FilesInv
<1> SUFFICES ASSUME Init PROVE FilesInv
  OBVIOUS
<1>1. origin \in Content
  BY DiskAssumption DEF Init, Content
<1>2. Typed
  BY <1>1, Constants, Shapes DEF Init, Typed, Content
<1>3. origin = "files" => Untouched /\ LoadsFind
  BY DEF Init, Untouched, LoadsFind
<1> QED BY <1>2, <1>3 DEF FilesInv

\* The steps that begin a transfer, end one or begin none leave the disk alone.
LEMMA OtherSteps ==
  ASSUME FilesInv,
         \/ PowerOn \/ SelfTestPanics \/ SelfTestReturns
         \/ Identify \/ IdentifyFails \/ SecondInit \/ Format \/ Validate
  PROVE  FilesInv'
<1>1. Typed'
  <2>1. mem' \in [Block -> [Sector -> Content]]
    <3>1. mem' = mem \/ mem' = Fresh \/ mem' = Filled("zero")
      BY DEF PowerOn, SelfTestPanics, SelfTestReturns, SelfTest, Identify, IdentifyFails,
             SecondInit, Format, Validate
    <3>2. "zero" \in Content
      BY DEF Content
    <3> QED BY <3>1, <3>2, Shapes DEF FilesInv, Typed
  <2>2. block' = 0 /\ sector' = 1 /\ tries' = 0
    BY DEF PowerOn, SelfTestPanics, SelfTestReturns, SelfTest, Identify, IdentifyFails,
           SecondInit, Format, Validate, TagFSInit, Start
  <2>3. media' = media /\ cache' = cache /\ readErrors' = readErrors
    BY DEF PowerOn, SelfTestPanics, SelfTestReturns, SelfTest, Identify, IdentifyFails,
           SecondInit, Format, Validate, drive, history
  <2> QED BY <2>1, <2>2, <2>3, Constants DEF FilesInv, Typed
<1>2. origin' = origin /\ readErrors' = readErrors /\ size' = size /\ media' = media /\ cache' = cache
  BY DEF PowerOn, SelfTestPanics, SelfTestReturns, SelfTest, Identify, IdentifyFails,
         SecondInit, Format, Validate, drive, history
<1>3. ASSUME origin = "files", readErrors < MAX_RETRIES
      PROVE  Untouched' /\ LoadsFind'
  <2>1. Untouched /\ readErrors \in Nat
    BY <1>3 DEF FilesInv, Typed
  <2>2. tries' = 0 /\ sector' = 1
    BY DEF PowerOn, SelfTestPanics, SelfTestReturns, SelfTest, Identify, IdentifyFails,
           SecondInit, Format, Validate, TagFSInit, Start
  <2>3. /\ phase' \in {"selftest", "panicked", "detect", "loadSuper", "format", "validate", "mounted"}
        /\ phase' = "loadSuper" => block' = 0
        /\ phase' = "format" => ~exists'
    BY <2>1
    DEF Untouched, PowerOn, SelfTestPanics, SelfTestReturns, SelfTest, Identify, IdentifyFails,
        SecondInit, Format, Validate, TagFSInit, Start
  <2> QED BY <2>1, <2>2, <2>3, <1>2 DEF Untouched, LoadsFind, Filled, Nothing
<1> QED BY <1>1, <1>2, <1>3 DEF FilesInv

\* A sector of a disk with a file system is a sector of that file system.
LEMMA FilesAreRead ==
  ASSUME Untouched, NEW b \in Block, NEW s \in Sector
  PROVE  Read(b, s) = "files"
BY DEF Untouched, Read, Filled, Nothing

\* A step that keeps readErrors within bounds starts where they were.
LEMMA Monotone ==
  ASSUME Typed, readErrors' = readErrors \/ readErrors' = readErrors + 1, readErrors' < MAX_RETRIES
  PROVE  readErrors < MAX_RETRIES
BY Constants DEF Typed

\* The first sector read of a disk with files is that of its superblock.
LEMMA SuperblockRead ==
  ASSUME FilesInv, ReadSector, origin = "files", readErrors < MAX_RETRIES
  PROVE  mem'[0][1] = "files"
<1>1. Untouched /\ LoadsFind /\ Typed
  BY DEF FilesInv
<1>2. /\ Loading /\ block \in Block /\ sector \in Sector
      /\ mem' = [mem EXCEPT ![block][sector] = Read(block, sector)]
  BY <1>1 DEF ReadSector, Typed
<1>3. Read(block, sector) = "files"
  BY <1>1, <1>2, FilesAreRead
<1>4. CASE sector = 1 /\ block = 0
  BY <1>1, <1>2, <1>3, <1>4, Constants DEF Typed
<1>5. CASE ~(sector = 1 /\ block = 0)
  <2>1. mem'[0][1] = mem[0][1]
    BY <1>1, <1>2, <1>5, Constants DEF Typed
  <2>2. mem[0][1] = "files"
    BY <1>1, <1>2, <1>5 DEF LoadsFind, Loading, Sector
  <2> QED BY <2>1, <2>2
<1> QED BY <1>4, <1>5

LEMMA ReadKeeps == ASSUME FilesInv, ReadSector PROVE FilesInv'
<1>1. /\ Loading /\ block \in Block /\ sector \in Sector
      /\ mem' = [mem EXCEPT ![block][sector] = Read(block, sector)]
      /\ media' = media /\ cache' = cache /\ readErrors' = readErrors
      /\ origin' = origin /\ size' = size /\ exists' = exists
  BY DEF ReadSector, FilesInv, Typed, drive, history
<1>2. Read(block, sector) \in Content
  BY <1>1 DEF Read, FilesInv, Typed
<1>3. mem' \in [Block -> [Sector -> Content]]
  BY <1>1, <1>2 DEF FilesInv, Typed
<1>4. CASE sector < SECTORS
  <2>1. sector' = sector + 1 /\ phase' = phase /\ block' = block /\ tries' = tries
    BY <1>4 DEF ReadSector
  <2>2. Typed'
    BY <1>1, <1>3, <1>4, <2>1, Constants DEF FilesInv, Typed, Sector
  <2>3. ASSUME origin = "files", readErrors < MAX_RETRIES
        PROVE  Untouched' /\ LoadsFind'
    <3>1. Untouched /\ LoadsFind /\ mem'[0][1] = "files"
      BY <2>3, SuperblockRead DEF FilesInv
    <3>2. Untouched'
      BY <3>1, <1>1, <2>1 DEF Untouched, Filled, Nothing
    <3> QED BY <3>1, <3>2, <1>1, <2>1 DEF LoadsFind
  <2> QED BY <2>2, <2>3, <1>1 DEF FilesInv
<1>5. CASE ~(sector < SECTORS)
  <2>1. BlockRead
    BY <1>5 DEF ReadSector
  <2>2. sector' = 1 /\ tries' = 0 /\ block' \in {1, block + 1}
    BY <2>1 DEF BlockRead, Start
  <2>3. Typed'
    BY <1>1, <1>3, <2>2, Constants DEF FilesInv, Typed
  <2>4. ASSUME origin = "files", readErrors < MAX_RETRIES
        PROVE  Untouched' /\ LoadsFind'
    <3>1. Untouched /\ LoadsFind /\ readErrors \in Nat /\ mem'[0][1] = "files"
      BY <2>4, SuperblockRead DEF FilesInv, Typed
    <3>2. Magic(mem'[0][1]) /\ TableEnd(mem'[0][1]) = TABLE + 1
      BY <3>1 DEF Magic, TableEnd
    <3>3. CASE phase = "loadSuper"
      <4>1. phase' = "loadTable" /\ block' = 1
        BY <3>2, <3>3, <2>1 DEF BlockRead, Start
      <4> QED BY <4>1, <3>1, <2>2, <1>1, Constants
              DEF Untouched, LoadsFind, Filled, Nothing
    <3>4. CASE phase = "loadTable"
      <4>1. block \in 1 .. TABLE
        BY <3>1, <3>4 DEF LoadsFind
      <4>2. block' = block + 1 /\ phase' = IF block + 1 < TABLE + 1 THEN "loadTable" ELSE "validate"
        BY <3>2, <3>4, <2>1 DEF BlockRead, Start, MoreToLoad
      <4>3. LoadsFind'
        BY <4>1, <4>2, <3>1, <2>2, <1>1, Constants DEF LoadsFind
      <4>4. Untouched'
        BY <4>2, <3>1, <1>1 DEF Untouched, Filled, Nothing
      <4> QED BY <4>3, <4>4
    <3> QED BY <3>3, <3>4, <1>1 DEF Loading
  <2> QED BY <2>3, <2>4, <1>1 DEF FilesInv
<1> QED BY <1>4, <1>5

\* A failed attempt is counted; only the last one at a block leads to a format.
LEMMA FailedReadKeeps == ASSUME FilesInv, DriveFails PROVE FilesInv'
<1>1. /\ mem' = mem /\ media' = media /\ cache' = cache /\ exists' = exists
      /\ origin' = origin /\ size' = size
      /\ readErrors' = readErrors + (IF Loading THEN 1 ELSE 0)
      /\ AttemptFails /\ (Loading \/ phase = "sync")
  BY DEF DriveFails, drive
<1>2. \/ tries' = tries + 1 /\ tries + 1 < MAX_RETRIES /\ sector' = 1 /\ phase' = phase /\ block' = block
      \/ ~(tries + 1 < MAX_RETRIES) /\ sector' = 1 /\ tries' = 0 /\ block' = 0
         /\ phase' \in {"format", "validate"}
  BY <1>1 DEF AttemptFails, Retry, Counted, Start
<1>3. Typed'
  BY <1>1, <1>2, Constants DEF FilesInv, Typed
<1>4. ASSUME origin = "files", readErrors' < MAX_RETRIES
      PROVE  Untouched' /\ LoadsFind'
  <2>1. Untouched /\ LoadsFind /\ Typed
    <3>1. Typed
      BY DEF FilesInv
    <3>2. readErrors' = readErrors \/ readErrors' = readErrors + 1
      BY <3>1, <1>1 DEF Typed
    <3> QED BY <3>1, <3>2, <1>1, <1>4, Monotone DEF FilesInv
  <2>2. Loading /\ tries <= readErrors /\ readErrors' = readErrors + 1
    BY <2>1, <1>1 DEF Untouched, LoadsFind, Loading
  <2>3. tries' = tries + 1 /\ sector' = 1 /\ phase' = phase /\ block' = block
    BY <2>1, <2>2, <1>2, <1>4, Constants DEF Typed
  <2>4. Untouched'
    BY <2>1, <2>3, <1>1 DEF Untouched, Filled, Nothing
  <2>5. LoadsFind'
    BY <2>1, <2>2, <2>3, <1>1 DEF LoadsFind, Typed
  <2> QED BY <2>4, <2>5
<1> QED BY <1>1, <1>3, <1>4 DEF FilesInv

\* No step of tagfs_sync, and no end of the drive or of the storage, is met on
\* the way from a disk with files.
LEMMA OtherTransfersKeep ==
  ASSUME FilesInv, WriteSector \/ SkipData \/ BeyondDrive \/ BeyondStorage
  PROVE  FilesInv'
<1>1. /\ origin' = origin /\ readErrors' = readErrors /\ mem' = mem
      /\ sector' = 1 \/ (sector' = sector + 1 /\ sector < SECTORS)
      /\ tries' \in {0, tries, tries + 1} /\ block' \in {0, block, block + 1}
  <2>1. CASE WriteSector
    BY <2>1 DEF WriteSector, BlockWritten, NextSynced, Start
  <2>2. CASE SkipData
    BY <2>2 DEF SkipData, BlockWritten, NextSynced, Start, history
  <2>3. CASE BeyondDrive
    BY <2>3 DEF BeyondDrive, AttemptFails, Counted, Start, history
  <2>4. CASE BeyondStorage
    BY <2>4 DEF BeyondStorage, Start, history
  <2> QED BY <2>1, <2>2, <2>3, <2>4
<1>2. media' \in [Block -> [Sector -> Content]] /\ cache' \in [Block -> [Sector -> Content]]
  <2>1. CASE WriteSector
    <3> DEFINE c == [cache EXCEPT ![block][sector] = mem[block][sector]]
    <3>1. \E k \in {cache, c} :
            (cache' = k /\ media' = media) \/ (cache' = Nothing /\ media' = Flushed(k))
      BY <2>1 DEF WriteSector, Flush, FlushFails
    <3>2. c \in [Block -> [Sector -> Content]]
      <4>1. block \in Block => mem[block][sector] \in Content
        BY DEF FilesInv, Typed
      <4> QED BY <4>1 DEF FilesInv, Typed
    <3> HIDE DEF c
    <3>3. PICK k \in {cache, c} :
            (cache' = k /\ media' = media) \/ (cache' = Nothing /\ media' = Flushed(k))
      BY <3>1
    <3>4. k \in [Block -> [Sector -> Content]]
      BY <3>2 DEF FilesInv, Typed
    <3>5. Flushed(k) \in [Block -> [Sector -> Content]]
      BY <3>4 DEF Flushed, FilesInv, Typed
    <3> QED BY <3>3, <3>4, <3>5, Shapes DEF FilesInv, Typed
  <2>2. CASE SkipData \/ BeyondDrive \/ BeyondStorage
    BY <2>2 DEF SkipData, BeyondDrive, BeyondStorage, drive, FilesInv, Typed
  <2> QED BY <2>1, <2>2
<1>3. Typed'
  BY <1>1, <1>2, Constants DEF FilesInv, Typed, Sector
<1>4. ASSUME origin = "files", readErrors < MAX_RETRIES
      PROVE  FALSE
  <2>1. Untouched /\ LoadsFind
    BY <1>4 DEF FilesInv
  <2>2. phase \in {"loadSuper", "loadTable"} /\ ~(block \in Block /\ block < size)
    BY <2>1 DEF Untouched, WriteSector, SkipData, BeyondDrive, BeyondStorage, Loading, Transferable
  <2>3. block \in Block /\ block < size
    BY <2>1, <2>2, Constants DEF Untouched, LoadsFind, Block
  <2> QED BY <2>2, <2>3
<1> QED BY <1>1, <1>3, <1>4 DEF FilesInv

\* With nothing in its cache the drive loses nothing.
LEMMA PowerCutKeeps == ASSUME FilesInv, PowerCut PROVE FilesInv'
<1>1. PICK kept \in SUBSET {p \in Block \X Sector : cache[p[1]][p[2]] # "none"} :
        media' = [b \in Block |-> [s \in Sector |-> IF <<b, s>> \in kept THEN cache[b][s] ELSE media[b][s]]]
  BY DEF PowerCut
<1>2. /\ cache' = Nothing /\ mem' = Filled("zero") /\ exists' = FALSE
      /\ phase' = "off" /\ block' = 0 /\ sector' = 1 /\ tries' = 0
      /\ origin' = origin /\ size' = size /\ readErrors' = readErrors
  BY DEF PowerCut, Start, history
<1>3. Typed'
  <2>1. media' \in [Block -> [Sector -> Content]]
    BY <1>1 DEF FilesInv, Typed
  <2>2. "zero" \in Content
    BY DEF Content
  <2> QED BY <2>1, <2>2, <1>2, Shapes, Constants DEF FilesInv, Typed
<1>4. ASSUME origin = "files", readErrors < MAX_RETRIES
      PROVE  Untouched' /\ LoadsFind'
  <2>1. Untouched
    BY <1>4 DEF FilesInv
  <2>2. kept = {}
    BY <2>1 DEF Untouched, Nothing
  <2>3. media' = Filled("files")
    BY <2>1, <2>2, <1>1 DEF Untouched, Filled
  <2> QED BY <2>1, <2>3, <1>2 DEF Untouched, LoadsFind, Filled, Nothing
<1> QED BY <1>2, <1>3, <1>4 DEF FilesInv

LEMMA Stuttering == ASSUME FilesInv, UNCHANGED vars PROVE FilesInv'
BY DEF FilesInv, Typed, Untouched, LoadsFind, vars, drive, transfer, history, Filled, Nothing

-------------------------------------------------------------------------------
LEMMA FilesStep == FilesInv /\ [Next]_vars => FilesInv'
<1> SUFFICES ASSUME FilesInv, [Next]_vars PROVE FilesInv'
  OBVIOUS
<1>1. CASE \/ PowerOn \/ SelfTestPanics \/ SelfTestReturns
           \/ Identify \/ IdentifyFails \/ SecondInit \/ Format \/ Validate
  BY <1>1, OtherSteps
<1>2. CASE ReadSector
  BY <1>2, ReadKeeps
<1>3. CASE DriveFails
  BY <1>3, FailedReadKeeps
<1>4. CASE WriteSector \/ SkipData \/ BeyondDrive \/ BeyondStorage
  BY <1>4, OtherTransfersKeep
<1>5. CASE PowerCut
  BY <1>5, PowerCutKeeps
<1>6. CASE UNCHANGED vars
  BY <1>6, Stuttering
<1> QED BY <1>1, <1>2, <1>3, <1>4, <1>5, <1>6 DEF Next, BootStep

(***************************************************************************)
(* The files on a disk outlive any number of boots and power cuts, as long *)
(* as the drive has not failed as many reads as a block is tried           *)
(* (tagfs_init, ata_read_sectors_retry).                                   *)
(***************************************************************************)
THEOREM FilesAlwaysSurvive == Spec => []FilesSurvive
<1>1. FilesInv => FilesSurvive
  BY DEF FilesInv, Untouched, FilesSurvive
<1> QED BY AtFirst, FilesStep, <1>1, PTL DEF Spec
-------------------------------------------------------------------------------
(***************************************************************************)
(* MountedWhole and MountedIsOnDisk.                                       *)
(*                                                                         *)
(* The argument: while torn is false the disk is as it was at first, or    *)
(* holds what a tagfs_format leaves, with nothing in the drive's cache:    *)
(* tagfs_sync writes what was just formatted, and torn is true until all   *)
(* of it is on the platters.  A load copies the disk, block by block and   *)
(* sector by sector, and a numbered block never lies behind the one the    *)
(* transfer has reached.                                                   *)
(***************************************************************************)
Reached(b, s) == b < block \/ (b = block /\ s < sector)
Same == \A b \in Meta : mem[b] = media[b]
FreshDisk == \A b \in Meta : media[b] = Fresh[b]
Whole == \E fs \in {Fresh, Filled("files")} : \A b \in Meta : mem[b] = fs[b]

DiskInv ==
  /\ origin \in {"image", "zero", "files", "wide", "long"}
  /\ ~torn => /\ phase # "sync" /\ cache = Nothing
              /\ media = Filled(origin) \/ FreshDisk
LoadInv ==
  /\ Loading =>
       /\ exists
       /\ ~torn => \A b \in Block, s \in Sector : Reached(b, s) => mem[b][s] = media[b][s]
  /\ phase = "loadSuper" => block = 0
  /\ phase = "loadTable" => /\ block >= 1 /\ Magic(mem[0][1])
                            /\ mem[0][1] # "wide" => block <= TABLE
SyncWriteInv ==
  phase = "sync" =>
    /\ exists /\ mem = Fresh /\ block \in Block
    /\ ~dropped => \A b \in Meta, s \in Sector : Reached(b, s) => Read(b, s) = Fresh[b][s]
ResultInv ==
  /\ synced # "no" => phase \in {"validate", "mounted"} /\ mem = Fresh
  /\ phase = "validate" =>
       /\ ~exists => mem = Fresh
       /\ exists /\ ~torn => Magic(mem[0][1]) /\ mem[0][1] # "wide" /\ Same
  /\ phase = "mounted" =>
       /\ ~torn => Whole
       /\ exists /\ ~torn /\ media[0][1] # "long" => Same

MountInv == DiskInv /\ LoadInv /\ SyncWriteInv /\ ResultInv

-------------------------------------------------------------------------------
\* What a file system looks like, in memory or on the disk.
LEMMA FreshIs ==
  /\ Fresh[0][1] = "new" /\ \A b \in Meta : b \in Block
  /\ \A b \in Block, s \in Sector : Fresh[b][s] # "none"
  /\ \A c : Filled(c)[0][1] = c
  /\ \A b \in Block, s \in Sector : Nothing[b][s] = "none"
<1>1. Filled("zero") = [b \in Block |-> [s \in Sector |-> "zero"]]
  BY DEF Filled
<1>2. \A b \in Meta : b \in Block
  BY Constants DEF Meta
<1> QED BY <1>1, <1>2, Constants DEF Fresh, Filled, Nothing

\* Blocks are equal when their sectors are.
LEMMA SameSectors ==
  ASSUME NEW f \in [Sector -> Content], NEW g \in [Sector -> Content],
         \A s \in Sector : f[s] = g[s]
  PROVE  f = g
OBVIOUS

LEMMA MountAtFirst == Init => MountInv
<1> SUFFICES ASSUME Init PROVE MountInv
  OBVIOUS
<1>1. origin \in {"image", "zero", "files", "wide", "long"}
  BY DiskAssumption DEF Init
<1> QED BY <1>1 DEF Init, MountInv, DiskInv, LoadInv, SyncWriteInv, ResultInv, Loading

\* The disk is not touched by the steps that begin, or end, a tagfs_init.
LEMMA BeginKeeps ==
  ASSUME Typed, MountInv,
         \/ PowerOn \/ SelfTestPanics \/ SelfTestReturns
         \/ Identify \/ IdentifyFails \/ SecondInit
  PROVE  MountInv'
<1>1. /\ phase' \in {"selftest", "panicked", "detect", "loadSuper", "format"} /\ block' = 0 /\ sector' = 1
      /\ synced' = "no" \/ (phase = "selftest" /\ synced' = synced)
      /\ phase' = "loadSuper" => exists'
      /\ media' = media /\ cache' = cache /\ torn' = torn /\ origin' = origin
  BY DEF PowerOn, SelfTestPanics, SelfTestReturns, SelfTest, Identify, IdentifyFails, SecondInit,
         TagFSInit, Start, drive, history
<1>2. DiskInv'
  BY <1>1 DEF MountInv, DiskInv, FreshDisk, Nothing, Filled, Fresh
<1>3. \A b \in Block, s \in Sector : ~ Reached(b, s)'
  BY <1>1 DEF Reached, Block, Sector
<1>4. LoadInv'
  BY <1>1, <1>3 DEF LoadInv, Loading
<1>5. synced' = "no"
  BY <1>1 DEF MountInv, ResultInv
<1> QED BY <1>1, <1>2, <1>4, <1>5 DEF MountInv, SyncWriteInv, ResultInv

LEMMA FormatMounts ==
  ASSUME Typed, MountInv, Format
  PROVE  MountInv'
<1>1. /\ mem' = Fresh /\ block' = 0 /\ sector' = 1 /\ synced' = synced /\ synced = "no"
      /\ phase' = IF exists THEN "sync" ELSE "validate"
      /\ torn' = (torn \/ exists) /\ exists' = exists
      /\ media' = media /\ cache' = cache /\ origin' = origin
  BY DEF Format, Start, drive, history, MountInv, ResultInv
<1>2. DiskInv'
  BY <1>1 DEF MountInv, DiskInv, FreshDisk, Nothing, Filled, Fresh
<1>3. \A b \in Block, s \in Sector : ~ Reached(b, s)'
  BY <1>1 DEF Reached, Block, Sector
<1>4. LoadInv'
  BY <1>1, <1>3 DEF LoadInv, Loading
<1>5. SyncWriteInv'
  BY <1>1, <1>3, FreshIs, Constants DEF SyncWriteInv, Fresh, Filled
<1>6. ResultInv'
  BY <1>1 DEF ResultInv, Fresh, Filled
<1> QED BY <1>2, <1>4, <1>5, <1>6 DEF MountInv

LEMMA ValidateMounts ==
  ASSUME Typed, MountInv, Validate
  PROVE  MountInv'
<1>1. /\ phase = "validate" /\ phase' = "mounted"
      /\ mem' = IF Valid(mem[0][1]) THEN mem ELSE Fresh
      /\ synced' = synced /\ torn' = torn /\ exists' = exists
      /\ media' = media /\ cache' = cache /\ origin' = origin
  BY DEF Validate, Superblock, Start, drive, history
<1>2. DiskInv'
  BY <1>1 DEF MountInv, DiskInv, FreshDisk, Nothing, Filled, Fresh
<1>3. synced' # "no" => mem' = Fresh
  BY <1>1 DEF MountInv, ResultInv
<1>4. ASSUME ~torn PROVE \E fs \in {Fresh, Filled("files")} : \A b \in Meta : mem'[b] = fs[b]
  <2>1. CASE mem' = Fresh
    BY <2>1
  <2>2. CASE mem' # Fresh
    <3>1. mem' = mem /\ mem[0][1] # "long" /\ exists
      BY <1>1, <2>2 DEF MountInv, ResultInv, Valid
    <3>2. Magic(mem[0][1]) /\ mem[0][1] # "wide" /\ Same
      BY <1>1, <1>4, <3>1 DEF MountInv, ResultInv
    <3>3. media = Filled(origin) \/ FreshDisk
      BY <1>4 DEF MountInv, DiskInv
    <3>4. CASE media = Filled(origin)
      <4>1. mem[0] = media[0]
        BY <3>2, Constants DEF Same, Meta
      <4>2. origin = "files"
        BY <3>1, <3>2, <3>4, <4>1, FreshIs DEF Magic, MountInv, DiskInv
      <4> QED BY <3>1, <3>2, <3>4, <4>2 DEF Same
    <3>5. CASE FreshDisk
      BY <3>1, <3>2, <3>5 DEF FreshDisk, Same
    <3> QED BY <3>3, <3>4, <3>5
  <2> QED BY <2>1, <2>2
<1>5. ASSUME exists, ~torn, media[0][1] # "long" PROVE \A b \in Meta : mem'[b] = media[b]
  <2>1. Same
    BY <1>1, <1>5 DEF MountInv, ResultInv
  <2>2. mem[0] = media[0]
    BY <2>1, Constants DEF Same, Meta
  <2> QED BY <1>1, <1>5, <2>1, <2>2 DEF Valid, Same
<1>6. ResultInv'
  <2>1. ~torn' => Whole'
    BY <1>1, <1>4 DEF Whole, Fresh, Filled
  <2>2. exists' /\ ~torn' /\ media'[0][1] # "long" => Same'
    BY <1>1, <1>5 DEF Same
  <2>3. synced' # "no" => mem' = Fresh'
    BY <1>3 DEF Fresh, Filled
  <2> QED BY <1>1, <2>1, <2>2, <2>3 DEF ResultInv
<1> QED BY <1>1, <1>2, <1>6 DEF MountInv, LoadInv, SyncWriteInv, Loading

\* What a load has reached after the sector it reads is on the disk, too.
LEMMA SectorRead ==
  ASSUME Typed, MountInv, ReadSector, ~torn,
         NEW b \in Block, NEW s \in Sector, Reached(b, s) \/ (b = block /\ s = sector)
  PROVE  mem'[b][s] = media[b][s]
<1>1. /\ Loading /\ block \in Block /\ sector \in Sector
      /\ mem' = [mem EXCEPT ![block][sector] = Read(block, sector)]
  BY DEF ReadSector, Typed
<1>2. CASE b = block /\ s = sector
  <2>1. Read(block, sector) = media[block][sector]
    BY <1>1, FreshIs DEF MountInv, DiskInv, Read
  <2> QED BY <1>1, <1>2, <2>1 DEF Typed
<1>3. CASE ~(b = block /\ s = sector)
  <2>1. mem'[b][s] = mem[b][s]
    BY <1>1, <1>3 DEF Typed
  <2>2. Reached(b, s)
    BY <1>3
  <2> QED BY <1>1, <2>1, <2>2 DEF MountInv, LoadInv
<1> QED BY <1>2, <1>3

LEMMA ReadMounts ==
  ASSUME Typed, Typed', MountInv, ReadSector
  PROVE  MountInv'
<1>1. /\ Loading /\ block \in Block /\ sector \in Sector /\ exists
      /\ mem' = [mem EXCEPT ![block][sector] = Read(block, sector)]
      /\ media' = media /\ cache' = cache /\ torn' = torn /\ origin' = origin
      /\ synced' = synced /\ synced = "no" /\ exists' = exists
  BY DEF ReadSector, Typed, drive, history, MountInv, LoadInv, ResultInv, Loading
<1>2. block >= 1 => mem'[0][1] = mem[0][1]
  BY <1>1, Constants DEF Typed
<1>3. CASE sector < SECTORS
  <2>1. sector' = sector + 1 /\ phase' = phase /\ block' = block
    BY <1>3 DEF ReadSector
  <2>2. \A b \in Block, s \in Sector :
          Reached(b, s)' => Reached(b, s) \/ (b = block /\ s = sector)
    BY <1>1, <2>1 DEF Reached, Block, Sector
  <2>3. ~torn => \A b \in Block, s \in Sector : Reached(b, s)' => mem'[b][s] = media[b][s]
    BY <2>2, SectorRead
  <2>4. DiskInv'
    BY <1>1, <2>1 DEF MountInv, DiskInv, FreshDisk, Nothing, Filled, Fresh
  <2>5. LoadInv'
    BY <1>1, <1>2, <2>1, <2>3 DEF MountInv, LoadInv, Loading
  <2> QED BY <1>1, <2>1, <2>4, <2>5 DEF MountInv, SyncWriteInv, ResultInv, Loading
<1>4. CASE ~(sector < SECTORS)
  <2>1. BlockRead /\ sector = SECTORS
    <3>1. BlockRead
      BY <1>4 DEF ReadSector
    <3>2. sector = SECTORS
      BY <1>1, <1>4, Constants DEF Sector
    <3> QED BY <3>1, <3>2
  <2>2. sector' = 1 /\ phase' \in {"loadTable", "format", "validate"}
    BY <2>1 DEF BlockRead, Start
  <2>3. DiskInv'
    BY <1>1, <2>2 DEF MountInv, DiskInv, FreshDisk, Nothing, Filled, Fresh
  <2>4. ASSUME ~torn, NEW b \in Block, b <= block, NEW s \in Sector
        PROVE  mem'[b][s] = media[b][s]
    <3>1. Reached(b, s) \/ (b = block /\ s = sector)
      BY <1>1, <2>1, <2>4 DEF Reached, Block, Sector
    <3> QED BY <2>4, <3>1, SectorRead
  <2>5. CASE phase = "loadSuper"
    <3>1. /\ block = 0 /\ block' = 1
          /\ phase' = IF Magic(mem'[0][1]) THEN "loadTable" ELSE "format"
      BY <2>1, <2>5 DEF BlockRead, Start, MountInv, LoadInv
    <3>2. \A b \in Block, s \in Sector : Reached(b, s)' => b <= block
      BY <2>2, <3>1 DEF Reached, Block, Sector
    <3>3. LoadInv'
      BY <1>1, <2>2, <2>4, <3>1, <3>2, Constants DEF LoadInv, Loading
    <3> QED BY <1>1, <2>3, <3>1, <3>3 DEF MountInv, SyncWriteInv, ResultInv
  <2>6. CASE phase = "loadTable"
    <3>1. /\ block' = block + 1
          /\ phase' = IF block + 1 < TableEnd(mem'[0][1]) THEN "loadTable" ELSE "validate"
      BY <2>1, <2>6 DEF BlockRead, Start, MoreToLoad
    <3>2. block >= 1 /\ Magic(mem'[0][1]) /\ mem'[0][1] = mem[0][1]
      BY <1>2, <2>6 DEF MountInv, LoadInv
    <3>3. CASE block + 1 < TableEnd(mem'[0][1])
      <4>1. \A b \in Block, s \in Sector : Reached(b, s)' => b <= block
        BY <1>1, <2>2, <3>1 DEF Reached, Block, Sector
      <4>2. mem'[0][1] # "wide" => block' <= TABLE
        BY <1>1, <3>1, <3>3, Constants DEF TableEnd, Block
      <4>3. LoadInv'
        BY <1>1, <2>4, <3>1, <3>2, <3>3, <4>1, <4>2 DEF LoadInv, Loading, Block
      <4> QED BY <1>1, <2>3, <3>1, <3>3, <4>3 DEF MountInv, SyncWriteInv, ResultInv
    <3>4. CASE ~(block + 1 < TableEnd(mem'[0][1]))
      <4>1. mem'[0][1] # "wide" /\ block >= TABLE
        BY <1>1, <3>4, Constants DEF TableEnd, Block
      <4>2. ASSUME ~torn, NEW b \in Meta PROVE mem'[b] = media[b]
        <5>1. b \in Block /\ b <= block
          BY <1>1, <4>1, <4>2, Constants, FreshIs DEF Meta, Block
        <5>2. \A s \in Sector : mem'[b][s] = media[b][s]
          BY <2>4, <4>2, <5>1
        <5>3. mem'[b] \in [Sector -> Content] /\ media[b] \in [Sector -> Content]
          BY <5>1 DEF Typed
        <5> QED BY <5>2, <5>3, SameSectors
      <4>3. ~torn => Same'
        BY <1>1, <4>2 DEF Same
      <4>4. ResultInv'
        BY <1>1, <3>1, <3>2, <3>4, <4>1, <4>3 DEF ResultInv
      <4> QED BY <2>3, <3>1, <3>4, <4>4 DEF MountInv, LoadInv, SyncWriteInv, Loading
    <3> QED BY <3>3, <3>4
  <2> QED BY <1>1, <2>5, <2>6 DEF Loading
<1> QED BY <1>3, <1>4

\* A transfer that fails begins the block again, or ends in a format, or in a
\* tagfs_sync whose torn disk nobody claims to be whole.
LEMMA FailedTransferMounts ==
  ASSUME Typed, MountInv, DriveFails \/ BeyondDrive \/ BeyondStorage
  PROVE  MountInv'
<1>1. /\ mem' = mem /\ media' = media /\ cache' = cache /\ exists' = exists
      /\ torn' = torn /\ dropped' = dropped /\ origin' = origin
      /\ Loading \/ phase = "sync"
  BY DEF DriveFails, BeyondDrive, BeyondStorage, drive, history
<1>2. synced = "no" /\ exists
  BY <1>1 DEF MountInv, ResultInv, Loading, LoadInv, SyncWriteInv
<1>3. \/ sector' = 1 /\ phase' = phase /\ block' = block /\ synced' = synced
      \/ Loading /\ phase' = "format" /\ synced' = synced
      \/ phase = "sync" /\ phase' = "validate" /\ synced' = "failed"
  BY <1>1 DEF DriveFails, BeyondDrive, BeyondStorage, AttemptFails, Start
<1>4. DiskInv'
  BY <1>1, <1>3 DEF MountInv, DiskInv, FreshDisk, Nothing, Filled, Fresh, Loading
<1>5. CASE sector' = 1 /\ phase' = phase /\ block' = block /\ synced' = synced
  <2>1. \A b \in Block, s \in Sector : Reached(b, s)' => Reached(b, s)
    BY <1>5 DEF Reached, Typed, Block, Sector
  <2>2. LoadInv'
    BY <1>1, <1>5, <2>1 DEF MountInv, LoadInv, Loading
  <2>3. SyncWriteInv'
    BY <1>1, <1>5, <2>1, FreshIs DEF MountInv, SyncWriteInv, Read, Fresh, Filled
  <2> QED BY <1>1, <1>2, <1>4, <1>5, <2>2, <2>3 DEF MountInv, ResultInv, Loading
<1>6. CASE Loading /\ phase' = "format" /\ synced' = synced
  BY <1>2, <1>4, <1>6 DEF MountInv, LoadInv, SyncWriteInv, ResultInv, Loading
<1>7. CASE phase = "sync" /\ phase' = "validate" /\ synced' = "failed"
  <2>1. torn /\ mem = Fresh
    BY <1>7 DEF MountInv, DiskInv, SyncWriteInv
  <2> QED BY <1>1, <1>2, <1>4, <1>7, <2>1
          DEF MountInv, LoadInv, SyncWriteInv, ResultInv, Loading, Fresh, Filled
<1> QED BY <1>3, <1>5, <1>6, <1>7

\* tagfs_sync goes on, or ends: then what it wrote is on the platters unless
\* the drive still has some of it in its cache, or has dropped some.
LEMMA BlockWrittenMounts ==
  ASSUME Typed, Typed', MountInv, phase = "sync", BlockWritten, block \in Block,
         mem' = mem, exists' = exists, origin' = origin,
         ~dropped' => \A b \in Meta : b <= block => \A s \in Sector : Read(b, s)' = Fresh[b][s]
  PROVE  MountInv'
<1>1. exists /\ mem = Fresh /\ synced = "no" /\ torn
  BY DEF MountInv, DiskInv, SyncWriteInv, ResultInv
<1>2. CASE block + 1 < MEM_BLOCKS
  <2>1. /\ phase' = "sync" /\ block' = block + 1 /\ sector' = 1
        /\ synced' = synced /\ torn' = torn
    BY <1>2 DEF BlockWritten, NextSynced, Start
  <2>2. \A b \in Meta, s \in Sector : Reached(b, s)' => b <= block
    BY <2>1 DEF Reached, Block, Sector, Meta
  <2>3. SyncWriteInv'
    <3>1. block + 1 \in Block
      BY <1>2, Constants DEF Block
    <3>2. ~dropped' =>
            \A b \in Meta, s \in Sector : Reached(b, s)' => Read(b, s)' = Fresh[b][s]
      BY <2>2
    <3> QED BY <1>1, <2>1, <3>1, <3>2 DEF SyncWriteInv, Fresh, Filled
  <2> QED BY <1>1, <2>1, <2>3 DEF MountInv, DiskInv, LoadInv, ResultInv, Loading
<1>3. CASE ~(block + 1 < MEM_BLOCKS)
  <2>1. phase' = "validate" /\ synced' = "ok" /\ torn' = (cache' # Nothing \/ dropped')
    BY <1>3 DEF BlockWritten, NextSynced, Start
  <2>2. ASSUME ~torn', NEW b \in Meta PROVE media'[b] = Fresh[b]
    <3>1. b \in Block /\ b <= block
      BY <1>3, Constants, FreshIs DEF Meta, Block
    <3>2. cache' = Nothing /\ ~dropped'
      BY <2>1, <2>2
    <3>3. \A s \in Sector : media'[b][s] = Fresh[b][s]
      <4>1. \A s \in Sector : Read(b, s)' = Fresh[b][s]
        BY <3>1, <3>2
      <4>2. \A s \in Sector : cache'[b][s] = "none"
        BY <3>1, <3>2, FreshIs
      <4> QED BY <4>1, <4>2 DEF Read
    <3>4. media'[b] \in [Sector -> Content] /\ Fresh[b] \in [Sector -> Content]
      BY <3>1, Shapes DEF Typed
    <3> QED BY <3>3, <3>4, SameSectors
  <2>3. DiskInv'
    <3>1. ~torn' => FreshDisk'
      BY <2>2 DEF FreshDisk, Fresh, Filled
    <3>2. ~torn' => cache' = Nothing'
      BY <2>1 DEF Nothing
    <3> QED BY <2>1, <3>1, <3>2 DEF MountInv, DiskInv
  <2>4. ResultInv'
    <3>1. ~torn' => Same'
      BY <1>1, <2>2 DEF Same
    <3>2. mem'[0][1] = "new" /\ mem' = Fresh'
      BY <1>1, FreshIs DEF Fresh, Filled
    <3> QED BY <1>1, <2>1, <3>1, <3>2 DEF ResultInv, Magic
  <2> QED BY <2>1, <2>3, <2>4 DEF MountInv, LoadInv, SyncWriteInv, Loading
<1> QED BY <1>2, <1>3

LEMMA SkipMounts ==
  ASSUME Typed, Typed', MountInv, SkipData
  PROVE  MountInv'
<1>1. /\ phase = "sync" /\ block > TABLE /\ BlockWritten /\ block \in Block
      /\ media' = media /\ cache' = cache /\ mem' = mem /\ exists' = exists
      /\ origin' = origin /\ dropped' = dropped
  BY DEF SkipData, drive, history, MountInv, SyncWriteInv
<1>2. ASSUME ~dropped, NEW b \in Meta, NEW s \in Sector PROVE Read(b, s)' = Fresh[b][s]
  <2>1. Reached(b, s)
    BY <1>1, Constants DEF Reached, Meta, Block
  <2>2. Read(b, s) = Fresh[b][s]
    BY <1>1, <1>2, <2>1 DEF MountInv, SyncWriteInv
  <2> QED BY <1>1, <2>2 DEF Read
<1> QED BY <1>1, <1>2, BlockWrittenMounts

\* After the step the drive holds one sector more, in its cache or, with the
\* last sector of a block, on the platters.
LEMMA WriteMounts ==
  ASSUME Typed, Typed', MountInv, WriteSector
  PROVE  MountInv'
<1>1. /\ phase = "sync" /\ exists /\ mem = Fresh /\ synced = "no" /\ torn
      /\ block \in Block /\ sector \in Sector
      /\ mem' = mem /\ exists' = exists /\ origin' = origin
  BY DEF WriteSector, MountInv, DiskInv, SyncWriteInv, ResultInv, Typed
<1>2. PICK c : c = [cache EXCEPT ![block][sector] = mem[block][sector]]
  OBVIOUS
<1>3. \/ /\ sector < SECTORS /\ cache' = c /\ media' = media
         /\ sector' = sector + 1 /\ phase' = phase /\ block' = block
         /\ synced' = synced /\ torn' = torn /\ dropped' = dropped
      \/ /\ sector = SECTORS /\ cache' = Nothing /\ media' = Flushed(c)
         /\ BlockWritten /\ dropped' = dropped
      \/ /\ sector = SECTORS /\ cache' = c /\ media' = media
         /\ BlockWritten /\ dropped' = dropped
      \/ sector = SECTORS /\ dropped' /\ BlockWritten
  BY <1>2 DEF WriteSector, Flush, FlushFails
<1>4. ASSUME ~dropped', NEW b \in Block, NEW s \in Sector
      PROVE  Read(b, s)' = IF b = block /\ s = sector THEN Fresh[b][s] ELSE Read(b, s)
  <2>1. c[b][s] = IF b = block /\ s = sector THEN Fresh[b][s] ELSE cache[b][s]
    BY <1>1, <1>2 DEF Typed
  <2>2. Read(b, s)' = IF c[b][s] = "none" THEN media[b][s] ELSE c[b][s]
    <3>1. CASE cache' = c /\ media' = media
      BY <3>1 DEF Read
    <3>2. CASE cache' = Nothing /\ media' = Flushed(c)
      <4>1. cache'[b][s] = "none"
        BY <3>2, FreshIs
      <4>2. media'[b][s] = IF c[b][s] = "none" THEN media[b][s] ELSE c[b][s]
        BY <3>2 DEF Flushed
      <4> QED BY <4>1, <4>2 DEF Read
    <3> QED BY <1>3, <1>4, <3>1, <3>2
  <2>3. Fresh[b][s] # "none"
    BY FreshIs
  <2> QED BY <2>1, <2>2, <2>3 DEF Read
<1>5. ASSUME ~dropped', NEW b \in Meta, NEW s \in Sector,
             Reached(b, s) \/ (b = block /\ s = sector)
      PROVE  Read(b, s)' = Fresh[b][s]
  <2>1. b \in Block /\ ~dropped
    BY <1>3, <1>5, FreshIs
  <2>2. Reached(b, s) => Read(b, s) = Fresh[b][s]
    BY <1>1, <2>1 DEF MountInv, SyncWriteInv
  <2> QED BY <1>4, <1>5, <2>1, <2>2
<1>6. CASE /\ sector < SECTORS /\ sector' = sector + 1 /\ phase' = phase /\ block' = block
           /\ synced' = synced /\ torn' = torn
  <2>1. \A b \in Meta, s \in Sector :
          Reached(b, s)' => Reached(b, s) \/ (b = block /\ s = sector)
    BY <1>1, <1>6 DEF Reached, Block, Sector, Meta
  <2>2. ~dropped' => \A b \in Meta, s \in Sector : Reached(b, s)' => Read(b, s)' = Fresh[b][s]
    BY <1>5, <2>1
  <2>3. SyncWriteInv'
    BY <1>1, <1>6, <2>2 DEF SyncWriteInv, Fresh, Filled
  <2> QED BY <1>1, <1>6, <2>3 DEF MountInv, DiskInv, LoadInv, ResultInv, Loading
<1>7. CASE sector = SECTORS /\ BlockWritten
  <2>1. ASSUME ~dropped', NEW b \in Meta, b <= block, NEW s \in Sector
        PROVE  Read(b, s)' = Fresh[b][s]
    <3>1. Reached(b, s) \/ (b = block /\ s = sector)
      BY <1>1, <1>7, <2>1, Constants DEF Reached, Block, Sector, Meta
    <3> QED BY <1>5, <2>1, <3>1
  <2> QED BY <1>1, <1>7, <2>1, BlockWrittenMounts
<1> QED BY <1>3, <1>6, <1>7

\* With nothing in its cache the drive loses nothing.
LEMMA PowerCutMounts ==
  ASSUME Typed, Typed', MountInv, PowerCut
  PROVE  MountInv'
<1>1. PICK kept \in SUBSET {p \in Block \X Sector : cache[p[1]][p[2]] # "none"} :
        media' = [b \in Block |-> [s \in Sector |-> IF <<b, s>> \in kept THEN cache[b][s] ELSE media[b][s]]]
  BY DEF PowerCut
<1>2. /\ cache' = Nothing /\ phase' = "off" /\ synced' = "no"
      /\ torn' = torn /\ origin' = origin
  BY DEF PowerCut, Start, history
<1>3. ~torn => media' = media
  <2>1. ASSUME ~torn PROVE media' = media
    <3>1. kept = {}
      BY <2>1, FreshIs DEF MountInv, DiskInv
    <3>2. media' = [b \in Block |-> [s \in Sector |-> media[b][s]]]
      BY <1>1, <3>1
    <3> QED BY <3>2 DEF Typed
  <2> QED BY <2>1
<1>4. DiskInv'
  <2>1. UNCHANGED <<Nothing, Filled(origin)>> /\ (media' = media => FreshDisk' = FreshDisk)
    BY <1>2 DEF Nothing, Filled, FreshDisk, Fresh
  <2> QED BY <1>2, <1>3, <2>1 DEF MountInv, DiskInv
<1> QED BY <1>2, <1>4 DEF MountInv, LoadInv, SyncWriteInv, ResultInv, Loading

LEMMA StutteringMounts ==
  ASSUME MountInv, UNCHANGED vars
  PROVE  MountInv'
<1>1. UNCHANGED <<media, cache, mem, exists, phase, block, sector, synced, dropped, torn, origin>>
  BY DEF vars, drive, transfer, history
<1>2. UNCHANGED <<Same, Whole, FreshDisk, Nothing, Filled(origin)>>
  BY <1>1 DEF Same, Whole, FreshDisk, Nothing, Filled, Fresh
<1>3. \A b, s : (Reached(b, s)' <=> Reached(b, s)) /\ Read(b, s)' = Read(b, s)
  BY <1>1 DEF Reached, Read
<1> QED BY <1>1, <1>2, <1>3
        DEF MountInv, DiskInv, LoadInv, SyncWriteInv, ResultInv, Loading, Fresh, Filled

LEMMA MountStep == FilesInv /\ FilesInv' /\ MountInv /\ [Next]_vars => MountInv'
<1> SUFFICES ASSUME FilesInv, FilesInv', MountInv, [Next]_vars PROVE MountInv'
  OBVIOUS
<1>1. Typed /\ Typed'
  BY DEF FilesInv
<1>2. CASE \/ PowerOn \/ SelfTestPanics \/ SelfTestReturns
           \/ Identify \/ IdentifyFails \/ SecondInit
  BY <1>1, <1>2, BeginKeeps
<1>3. CASE Format \/ Validate
  BY <1>1, <1>3, FormatMounts, ValidateMounts
<1>4. CASE ReadSector
  BY <1>1, <1>4, ReadMounts
<1>5. CASE DriveFails \/ BeyondDrive \/ BeyondStorage
  BY <1>1, <1>5, FailedTransferMounts
<1>6. CASE WriteSector \/ SkipData
  BY <1>1, <1>6, WriteMounts, SkipMounts
<1>7. CASE PowerCut
  BY <1>1, <1>7, PowerCutMounts
<1>8. CASE UNCHANGED vars
  BY <1>8, StutteringMounts
<1> QED BY <1>2, <1>3, <1>4, <1>5, <1>6, <1>7, <1>8 DEF Next, BootStep

\* Every boot mounts one whole file system, the one it found or a fresh one,
\* unless a tagfs_sync of an earlier boot was cut short (tagfs_init).
THEOREM MountsAreWhole == Spec => []MountedWhole
<1>1. MountInv => MountedWhole
  BY DEF MountInv, ResultInv, Whole, MountedWhole
<1> QED BY <1>1, AtFirst, FilesStep, MountAtFirst, MountStep, PTL DEF Spec

\* What a boot mounts is on the platters, for the next boot to find (tagfs_sync,
\* tagfs_load_inode_table).
THEOREM MountsAreOnDisk == Spec => []MountedIsOnDisk
<1>1. MountInv => MountedIsOnDisk
  BY DEF MountInv, ResultInv, Same, MountedIsOnDisk
<1> QED BY <1>1, AtFirst, FilesStep, MountAtFirst, MountStep, PTL DEF Spec

===============================================================================
