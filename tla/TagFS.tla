------------------------------- MODULE TagFS -------------------------------
(***************************************************************************)
(* The file system: inodes with tags, data blocks found through a bitmap,  *)
(* an index from tags to files, and the disk it is loaded from.            *)
(*                                                                         *)
(* The operators are the functions of tagfs.c, from the state m of the     *)
(* file system to the next one; StorageDeck makes actions of them.  The    *)
(* block size is counted in bytes that can be told apart, UNITS of them.   *)
(* Left out: files that need an indirect block, which the file system is   *)
(* too small for (TagFSAssumption), times, statistics, and inode slots     *)
(* whose structure lies outside the inode table.                           *)
(***************************************************************************)
EXTENDS Integers, Sequences, FiniteSets, SequencesExt

CONSTANTS
  TOTAL_BLOCKS,      \* TAGFS_MEM_BLOCKS
  DATA_START,        \* data_blocks_start: the blocks before it are reserved
  UNITS,             \* TAGFS_BLOCK_SIZE
  DIRECT,            \* direct pointers of an inode
  INODES,            \* total_inodes
  INODE_BITS,        \* bits of the memory kmalloc gives for the inode bitmap
  MAX_TAGS,          \* TAGFS_MAX_TAGS_PER_FILE
  MAX_TAG_INDEX,     \* TAGFS_MAX_TAG_INDEX
  MAX_RESULTS,       \* results of a query
  MAX_FILES,         \* TAGFS_MAX_FILES: ids a query has scratch memory for
  Tags,              \* pairs <<key, value>>
  Bytes,             \* what a file may hold
  HAS_DISK           \* ata_primary_master.exists

Block == 0 .. TOTAL_BLOCKS - 1
DataBlocks == DATA_START .. TOTAL_BLOCKS - 1
Slot == 0 .. INODES - 1
BAD == -1            \* (uint64_t)-1, the failure of tagfs_alloc_block
TRASHED == <<"trashed", "true">>

ASSUME TagFSAssumption ==
  /\ {TOTAL_BLOCKS, DATA_START, UNITS, DIRECT, INODES} \subseteq Nat \ {0}
  /\ {MAX_TAGS, MAX_TAG_INDEX, MAX_RESULTS, MAX_FILES} \subseteq Nat \ {0}
  /\ DATA_START <= TOTAL_BLOCKS /\ INODE_BITS \in Nat /\ INODES <= INODE_BITS /\ INODES <= MAX_FILES
  /\ Cardinality(DataBlocks) < DIRECT       \* 10 blocks, 12 pointers
  /\ HAS_DISK \in BOOLEAN

ZERO == "zero"
NoInode == [id |-> 0, tags |-> << >>, size |-> 0, direct |-> [i \in 0 .. DIRECT - 1 |-> 0]]
NewInode(id, tags) == [NoInode EXCEPT !.id = id, !.tags = tags]

(***************************************************************************)
(* tagfs_format, what tagfs_sync leaves on the disk of a freshly formatted *)
(* file system, and tagfs_init.  Nothing calls tagfs_sync later.           *)
(***************************************************************************)
Formatted ==
  [table |-> [i \in Slot |-> NoInode],
   freeBlocks |-> TOTAL_BLOCKS - DATA_START, freeInodes |-> INODES]

\* tagfs_index_add_file: a tag gets an entry while there is room for entries.
AddToEntry(index, id, t) ==
  IF t \in DOMAIN index
  THEN IF \E k \in DOMAIN index[t] : index[t][k] = id THEN index
       ELSE [index EXCEPT ![t] = Append(@, id)]
  ELSE IF Cardinality(DOMAIN index) >= MAX_TAG_INDEX THEN index
  ELSE [u \in DOMAIN index \cup {t} |-> IF u = t THEN <<id>> ELSE index[u]]
IndexAddFile(index, id, tags) ==
  LET ix[k \in 0 .. Len(tags)] ==
        IF k = 0 THEN index ELSE AddToEntry(ix[k - 1], id, tags[k])
  IN  ix[Len(tags)]

\* tagfs_index_rebuild, by the order of the slots.
IndexRebuild(meta) ==
  LET ix[k \in 0 .. INODES] ==
        IF k = 0 THEN << >>
        ELSE IF meta.table[k - 1].id = 0 THEN ix[k - 1]
        ELSE IndexAddFile(ix[k - 1], meta.table[k - 1].id, meta.table[k - 1].tags)
  IN  IF meta.freeInodes = INODES THEN << >> ELSE ix[INODES]

\* The superblock and the inode table come from the disk, the blocks' contents
\* do not; the bitmaps and the counter of ids start anew.
Booted(meta) ==
  [used |-> 0 .. DATA_START - 1, freeBlocks |-> meta.freeBlocks,
   bits |-> {}, freeInodes |-> meta.freeInodes,
   table |-> meta.table, index |-> IndexRebuild(meta), nextId |-> 1,
   storage |-> [b \in DataBlocks |-> [u \in 0 .. UNITS - 1 |-> ZERO]],
   stopped |-> "no"]
Boot(disk) == Booted(IF HAS_DISK THEN disk ELSE Formatted)

(***************************************************************************)
(* Inodes and blocks.                                                      *)
(***************************************************************************)
FileIds(m) == {m.table[s].id : s \in Slot} \ {0}
SlotOf(m, id) == Min({s \in Slot : m.table[s].id = id})
File(m, id) == m.table[SlotOf(m, id)]

\* Mutant: the bit of the block that was found is not set.
AllocUnmarked(m, s, i) ==
  LET free == Block \ m.used
  IN  IF free = {} THEN [m EXCEPT !.table[s].direct[i] = BAD]
      ELSE [m EXCEPT !.freeBlocks = @ - 1, !.table[s].direct[i] = Min(free)]

\* tagfs_alloc_block for pointer i of slot s.  A failure is stored like a block.
AllocBlock(m, s, i) ==
  LET free == Block \ m.used
      b == Min(free)
  IN  IF free = {} THEN [m EXCEPT !.table[s].direct[i] = BAD]
      ELSE [m EXCEPT !.used = @ \cup {b}, !.freeBlocks = @ - 1,
                     !.storage[b] = [u \in 0 .. UNITS - 1 |-> ZERO],
                     !.table[s].direct[i] = b]
AllocByIndex(m, s, i) == IF m.table[s].direct[i] = 0 THEN AllocBlock(m, s, i) ELSE m

(***************************************************************************)
(* tagfs_read_file: the bytes from offset on, at most n, to the end of the *)
(* file or the first block that is not one.                                *)
(***************************************************************************)
Pointer(f, at) == f.direct[at \div UNITS]
ByteAt(m, f, at) == IF Pointer(f, at) = 0 THEN ZERO ELSE m.storage[Pointer(f, at)][at % UNITS]
ReadFile(m, id, offset, n) ==
  LET f == File(m, id)
      end == Min({offset + n, f.size})
      upTo == {e \in offset .. end : \A at \in offset .. e - 1 : Pointer(f, at) # BAD}
  IN  IF offset >= f.size THEN << >>
      ELSE [k \in 1 .. Max(upTo) - offset |-> ByteAt(m, f, offset + k - 1)]

(***************************************************************************)
(* tagfs_write_file.  What was written before a block cannot be had stays, *)
(* and counts for the size.                                                *)
(***************************************************************************)
\* Mutant: the offset in the block is taken from the buffer.
PutAtBufferOffset(w, s, at, byte, b) ==
  IF b = BAD THEN [w EXCEPT !.ok = FALSE]
  ELSE [w EXCEPT !.m.storage[b][w.done % UNITS] = byte, !.done = @ + 1]

PutByte(w, s, at, byte, b) ==
  IF b = BAD THEN [w EXCEPT !.ok = FALSE]
  ELSE [w EXCEPT !.m.storage[b][at % UNITS] = byte, !.done = @ + 1]
WriteByte(w, s, at, byte) ==
  LET got == [w EXCEPT !.m = AllocByIndex(@, s, at \div UNITS)]
  IN  PutByte(got, s, at, byte, Pointer(got.m.table[s], at))
WriteNext(w, s, offset, byte) ==
  IF w.ok THEN WriteByte(w, s, offset + w.done, byte) ELSE w
WriteBytes(m, s, offset, data) ==
  LET w[k \in 0 .. Len(data)] ==
        IF k = 0 THEN [m |-> m, done |-> 0, ok |-> TRUE]
        ELSE WriteNext(w[k - 1], s, offset, data[k])
  IN  w[Len(data)]

\* Mutant: the size grows by what was asked for.
GrownByRequest(w, s, offset, data) ==
  [w EXCEPT !.m.table[s].size = Max({@, offset + Len(data)})]

Grown(w, s, offset, data) == [w EXCEPT !.m.table[s].size = Max({@, offset + w.done})]
WriteFile(m, id, offset, data) ==
  Grown(WriteBytes(m, SlotOf(m, id), offset, data), SlotOf(m, id), offset, data)

(***************************************************************************)
(* tagfs_create_file: [m, id], id 0 when it fails.  The bit found in the   *)
(* bitmap says nothing of which slot is taken.                             *)
(***************************************************************************)
Insert(m, id, tags) ==
  LET empty == {s \in Slot : m.table[s].id = 0}
  IN  IF empty = {} THEN [m |-> m, id |-> 0]
      ELSE [m |-> [m EXCEPT !.table[Min(empty)] = NewInode(id, tags),
                            !.index = IndexAddFile(@, id, tags)],
            id |-> id]
CreateFile(m, tags) ==
  LET free == Slot \ m.bits
  IN  IF Len(tags) > MAX_TAGS \/ free = {} THEN [m |-> m, id |-> 0]
      ELSE Insert([m EXCEPT !.bits = @ \cup {Min(free)}, !.freeInodes = @ - 1,
                            !.nextId = @ + 1],
                  m.nextId + 1, tags)

(***************************************************************************)
(* Tags.  Trash and restore are the tag trashed:true.                      *)
(***************************************************************************)
HasTag(m, id, t) == id \in FileIds(m) /\ \E k \in DOMAIN File(m, id).tags : File(m, id).tags[k] = t

AddTag(m, id, t) ==
  IF id \notin FileIds(m) \/ Len(File(m, id).tags) >= MAX_TAGS \/ HasTag(m, id, t) THEN m
  ELSE [m EXCEPT !.table[SlotOf(m, id)].tags = Append(@, t),
                 !.index = IndexAddFile(@, id, <<t>>)]

\* The first tag with this key goes; the index keeps it.
RemoveTag(m, id, key) ==
  LET keyed == {k \in DOMAIN File(m, id).tags : File(m, id).tags[k][1] = key}
  IN  IF id \notin FileIds(m) \/ keyed = {} THEN m
      ELSE [m EXCEPT !.table[SlotOf(m, id)].tags = RemoveAt(@, Min(keyed))]

(***************************************************************************)
(* tagfs_erase_file.  Blocks are freed in the order of the pointers, and a *)
(* failure stored among them sends bitmap_clear_bit out of memory.  The    *)
(* bit cleared in the inode bitmap is that of the id, not of the slot: an  *)
(* id past the bitmap clears a bit of whatever the heap holds there.       *)
(***************************************************************************)
IndexRemoveFile(index, id) ==
  [t \in DOMAIN index |->
     LET at == {k \in DOMAIN index[t] : index[t][k] = id}
     IN  IF at = {} THEN index[t] ELSE RemoveAt(index[t], Min(at))]

\* Mutant: the file stays in the index.
EraseUnindexed(m, id) ==
  LET blocks == {File(m, id).direct[i] : i \in 0 .. DIRECT - 1} \ {0}
  IN  [m EXCEPT !.used = @ \ blocks, !.freeBlocks = @ + Cardinality(blocks),
                !.table[SlotOf(m, id)] = NoInode,
                !.bits = @ \ {id}, !.freeInodes = @ + 1]

EraseFile(m, id) ==
  LET blocks == {File(m, id).direct[i] : i \in 0 .. DIRECT - 1} \ {0}
  IN  IF id \notin FileIds(m) THEN m
      ELSE IF BAD \in blocks THEN [m EXCEPT !.stopped = "no such block"]
      ELSE IF id >= INODE_BITS THEN [m EXCEPT !.stopped = "no such bit"]
      ELSE [m EXCEPT !.used = @ \ blocks, !.freeBlocks = @ + Cardinality(blocks),
                     !.index = IndexRemoveFile(@, id),
                     !.table[SlotOf(m, id)] = NoInode,
                     !.bits = @ \ {id}, !.freeInodes = @ + 1]

(***************************************************************************)
(* Queries.  A single query trusts the index; a conjunction trusts it for  *)
(* its first tag and looks at the files for the others; a disjunction      *)
(* marks the ids it has seen, those that it has marks for.                 *)
(***************************************************************************)
Cut(ids, n) == SubSeq(ids, 1, Min({n, Len(ids)}))
QuerySingle(m, t) ==
  IF t \in DOMAIN m.index THEN [ret |-> 1, ids |-> Cut(m.index[t], MAX_RESULTS)]
  ELSE [ret |-> 0, ids |-> << >>]

Keep(found, id, S) == IF id \in S THEN Append(found, id) ELSE found
Kept(ids, S) ==
  LET q[k \in 0 .. Len(ids)] == IF k = 0 THEN << >> ELSE Keep(q[k - 1], ids[k], S)
  IN  q[Len(ids)]
QueryAnd(m, tags) ==
  LET candidates == Cut(IF tags[1] \in DOMAIN m.index THEN m.index[tags[1]] ELSE << >>, MAX_FILES)
      fit == {id \in ToSet(candidates) : \A k \in 2 .. Len(tags) : HasTag(m, id, tags[k])}
  IN  Cut(Kept(candidates, fit), MAX_RESULTS)

See(found, id) ==
  IF id < MAX_FILES /\ id \notin ToSet(found) THEN Append(found, id) ELSE found
Seen(found, ids) ==
  LET q[k \in 0 .. Len(ids)] == IF k = 0 THEN found ELSE See(q[k - 1], ids[k])
  IN  q[Len(ids)]
\* Mutant: each tag begins the list anew.
QueryOrOfLast(m, tags) ==
  Cut(Seen(<< >>, QuerySingle(m, tags[Len(tags)]).ids), MAX_RESULTS)

QueryOr(m, tags) ==
  LET q[k \in 0 .. Len(tags)] ==
        IF k = 0 THEN << >> ELSE Seen(q[k - 1], QuerySingle(m, tags[k]).ids)
  IN  Cut(q[Len(tags)], MAX_RESULTS)

\* tagfs_find_by_name, with no user context set: 0 when there is none.
FindByName(m, name) ==
  LET q == QuerySingle(m, <<"name", name>>)
      fit == {k \in DOMAIN q.ids : ~HasTag(m, q.ids[k], TRASHED)}
  IN  IF q.ret # 0 \/ fit = {} THEN 0 ELSE q.ids[Min(fit)]
===============================================================================
