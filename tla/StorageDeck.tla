----------------------------- MODULE StorageDeck -----------------------------
(***************************************************************************)
(* The storage deck's file events, with its table of descriptors, and the  *)
(* other callers of TagFS: the shell's commands and whoever calls tagfs.h. *)
(* The deck takes one event at a time and the shell runs on the same       *)
(* thread, so each is one action.  Callers pass ids they were given once,  *)
(* also of files that are gone.  The memory events of the deck are calls   *)
(* of module VMM.                                                          *)
(***************************************************************************)
EXTENDS TagFS

CONSTANTS
  MAX_OPEN_FILES,
  Names,        \* paths callers open
  TagLists,     \* tags callers create a file with
  Chunks,       \* what callers write in one call
  MaxId         \* bound: ids given out before a restart

ASSUME StorageAssumption ==
  /\ MAX_OPEN_FILES \in Nat \ {0} /\ MaxId \in Nat \ {0}
  /\ \A tags \in TagLists : tags \in Seq(ToSet(tags))
  /\ \A data \in Chunks : data \in Seq(Bytes)

VARIABLES
  fs,       \* the state of TagFS
  disk,     \* what was written to the disk
  fdTable   \* the descriptors in use, by slot; their numbers never come back

vars == <<fs, disk, fdTable>>

FdSlot == 0 .. MAX_OPEN_FILES - 1
Issued == 2 .. fs.nextId

Init ==
  /\ disk = Formatted /\ fs = Boot(Formatted)
  /\ fdTable = << >>

\* The machine is reset and boots again.
Restart ==
  /\ fs' = Boot(disk)
  /\ fdTable' = << >>
  /\ UNCHANGED disk

-------------------------------------------------------------------------------
(***************************************************************************)
(* Descriptors.                                                            *)
(***************************************************************************)
UnusedSlots == FdSlot \ DOMAIN fdTable

\* allocate_fd.
AllocateFd(id) ==
  IF UnusedSlots = {} THEN UNCHANGED fdTable
  ELSE fdTable' = [s \in DOMAIN fdTable \cup {Min(UnusedSlots)} |->
                     IF s \in DOMAIN fdTable THEN fdTable[s] ELSE [id |-> id, position |-> 0]]

MayCreate == fs.nextId < MaxId \/ fs.bits = Slot

\* fs_open: a file with this name when the query says so, else a new one.
fs_open(path) ==
  LET q == QuerySingle(fs, <<"name", path>>)
  IN  /\ IF q.ret = 0 /\ q.ids # << >>
         THEN AllocateFd(q.ids[1]) /\ UNCHANGED fs
         ELSE \E r \in {CreateFile(fs, << <<"name", path>>, <<"type", "file">> >>)} :
                /\ MayCreate /\ fs' = r.m
                /\ IF r.id = 0 THEN UNCHANGED fdTable ELSE AllocateFd(r.id)
      /\ UNCHANGED disk

fs_close(s) ==
  /\ s \in DOMAIN fdTable
  /\ fdTable' = [t \in DOMAIN fdTable \ {s} |-> fdTable[t]]
  /\ UNCHANGED <<fs, disk>>

\* fs_read: an error when the file is gone.
fs_read(s, n) ==
  /\ s \in DOMAIN fdTable /\ fdTable[s].id \in FileIds(fs)
  /\ fdTable' = [fdTable EXCEPT ![s].position =
                   @ + Len(ReadFile(fs, fdTable[s].id, fdTable[s].position, n))]
  /\ UNCHANGED <<fs, disk>>

fs_write(s, data) ==
  /\ s \in DOMAIN fdTable /\ fdTable[s].id \in FileIds(fs)
  /\ \E w \in {WriteFile(fs, fdTable[s].id, fdTable[s].position, data)} :
       /\ fs' = w.m
       /\ fdTable' = [fdTable EXCEPT ![s].position = @ + w.done]
  /\ UNCHANGED disk

-------------------------------------------------------------------------------
(***************************************************************************)
(* The tag events of the deck, the shell's commands, and the rest of the   *)
(* interface of TagFS.                                                     *)
(***************************************************************************)
tagfs_create_file(tags) ==
  /\ MayCreate /\ fs' = CreateFile(fs, tags).m
  /\ UNCHANGED <<disk, fdTable>>

\* A file whose data could not all be written stays.
tagfs_create_file_with_data(tags, data) ==
  /\ MayCreate
  /\ \E r \in {CreateFile(fs, tags)} :
       fs' = IF r.id = 0 THEN r.m ELSE WriteFile(r.m, r.id, 0, data).m
  /\ UNCHANGED <<disk, fdTable>>

tagfs_add_tag(id, t) ==
  /\ fs' = AddTag(fs, id, t)
  /\ UNCHANGED <<disk, fdTable>>

tagfs_remove_tag(id, key) ==
  /\ fs' = RemoveTag(fs, id, key)
  /\ UNCHANGED <<disk, fdTable>>

tagfs_trash_file(id) == tagfs_add_tag(id, TRASHED)
tagfs_restore_file(id) == tagfs_remove_tag(id, TRASHED[1])

tagfs_erase_file(id) ==
  /\ fs' = EraseFile(fs, id)
  /\ UNCHANGED <<disk, fdTable>>

Next ==
  /\ fs.stopped = "no"
  /\ \/ Restart
     \/ \E path \in Names : fs_open(path)
     \/ \E s \in FdSlot : fs_close(s)
     \/ \E s \in FdSlot : fs_read(s, UNITS)
     \/ \E s \in FdSlot, data \in Chunks : fs_write(s, data)
     \/ \E tags \in TagLists : tagfs_create_file(tags)
     \/ \E tags \in TagLists, data \in Chunks : tagfs_create_file_with_data(tags, data)
     \/ \E id \in Issued, t \in Tags : tagfs_add_tag(id, t) \/ tagfs_remove_tag(id, t[1])
     \/ \E id \in Issued : tagfs_trash_file(id) \/ tagfs_restore_file(id)
     \/ \E id \in Issued : tagfs_erase_file(id)

Spec == Init /\ [][Next]_vars

-------------------------------------------------------------------------------
(***************************************************************************)
(* Properties.                                                             *)
(***************************************************************************)
Ids == 2 .. MaxId
AllTags == Tags \cup {TRASHED, <<"type", "file">>} \cup {<<"name", n>> : n \in Names}
UpTo(S, n) == UNION {[1 .. k -> S] : k \in 0 .. n}

\* Every variable has its type.
TypeOK ==
  /\ fs.used \subseteq Block /\ fs.bits \subseteq Slot
  /\ fs.freeBlocks \in 0 .. TOTAL_BLOCKS /\ fs.freeInodes \in 0 .. INODES
  /\ \A s \in Slot : fs.table[s] \in
       [id : {0} \cup Ids, tags : UpTo(AllTags, MAX_TAGS), size : 0 .. DIRECT * UNITS,
        direct : [0 .. DIRECT - 1 -> Block \cup {BAD}]]
  /\ DOMAIN fs.index \subseteq AllTags /\ fs.nextId \in 1 .. MaxId
  /\ fs.storage \in [DataBlocks -> [0 .. UNITS - 1 -> Bytes \cup {ZERO}]]
  /\ DOMAIN fdTable \subseteq FdSlot
  /\ \A s \in DOMAIN fdTable : fdTable[s].id \in Ids

\* Every block in use belongs to one file, at one place of it, and none is in
\* use that no file has, also after writes that ran out of blocks half way; the
\* counters of the superblock say how many blocks and inodes are free.
Pointers == {p \in Slot \X (0 .. DIRECT - 1) : fs.table[p[1]].direct[p[2]] \notin {0, BAD}}
At(p) == fs.table[p[1]].direct[p[2]]
BlocksOwned ==
  /\ \A p, q \in Pointers : At(p) = At(q) => p = q
  /\ fs.used = 0 .. DATA_START - 1 \cup {At(p) : p \in Pointers}
  /\ fs.freeBlocks = TOTAL_BLOCKS - Cardinality(fs.used)
  /\ fs.freeInodes = INODES - Cardinality({s \in Slot : fs.table[s].id # 0})

\* A file has a block behind each of its bytes, and no descriptor of it stands
\* beyond its end, wherever a write stopped for want of blocks.
NoHoles ==
  /\ \A s \in Slot : \A at \in 0 .. fs.table[s].size - 1 :
       Pointer(fs.table[s], at) \in DataBlocks
  /\ \A s \in DOMAIN fdTable :
       fdTable[s].id \in FileIds(fs) => fdTable[s].position <= File(fs, fdTable[s].id).size

\* The index names files that exist, each once per tag: an erased file leaves
\* no id behind in any entry.
IndexNamesFiles ==
  \A t \in DOMAIN fs.index :
    /\ ToSet(fs.index[t]) \subseteq FileIds(fs)
    /\ \A j, k \in DOMAIN fs.index[t] : fs.index[t][j] = fs.index[t][k] => j = k

\* Where the code does miss files: a tag that finds the index full gets no entry,
\* an id from MAX_FILES on has no mark (tagfs_query looks at marks only for OR), and
\* a list of results is cut.
QueriesFit ==
  /\ Cardinality(DOMAIN fs.index) < MAX_TAG_INDEX
  /\ fs.nextId < MAX_FILES
  /\ Cardinality(FileIds(fs)) <= MAX_RESULTS

\* Short of these limits a query misses no file, although a removed tag stays in the
\* index, the index is not sorted, and a tag may have got its entry from another
\* file, by creation or later: AND finds every file with all the tags, OR every
\* file with one of them.
QueriesMissNothing ==
  QueriesFit =>
    \A tags \in UpTo(Tags, 2) \ {<< >>}, id \in FileIds(fs) :
      /\ (\A k \in DOMAIN tags : HasTag(fs, id, tags[k])) => id \in ToSet(QueryAnd(fs, tags))
      /\ (\E k \in DOMAIN tags : HasTag(fs, id, tags[k])) => id \in ToSet(QueryOr(fs, tags))

\* The bytes of the files are those of the abstract file store: no write, no
\* erasure and no shortage of blocks touches the contents of another file.
Content == [id \in FileIds(fs) |-> ReadFile(fs, id, 0, File(fs, id).size)]
Store == INSTANCE FileStore WITH content <- Content, Ids <- Ids, Data <- Chunks
ImplementsFileStore == Store!Spec
===============================================================================
