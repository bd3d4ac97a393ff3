---------------------------- MODULE StorageProofs ----------------------------
(***************************************************************************)
(* For every size of the file system, its tables and its blocks: every     *)
(* block in use is at one place of one file, a file has a block behind     *)
(* each of its bytes, and the index of tags names files that exist.  From  *)
(* that: the contents of the files are those of the file store, whatever   *)
(* blocks they lie in, and queries miss no file while the index has room.  *)
(***************************************************************************)
EXTENDS StorageDeck, TLAPS, FiniteSetTheorems, SequenceTheorems, WellFoundedInduction

TagSet == AllTags \cup UNION {ToSet(tags) : tags \in TagLists}
Offsets == 0 .. UNITS - 1
Places == 0 .. DIRECT - 1
Inode == [id : Nat, tags : Seq(TagSet), size : Nat, direct : [Places -> Block \cup {BAD}]]
Stop == {"no", "no such block", "no such bit"}

Index == UNION {[D -> Seq(Nat)] : D \in SUBSET TagSet}

FileSystem ==
  [used : SUBSET Block, freeBlocks : Int, bits : SUBSET Slot, freeInodes : Int,
   table : [Slot -> Inode], index : Index, nextId : Nat \ {0},
   storage : [DataBlocks -> [Offsets -> Bytes \cup {ZERO}]], stopped : Stop]

\* The blocks of the files.
Direct(m, p) == m.table[p[1]].direct[p[2]]
PointersOf(m) == {p \in Slot \X Places : Direct(m, p) \notin {0, BAD}}
BlockInv(m) ==
  /\ \A p \in PointersOf(m) : Direct(m, p) \in DataBlocks
  /\ \A p, q \in PointersOf(m) : Direct(m, p) = Direct(m, q) => p = q
  /\ m.used = 0 .. DATA_START - 1 \cup {Direct(m, p) : p \in PointersOf(m)}
  /\ m.freeBlocks = TOTAL_BLOCKS - Cardinality(m.used)

\* The slots of the inode table.  A bit of the bitmap may stay set when its file
\* is gone, never the other way round.
UsedSlots(m) == {s \in Slot : m.table[s].id # 0}
InodeInv(m) ==
  /\ \A s \in Slot : m.table[s].id <= m.nextId
  /\ \A s \in Slot : m.table[s].id = 0 => m.table[s] = NoInode
  /\ \A s, t \in UsedSlots(m) : m.table[s].id = m.table[t].id => s = t
  /\ m.freeInodes = INODES - Cardinality(UsedSlots(m))
  /\ Cardinality(UsedSlots(m)) <= Cardinality(m.bits)

\* The first n bytes of the file in slot s lie in blocks.
Covered(m, s, n) == \A at \in 0 .. n - 1 : at \div UNITS \in Places /\ Pointer(m.table[s], at) \in DataBlocks
SizeInv(m) == \A s \in Slot : Covered(m, s, m.table[s].size)

\* The entries of the index name ids of this set, each once.
Naming(index, ids) ==
  \A t \in DOMAIN index :
    /\ \A k \in DOMAIN index[t] : index[t][k] \in ids
    /\ \A j, k \in DOMAIN index[t] : index[t][j] = index[t][k] => j = k
IndexInv(m) == Naming(m.index, FileIds(m))

FsInv(m) == m \in FileSystem /\ BlockInv(m) /\ InodeInv(m) /\ SizeInv(m) /\ IndexInv(m)

\* The descriptors: a file that is there reaches to where they stand.
FdOk(m, table) ==
  /\ DOMAIN table \subseteq FdSlot
  /\ table \in [DOMAIN table -> [id : Nat \ {0}, position : Nat]]
  /\ \A d \in DOMAIN table :
       /\ table[d].id <= m.nextId
       /\ table[d].id \in FileIds(m) => table[d].position <= File(m, table[d].id).size

StorageInv == disk = Formatted /\ FsInv(fs) /\ FdOk(fs, fdTable)

\* A step from m to r: no file that was there is shorter, and a new one has a new id.
FilesGrow(m, r) ==
  /\ m.nextId <= r.nextId
  /\ \A i \in FileIds(r) : i <= m.nextId => i \in FileIds(m) /\ File(m, i).size <= File(r, i).size

-------------------------------------------------------------------------------
(***************************************************************************)
(* Numbers, loops and sets.                                                *)
(***************************************************************************)
LEMMA StorageConstants ==
  /\ TOTAL_BLOCKS \in Nat /\ DATA_START \in Nat /\ 0 < DATA_START /\ DATA_START <= TOTAL_BLOCKS
  /\ UNITS \in Nat /\ 0 < UNITS /\ DIRECT \in Nat /\ 0 < DIRECT
  /\ INODES \in Nat /\ 0 < INODES /\ INODE_BITS \in Nat /\ INODES <= INODE_BITS
  /\ MAX_TAGS \in Nat /\ 0 < MAX_TAGS /\ MAX_TAG_INDEX \in Nat /\ MAX_RESULTS \in Nat
  /\ 0 < MAX_RESULTS /\ MAX_OPEN_FILES \in Nat /\ MAX_FILES \in Nat /\ INODES <= MAX_FILES
BY TagFSAssumption, StorageAssumption

\* A set of numbers that is not empty has a least member, and Min finds it.
LEMMA LeastMember ==
  ASSUME NEW S, S \subseteq Nat, S # {}
  PROVE  Min(S) \in S /\ \A t \in S : Min(S) <= t
<1> DEFINE R == OpToRel(<, Nat)
<1>1. \E x \in S : \A y \in S : ~ (<<y, x>> \in R)
  <2> HIDE DEF R
  <2>1. IsWellFoundedOn(R, Nat)
    BY NatLessThanWellFounded DEF R
  <2> QED BY <2>1, WFMin
<1>2. \A x, y \in Nat : y < x => <<y, x>> \in R
  BY DEF OpToRel
<1>3. \E x \in S : \A y \in S : x <= y
  <2> HIDE DEF R
  <2>1. PICK x \in S : \A y \in S : ~ (<<y, x>> \in R)
    BY <1>1
  <2>2. ASSUME NEW y \in S PROVE x <= y
    <3>1. x \in Nat /\ y \in Nat /\ ~ (y < x)
      BY <1>2, <2>1
    <3> QED BY <3>1
  <2> QED BY <2>2
<1> QED BY <1>3 DEF Min

\* What holds before a loop and is kept by each turn holds after every turn.
LEMMA LoopKeeps ==
  ASSUME NEW S, NEW n \in Nat, NEW w, w[0] \in S,
         \A k \in 1 .. n : w[k - 1] \in S => w[k] \in S
  PROVE  \A k \in 0 .. n : w[k] \in S
<1> DEFINE bad == {k \in 0 .. n : w[k] \notin S}
<1>1. SUFFICES ASSUME bad # {} PROVE FALSE
  OBVIOUS
<1>2. PICK k : k \in bad /\ \A t \in bad : k <= t
  <2>1. bad \subseteq Nat
    OBVIOUS
  <2> HIDE DEF bad
  <2> QED BY <1>1, <2>1, LeastMember
<1>3. k \in 1 .. n /\ k - 1 \in 0 .. n
  <2>1. k \in 0 .. n /\ k # 0
    BY <1>2
  <2> QED BY <2>1
<1>4. k - 1 \notin bad
  <2>1. ~ (k <= k - 1)
    BY <1>3
  <2> QED BY <1>2, <2>1
<1>5. w[k - 1] \in S
  BY <1>3, <1>4
<1> QED BY <1>2, <1>3, <1>5

\* A loop of n turns that starts with x and whose k-th turn is F[k] has a run g.
IsRun(g, S, n, x, F) ==
  g \in [0 .. n -> S] /\ g[0] = x /\ \A k \in 1 .. n : g[k] = F[k][g[k - 1]]

LEMMA LoopRuns ==
  ASSUME NEW S, NEW n \in Nat, NEW x \in S, NEW F \in [1 .. n -> [S -> S]]
  PROVE  \E g : IsRun(g, S, n, x, F)
<1> USE DEF IsRun
<1> DEFINE Run(m, g) == g \in [0 .. m -> S] /\ g[0] = x /\ \A k \in 1 .. m : g[k] = F[k][g[k - 1]]
           bad == {m \in 0 .. n : ~ \E g : Run(m, g)}
<1>1. SUFFICES ASSUME bad # {} PROVE FALSE
  <2>1. n \notin bad
    BY <1>1
  <2>2. \E g : Run(n, g)
    BY <2>1
  <2> QED BY <2>2
<1>2. PICK m : m \in bad /\ \A t \in bad : m <= t
  <2>1. bad \subseteq Nat
    OBVIOUS
  <2> HIDE DEF bad
  <2> QED BY <1>1, <2>1, LeastMember
<1>3. m # 0
  <2>1. Run(0, [k \in 0 .. 0 |-> x])
    OBVIOUS
  <2> QED BY <1>2, <2>1
<1>4. m \in 1 .. n /\ m - 1 \in 0 .. n /\ m - 1 \notin bad
  <2>1. m \in 0 .. n
    BY <1>2
  <2>2. m \in 1 .. n /\ m - 1 \in 0 .. n /\ ~ (m <= m - 1)
    BY <1>3, <2>1
  <2> QED BY <1>2, <2>2
<1>5. PICK g : Run(m - 1, g)
  BY <1>4
<1> DEFINE h == [k \in 0 .. m |-> IF k = m THEN F[m][g[m - 1]] ELSE g[k]]
<1>6. Run(m, h)
  <2>1. F[m][g[m - 1]] \in S
    BY <1>4, <1>5
  <2>2. h \in [0 .. m -> S] /\ h[0] = x
    BY <1>3, <1>4, <1>5, <2>1
  <2>3. ASSUME NEW k \in 1 .. m PROVE h[k] = F[k][h[k - 1]]
    <3>1. k \in 0 .. m /\ k - 1 \in 0 .. m /\ k - 1 # m /\ m - 1 \in 0 .. m
      BY <1>4, <2>3
    <3>2. CASE k = m
      BY <3>1, <3>2
    <3>3. CASE k # m
      <4>1. k \in 1 .. m - 1
        BY <1>4, <3>3
      <4> QED BY <1>5, <3>1, <3>3, <4>1
    <3> QED BY <3>2, <3>3
  <2> QED BY <2>2, <2>3
<1> QED BY <1>2, <1>6
\* The loop of tagfs_write_file has a run when its turns stay in some set.
IsWrite(g, m, s, offset, data) ==
  /\ g[0] = [m |-> m, done |-> 0, ok |-> TRUE]
  /\ \A k \in 1 .. Len(data) : g[k] = WriteNext(g[k - 1], s, offset, data[k])
  /\ WriteBytes(m, s, offset, data) = g[Len(data)]

LEMMA WriteRun ==
  ASSUME NEW S, NEW m, NEW s, NEW offset, NEW data, Len(data) \in Nat,
         [m |-> m, done |-> 0, ok |-> TRUE] \in S,
         \A w \in S, k \in 1 .. Len(data) : WriteNext(w, s, offset, data[k]) \in S
  PROVE  \E g : IsWrite(g, m, s, offset, data)
<1> DEFINE x == [m |-> m, done |-> 0, ok |-> TRUE]
           n == Len(data)
           F == [k \in 1 .. n |-> [w \in S |-> WriteNext(w, s, offset, data[k])]]
           Turns(w) == [k \in 0 .. n |->
                          IF k = 0 THEN x ELSE WriteNext(w[k - 1], s, offset, data[k])]
           loop == CHOOSE w : w = Turns(w)
<1>1. \E w : w = Turns(w)
  <2>1. PICK j, y, G : j = n /\ j \in Nat /\ y = x /\ y \in S /\ G = F /\ G \in [1 .. j -> [S -> S]]
    <3>1. F \in [1 .. n -> [S -> S]]
      OBVIOUS
    <3>2. n \in Nat /\ x \in S
      OBVIOUS
    <3> HIDE DEF F, x, n
    <3> QED BY <3>1, <3>2
  <2>2. PICK g \in [0 .. n -> S] : g[0] = x /\ \A k \in 1 .. n : g[k] = G[k][g[k - 1]]
    <3> HIDE DEF F, x, n
    <3>1. \E g : IsRun(g, S, j, y, G)
      BY <2>1, LoopRuns
    <3> QED BY <2>1, <3>1 DEF IsRun
  <2>3. ASSUME NEW k \in 0 .. n, k # 0
        PROVE  g[k] = WriteNext(g[k - 1], s, offset, data[k])
    <3>1. k \in 1 .. n /\ k - 1 \in 0 .. n
      BY <2>3
    <3>2. g[k - 1] \in S
      BY <3>1
    <3>3. G[k][g[k - 1]] = WriteNext(g[k - 1], s, offset, data[k])
      BY <2>1, <3>1, <3>2
    <3> QED BY <2>2, <3>1, <3>3
  <2>4. g = Turns(g)
    BY <2>2, <2>3
  <2> QED BY <2>4
<1>2. loop = Turns(loop)
  BY <1>1
<1>3. WriteBytes(m, s, offset, data) = loop[n]
  BY DEF WriteBytes
<1> HIDE DEF loop
<1>4. loop[0] = x /\ \A k \in 1 .. n : loop[k] = WriteNext(loop[k - 1], s, offset, data[k])
  <2>1. loop[0] = x
    BY <1>2
  <2>2. ASSUME NEW k \in 1 .. n PROVE loop[k] = WriteNext(loop[k - 1], s, offset, data[k])
    <3>1. k \in 0 .. n /\ k # 0
      OBVIOUS
    <3>2. loop[k] = Turns(loop)[k]
      BY <1>2
    <3> QED BY <3>1, <3>2
  <2> QED BY <2>1, <2>2
<1> QED BY <1>3, <1>4 DEF IsWrite

-------------------------------------------------------------------------------
(***************************************************************************)
(* A block for a file: tagfs_alloc_block.                                  *)
(***************************************************************************)
\* What allocating and writing blocks leave alone.
SameFiles(m, r) ==
  /\ r.nextId = m.nextId /\ r.index = m.index /\ r.bits = m.bits
  /\ r.freeInodes = m.freeInodes /\ r.stopped = m.stopped
  /\ \A t \in Slot : /\ r.table[t].id = m.table[t].id /\ r.table[t].size = m.table[t].size
                     /\ r.table[t].tags = m.table[t].tags
                     /\ m.table[t].id = 0 => r.table[t] = m.table[t]

\* The byte of the file in slot t that is kept for place a.
StoredAt(m, t, a) == m.storage[Pointer(m.table[t], a)][a % UNITS]

LEMMA BlocksFinite ==
  /\ IsFiniteSet(Block) /\ Cardinality(Block) = TOTAL_BLOCKS
  /\ IsFiniteSet(Slot) /\ Cardinality(Slot) = INODES
  /\ IsFiniteSet(DataBlocks) /\ Cardinality(DataBlocks) = TOTAL_BLOCKS - DATA_START
  /\ \A n \in Nat : IsFiniteSet(0 .. n - 1) /\ Cardinality(0 .. n - 1) = n
<1>1. \A n \in Nat : IsFiniteSet(0 .. n - 1) /\ Cardinality(0 .. n - 1) = n
  <2>1. ASSUME NEW n \in Nat PROVE IsFiniteSet(0 .. n - 1) /\ Cardinality(0 .. n - 1) = n
    <3>1. 0 \in Int /\ n - 1 \in Int /\ (0 > n - 1 => n = 0) /\ n = (n - 1) - 0 + 1
      OBVIOUS
    <3>2. IsFiniteSet(0 .. n - 1)
          /\ Cardinality(0 .. n - 1) = IF 0 > n - 1 THEN 0 ELSE (n - 1) - 0 + 1
      BY <3>1, FS_Interval
    <3> QED BY <3>1, <3>2
  <2> QED BY <2>1
<1>2. IsFiniteSet(DataBlocks) /\ Cardinality(DataBlocks) = TOTAL_BLOCKS - DATA_START
  <2>1. DATA_START \in Int /\ TOTAL_BLOCKS - 1 \in Int
        /\ (DATA_START > TOTAL_BLOCKS - 1 => TOTAL_BLOCKS - DATA_START = 0)
        /\ (TOTAL_BLOCKS - 1) - DATA_START + 1 = TOTAL_BLOCKS - DATA_START
    BY StorageConstants
  <2>2. IsFiniteSet(DATA_START .. TOTAL_BLOCKS - 1)
        /\ Cardinality(DATA_START .. TOTAL_BLOCKS - 1) =
             IF DATA_START > TOTAL_BLOCKS - 1 THEN 0 ELSE (TOTAL_BLOCKS - 1) - DATA_START + 1
    BY <2>1, FS_Interval
  <2> QED BY <2>1, <2>2 DEF DataBlocks
<1> QED BY <1>1, <1>2, StorageConstants DEF Block, Slot

\* The table with pointer i of slot s set to b.
Pointing(table, s, i, b) ==
  [table EXCEPT ![s] = [table[s] EXCEPT !.direct = [table[s].direct EXCEPT ![i] = b]]]

LEMMA PointingFields ==
  ASSUME NEW table \in [Slot -> Inode], NEW s \in Slot, NEW i \in Places,
         NEW b \in Block \cup {BAD}
  PROVE  /\ Pointing(table, s, i, b) \in [Slot -> Inode]
         /\ \A t \in Slot \ {s} : Pointing(table, s, i, b)[t] = table[t]
         /\ \A j \in Places : Pointing(table, s, i, b)[s].direct[j] =
                              IF j = i THEN b ELSE table[s].direct[j]
         /\ Pointing(table, s, i, b)[s].id = table[s].id
         /\ Pointing(table, s, i, b)[s].size = table[s].size
         /\ Pointing(table, s, i, b)[s].tags = table[s].tags
<1>1. table[s] \in Inode
  OBVIOUS
<1>2. PICK f : f = table[s] /\ f \in Inode
  BY <1>1
<1>3. PICK d : d = [f.direct EXCEPT ![i] = b]
  OBVIOUS
<1>4. d \in [Places -> Block \cup {BAD}] /\ \A j \in Places : d[j] = IF j = i THEN b ELSE f.direct[j]
  BY <1>2, <1>3 DEF Inode
<1>5. PICK g : g = [f EXCEPT !.direct = d]
  OBVIOUS
<1>6. g \in Inode /\ g.direct = d /\ g.id = f.id /\ g.size = f.size /\ g.tags = f.tags
  BY <1>2, <1>4, <1>5 DEF Inode
<1>7. Pointing(table, s, i, b) = [table EXCEPT ![s] = g]
  BY <1>2, <1>3, <1>5 DEF Pointing
<1>8. PICK P : P = Pointing(table, s, i, b)
  OBVIOUS
<1>9. P \in [Slot -> Inode] /\ P[s] = g /\ \A t \in Slot \ {s} : P[t] = table[t]
  BY <1>6, <1>7, <1>8
<1> QED BY <1>2, <1>4, <1>6, <1>8, <1>9

\* r is m with pointer i of slot s set to b, a block not in use before or the failure.
Took(m, s, i, b, r) ==
  /\ r.table = Pointing(m.table, s, i, b)
  /\ r.used = IF b = BAD THEN m.used ELSE m.used \cup {b}
  /\ r.freeBlocks = IF b = BAD THEN m.freeBlocks ELSE m.freeBlocks - 1
  /\ r \in FileSystem
  /\ r.nextId = m.nextId /\ r.index = m.index /\ r.bits = m.bits
  /\ r.freeInodes = m.freeInodes /\ r.stopped = m.stopped
  /\ \A c \in m.used \cap DataBlocks : r.storage[c] = m.storage[c]

\* The block that is found is a free data block; with none free the failure is
\* stored instead.
LEMMA AllocFields ==
  ASSUME NEW m \in FileSystem, BlockInv(m), NEW s \in Slot, NEW i \in Places,
         NEW r, r = AllocBlock(m, s, i)
  PROVE  \E b \in (DataBlocks \ m.used) \cup {BAD} : Took(m, s, i, b, r)
<1> USE DEF Took
<1> DEFINE free == Block \ m.used
<1>0. 0 .. DATA_START - 1 \subseteq m.used /\ BAD \notin DataBlocks /\ DataBlocks \subseteq Block
  BY StorageConstants DEF BlockInv, BAD, DataBlocks, Block
<1>1. CASE free = {}
  <2>1. r = [m EXCEPT !.table[s].direct[i] = BAD]
    BY <1>1 DEF AllocBlock
  <2>2. r = [m EXCEPT !.table = Pointing(m.table, s, i, BAD)]
    BY <2>1 DEF Pointing
  <2>3. Pointing(m.table, s, i, BAD) \in [Slot -> Inode]
    <3>1. m.table \in [Slot -> Inode]
      BY DEF FileSystem
    <3> QED BY <3>1, PointingFields
  <2> QED BY <2>2, <2>3 DEF FileSystem
<1>2. CASE free # {}
  <2>1. PICK b : b = Min(free)
    OBVIOUS
  <2>2. b \in free
    <3>1. free \subseteq Nat
      BY DEF Block
    <3> HIDE DEF free
    <3> QED BY <1>2, <2>1, <3>1, LeastMember
  <2>3. b \in DataBlocks \ m.used /\ b # BAD /\ b \in Block
    BY <1>0, <2>2, StorageConstants DEF Block, DataBlocks, BAD
  <2>4. r = [m EXCEPT !.used = @ \cup {b}, !.freeBlocks = @ - 1,
                      !.storage[b] = [u \in 0 .. UNITS - 1 |-> ZERO],
                      !.table[s].direct[i] = b]
    BY <1>2, <2>1 DEF AllocBlock
  <2>5. PICK z : z = [u \in 0 .. UNITS - 1 |-> ZERO]
    OBVIOUS
  <2>6. PICK c : c = [m.storage EXCEPT ![b] = z]
    OBVIOUS
  <2>7. r = [m EXCEPT !.used = m.used \cup {b}, !.freeBlocks = m.freeBlocks - 1,
                      !.storage = c, !.table = Pointing(m.table, s, i, b)]
    BY <2>4, <2>5, <2>6 DEF Pointing
  <2>8. Pointing(m.table, s, i, b) \in [Slot -> Inode]
    <3>1. m.table \in [Slot -> Inode]
      BY DEF FileSystem
    <3> QED BY <2>3, <3>1, PointingFields
  <2>9. c \in [DataBlocks -> [Offsets -> Bytes \cup {ZERO}]]
    BY <2>3, <2>5, <2>6 DEF FileSystem, Offsets
  <2>10. PICK T : T = Pointing(m.table, s, i, b)
    OBVIOUS
  <2>11. m.used \cup {b} \in SUBSET Block /\ m.freeBlocks - 1 \in Int
    BY <2>3 DEF FileSystem
  <2>12. r \in FileSystem
    BY <2>7, <2>8, <2>9, <2>10, <2>11 DEF FileSystem
  <2>13. r.table = T /\ r.used = m.used \cup {b} /\ r.freeBlocks = m.freeBlocks - 1
         /\ r.nextId = m.nextId /\ r.index = m.index /\ r.bits = m.bits
         /\ r.freeInodes = m.freeInodes /\ r.stopped = m.stopped /\ r.storage = c
    BY <2>7, <2>10 DEF FileSystem
  <2>14. \A d \in m.used \cap DataBlocks : c[d] = m.storage[d]
    BY <2>3, <2>6 DEF FileSystem
  <2> QED BY <2>3, <2>10, <2>12, <2>13, <2>14
<1> QED BY <1>1, <1>2

LEMMA AllocBlocks ==
  ASSUME NEW m \in FileSystem, BlockInv(m), NEW s \in Slot, NEW i \in Places,
         m.table[s].direct[i] = 0
  PROVE  BlockInv(AllocBlock(m, s, i))
<1>1. PICK r : r = AllocBlock(m, s, i)
  OBVIOUS
<1>2. PICK b \in (DataBlocks \ m.used) \cup {BAD} :
        /\ r.table = Pointing(m.table, s, i, b)
        /\ r.used = IF b = BAD THEN m.used ELSE m.used \cup {b}
        /\ r.freeBlocks = IF b = BAD THEN m.freeBlocks ELSE m.freeBlocks - 1
        /\ r \in FileSystem
  <2>1. PICK b \in (DataBlocks \ m.used) \cup {BAD} : Took(m, s, i, b, r)
    BY <1>1, AllocFields
  <2> QED BY <2>1 DEF Took
<1>3. \A p \in Slot \X Places : Direct(r, p) = IF p = <<s, i>> THEN b ELSE Direct(m, p)
  <2>1. m.table \in [Slot -> Inode] /\ b \in Block \cup {BAD}
    BY StorageConstants DEF FileSystem, DataBlocks, Block
  <2>2. /\ \A t \in Slot \ {s} : r.table[t] = m.table[t]
        /\ \A j \in Places : r.table[s].direct[j] = IF j = i THEN b ELSE m.table[s].direct[j]
    BY <1>2, <2>1, PointingFields
  <2>3. ASSUME NEW p \in Slot \X Places
        PROVE  Direct(r, p) = IF p = <<s, i>> THEN b ELSE Direct(m, p)
    <3>1. p[1] \in Slot /\ p[2] \in Places /\ (p = <<s, i>> <=> p[1] = s /\ p[2] = i)
      OBVIOUS
    <3>2. CASE p[1] = s
      BY <2>2, <3>1, <3>2 DEF Direct
    <3>3. CASE p[1] # s
      BY <2>2, <3>1, <3>3 DEF Direct
    <3> QED BY <3>2, <3>3
  <2> QED BY <2>3
<1>4. Direct(m, <<s, i>>) = 0 /\ <<s, i>> \in Slot \X Places
  BY DEF Direct
<1>5. CASE b = BAD
  <2>1. PointersOf(r) = PointersOf(m)
    BY <1>3, <1>4, <1>5 DEF PointersOf
  <2>2. \A p \in PointersOf(m) : p \in Slot \X Places /\ p # <<s, i>> /\ Direct(r, p) = Direct(m, p)
    BY <1>3, <1>4 DEF PointersOf
  <2> QED BY <1>1, <1>2, <1>5, <2>1, <2>2 DEF BlockInv
<1>6. CASE b # BAD
  <2>1. b \in DataBlocks /\ b \notin m.used /\ b # 0
    BY <1>2, <1>6, StorageConstants DEF DataBlocks
  <2>2. PointersOf(r) = PointersOf(m) \cup {<<s, i>>} /\ <<s, i>> \notin PointersOf(m)
    BY <1>3, <1>4, <1>6, <2>1 DEF PointersOf
  <2>3. /\ \A p \in PointersOf(m) : p # <<s, i>> /\ Direct(r, p) = Direct(m, p)
        /\ Direct(r, <<s, i>>) = b
    BY <1>3, <1>4, <2>2 DEF PointersOf
  <2>4. \A p \in PointersOf(m) : Direct(m, p) # b
    BY <2>1 DEF BlockInv
  <2>5. \A p \in PointersOf(r) : Direct(r, p) \in DataBlocks
    BY <2>1, <2>2, <2>3 DEF BlockInv
  <2>6. \A p, q \in PointersOf(r) : Direct(r, p) = Direct(r, q) => p = q
    BY <2>2, <2>3, <2>4 DEF BlockInv
  <2>7. {Direct(r, p) : p \in PointersOf(r)} = {Direct(m, p) : p \in PointersOf(m)} \cup {b}
    BY <2>2, <2>3
  <2>8. r.used = 0 .. DATA_START - 1 \cup {Direct(r, p) : p \in PointersOf(r)}
    BY <1>2, <1>6, <2>7 DEF BlockInv
  <2>9. r.freeBlocks = TOTAL_BLOCKS - Cardinality(r.used)
    <3>1. m.used \subseteq Block
      BY DEF FileSystem
    <3>2. IsFiniteSet(m.used) /\ Cardinality(m.used) \in Nat
      BY <3>1, BlocksFinite, FS_Subset, FS_CardinalityType
    <3>3. Cardinality(m.used \cup {b}) = Cardinality(m.used) + 1
      BY <2>1, <3>2, FS_AddElement
    <3>4. r.used = m.used \cup {b} /\ r.freeBlocks = m.freeBlocks - 1
          /\ m.freeBlocks = TOTAL_BLOCKS - Cardinality(m.used)
      BY <1>2, <1>6 DEF BlockInv
    <3> QED BY <3>2, <3>3, <3>4, StorageConstants
  <2> QED BY <1>1, <2>5, <2>6, <2>8, <2>9 DEF BlockInv
<1> QED BY <1>5, <1>6

\* Allocating for a file that is there changes nothing else, and takes no byte
\* out of a block.
LEMMA AllocKeeps ==
  ASSUME NEW m, FsInv(m), NEW s \in UsedSlots(m), NEW i \in Places,
         NEW r, r = AllocByIndex(m, s, i)
  PROVE  /\ r \in FileSystem /\ BlockInv(r) /\ SameFiles(m, r)
         /\ \A t \in Slot, n \in Nat : Covered(m, t, n) => Covered(r, t, n)
         /\ r.table[s].direct[i] \in DataBlocks \cup {BAD}
         /\ \A t \in Slot, a \in Nat : Covered(m, t, a + 1) => StoredAt(r, t, a) = StoredAt(m, t, a)
<1>1. m \in FileSystem /\ BlockInv(m) /\ s \in Slot /\ m.table[s].id # 0 /\ m.table \in [Slot -> Inode]
  BY DEF FsInv, UsedSlots, FileSystem
<1>2. CASE m.table[s].direct[i] # 0
  <2>1. r = m
    BY <1>2 DEF AllocByIndex
  <2>2. m.table[s].direct[i] \in DataBlocks \cup {BAD}
    <3>1. CASE m.table[s].direct[i] # BAD
      <4>1. <<s, i>> \in PointersOf(m) /\ Direct(m, <<s, i>>) = m.table[s].direct[i]
        BY <1>1, <1>2, <3>1 DEF PointersOf, Direct
      <4> QED BY <1>1, <4>1 DEF BlockInv
    <3> QED BY <3>1
  <2> QED BY <1>1, <2>1, <2>2 DEF SameFiles
<1>3. CASE m.table[s].direct[i] = 0
  <2>1. r = AllocBlock(m, s, i)
    BY <1>3 DEF AllocByIndex
  <2>0. PICK alloc : alloc = AllocBlock(m, s, i)
    OBVIOUS
  <2>2. PICK b \in (DataBlocks \ m.used) \cup {BAD} :
           /\ r.table = Pointing(m.table, s, i, b)
           /\ r \in FileSystem
           /\ r.nextId = m.nextId /\ r.index = m.index /\ r.bits = m.bits
           /\ r.freeInodes = m.freeInodes /\ r.stopped = m.stopped
           /\ \A c \in m.used \cap DataBlocks : r.storage[c] = m.storage[c]
    <3>1. PICK b \in (DataBlocks \ m.used) \cup {BAD} : Took(m, s, i, b, alloc)
      BY <1>1, <2>0, AllocFields
    <3>2. r = alloc
      BY <2>0, <2>1
    <3> QED BY <3>1, <3>2 DEF Took
  <2>3. BlockInv(r)
    BY <1>1, <1>3, <2>1, AllocBlocks
  <2>4. b \in Block \cup {BAD}
    BY StorageConstants DEF DataBlocks, Block
  <2>5. /\ \A t \in Slot \ {s} : r.table[t] = m.table[t]
        /\ \A j \in Places : r.table[s].direct[j] = IF j = i THEN b ELSE m.table[s].direct[j]
        /\ r.table[s].id = m.table[s].id
        /\ r.table[s].size = m.table[s].size
        /\ r.table[s].tags = m.table[s].tags
    BY <1>1, <2>2, <2>4, PointingFields
  <2>6. SameFiles(m, r)
    BY <1>1, <2>2, <2>5 DEF SameFiles
  <2>7. ASSUME NEW t \in Slot, NEW n \in Nat, Covered(m, t, n)
        PROVE  Covered(r, t, n)
    <3>1. CASE t = s
      <4>1. ASSUME NEW at \in 0 .. n - 1 PROVE Pointer(r.table[s], at) \in DataBlocks
        <5>1. at \div UNITS \in Places /\ m.table[s].direct[at \div UNITS] \in DataBlocks
          BY <2>7, <3>1 DEF Covered, Pointer
        <5>2. at \div UNITS # i
          BY <1>3, <5>1, StorageConstants DEF DataBlocks
        <5> QED BY <2>5, <5>1, <5>2 DEF Pointer
      <4> QED BY <2>7, <3>1, <4>1 DEF Covered
    <3>2. CASE t # s
      BY <2>5, <2>7, <3>2 DEF Covered
    <3> QED BY <3>1, <3>2
  <2>8. ASSUME NEW t \in Slot, NEW a \in Nat, Covered(m, t, a + 1)
        PROVE  StoredAt(r, t, a) = StoredAt(m, t, a)
    <3>1. PICK j, c : j = a \div UNITS /\ c = m.table[t].direct[j]
      OBVIOUS
    <3>2. j \in Places /\ c \in DataBlocks /\ Pointer(m.table[t], a) = c
      BY <2>8, <3>1 DEF Covered, Pointer
    <3>3. c # 0 /\ c # BAD
      BY <3>2, StorageConstants DEF DataBlocks, BAD
    <3>4. c \in m.used
      <4>1. <<t, j>> \in PointersOf(m) /\ Direct(m, <<t, j>>) = c
        BY <3>1, <3>2, <3>3 DEF PointersOf, Direct
      <4> QED BY <1>1, <4>1 DEF BlockInv
    <3>5. r.table[t].direct[j] = c
      BY <1>3, <2>5, <3>1, <3>2, <3>3
    <3>6. Pointer(r.table[t], a) = c
      BY <3>1, <3>5 DEF Pointer
    <3>7. r.storage[c] = m.storage[c]
      BY <2>2, <3>2, <3>4
    <3> QED BY <3>2, <3>6, <3>7 DEF StoredAt
  <2> QED BY <2>2, <2>3, <2>5, <2>6, <2>7, <2>8
<1> QED BY <1>2, <1>3

\* What does not change the files keeps what the other parts say of them.
LEMMA SameFilesKeep ==
  ASSUME NEW m, FsInv(m), NEW r \in FileSystem, BlockInv(r), SameFiles(m, r),
         \A t \in Slot, n \in Nat : Covered(m, t, n) => Covered(r, t, n)
  PROVE  FsInv(r)
<1>1. m \in FileSystem /\ InodeInv(m) /\ SizeInv(m) /\ IndexInv(m)
  BY DEF FsInv
<1>2. UsedSlots(r) = UsedSlots(m) /\ FileIds(r) = FileIds(m)
  BY DEF UsedSlots, FileIds, SameFiles
<1>3. InodeInv(r)
  <2>1. \A t \in Slot : r.table[t].id = m.table[t].id /\ (m.table[t].id = 0 => r.table[t] = m.table[t])
    BY DEF SameFiles
  <2>2. r.nextId = m.nextId /\ r.freeInodes = m.freeInodes /\ r.bits = m.bits
    BY DEF SameFiles
  <2>3. \A t \in UsedSlots(m) : t \in Slot
    BY DEF UsedSlots
  <2> HIDE DEF UsedSlots
  <2> QED BY <1>1, <1>2, <2>1, <2>2, <2>3 DEF InodeInv
<1>4. SizeInv(r)
  <2>1. \A t \in Slot : r.table[t].size = m.table[t].size /\ m.table[t].size \in Nat
    BY <1>1 DEF SameFiles, FileSystem, Inode
  <2> QED BY <1>1, <2>1 DEF SizeInv
<1>5. IndexInv(r)
  BY <1>1, <1>2 DEF IndexInv, SameFiles
<1> QED BY <1>3, <1>4, <1>5 DEF FsInv

\* Before every byte of a file there is a place for its next block: there are
\* fewer blocks than pointers.
LEMMA PlaceFor ==
  ASSUME NEW m, FsInv(m), NEW s \in Slot, NEW n \in Nat, Covered(m, s, n)
  PROVE  n \div UNITS \in Places
<1> DEFINE q == n \div UNITS
<1>1. q \in Nat /\ UNITS * q <= n
  BY StorageConstants
<1>2. \A j \in 0 .. q - 1 : UNITS * j \in 0 .. n - 1 /\ (UNITS * j) \div UNITS = j
  <2>1. ASSUME NEW j \in 0 .. q - 1 PROVE UNITS * j \in 0 .. n - 1 /\ (UNITS * j) \div UNITS = j
    <3>1. UNITS * j < UNITS * q
      BY <1>1, StorageConstants
    <3> QED BY <1>1, <3>1, StorageConstants
  <2> QED BY <2>1
<1>3. \A j \in 0 .. q - 1 : j \in Places /\ m.table[s].direct[j] \in DataBlocks
  BY <1>2 DEF Covered, Pointer
<1>4. ASSUME NEW j \in 0 .. q - 1, NEW k \in 0 .. q - 1,
             m.table[s].direct[j] = m.table[s].direct[k]
      PROVE  j = k
  <2>1. <<s, j>> \in PointersOf(m) /\ <<s, k>> \in PointersOf(m)
        /\ Direct(m, <<s, j>>) = Direct(m, <<s, k>>)
    BY <1>3, <1>4, StorageConstants DEF PointersOf, Direct, DataBlocks, BAD
  <2>2. <<s, j>> = <<s, k>>
    BY <2>1 DEF FsInv, BlockInv
  <2> QED BY <2>2
<1>5. q <= TOTAL_BLOCKS - DATA_START
  <2>1. PICK D : D = 0 .. q - 1 /\ IsFiniteSet(D) /\ Cardinality(D) = q
    BY <1>1, BlocksFinite
  <2>2. PICK f : f = [j \in D |-> m.table[s].direct[j]]
    OBVIOUS
  <2>3. f \in [D -> DataBlocks]
    BY <1>3, <2>1, <2>2
  <2>4. \A j, k \in D : f[j] = f[k] => j = k
    BY <1>4, <2>1, <2>2
  <2>5. ~ (Cardinality(DataBlocks) < Cardinality(D))
    <3>1. IsFiniteSet(DataBlocks) /\ IsFiniteSet(D)
      BY <2>1, BlocksFinite
    <3>2. SUFFICES ASSUME Cardinality(DataBlocks) < Cardinality(D) PROVE FALSE
      OBVIOUS
    <3>3. \E x, y \in D : x # y /\ f[x] = f[y]
      BY <2>3, <3>1, <3>2, FS_PigeonHole
    <3> QED BY <2>4, <3>3
  <2> QED BY <1>1, <2>1, <2>5, BlocksFinite, StorageConstants
<1>6. q < DIRECT
  BY <1>1, <1>5, BlocksFinite, TagFSAssumption
<1> QED BY <1>1, <1>6, StorageConstants DEF Places

-------------------------------------------------------------------------------
(***************************************************************************)
(* Writing: what a turn of the loop of tagfs_write_file leaves.            *)
(***************************************************************************)
\* w is reached from m by writing to slot s from offset on.
Written(m, s, offset, w) ==
  /\ w \in [m : FileSystem, done : Nat, ok : BOOLEAN]
  /\ BlockInv(w.m) /\ SameFiles(m, w.m)
  /\ \A t \in Slot, n \in Nat : Covered(m, t, n) => Covered(w.m, t, n)
  /\ Covered(w.m, s, offset + w.done)

LEMMA PutByteKeeps ==
  ASSUME NEW r \in FileSystem, NEW w \in [m : FileSystem, done : Nat, ok : BOOLEAN], w.m = r,
         NEW at \in Nat, NEW byte \in Bytes, NEW s, NEW b \in DataBlocks,
         NEW v, v = PutByte(w, s, at, byte, b)
  PROVE  /\ v \in [m : FileSystem, done : Nat, ok : BOOLEAN] /\ v.done = w.done + 1
         /\ v.m.table = r.table /\ v.m.used = r.used /\ v.m.freeBlocks = r.freeBlocks
         /\ v.m.nextId = r.nextId /\ v.m.index = r.index /\ v.m.bits = r.bits
         /\ v.m.freeInodes = r.freeInodes /\ v.m.stopped = r.stopped
         /\ \A c \in DataBlocks, o \in Offsets :
              v.m.storage[c][o] = IF c = b /\ o = at % UNITS THEN byte ELSE r.storage[c][o]
         /\ v.ok = w.ok
<1>1. b # BAD /\ at % UNITS \in Offsets
  BY StorageConstants DEF DataBlocks, BAD, Offsets
<1>2. v = [w EXCEPT !.m.storage[b][at % UNITS] = byte, !.done = @ + 1]
  BY <1>1 DEF PutByte
<1>3. PICK z : z = [r.storage[b] EXCEPT ![at % UNITS] = byte]
  OBVIOUS
<1>4. r.storage \in [DataBlocks -> [Offsets -> Bytes \cup {ZERO}]]
  BY DEF FileSystem
<1>5. z \in [Offsets -> Bytes \cup {ZERO}]
  BY <1>1, <1>3, <1>4
<1>6. PICK c : c = [r.storage EXCEPT ![b] = z]
  OBVIOUS
<1>7. c \in [DataBlocks -> [Offsets -> Bytes \cup {ZERO}]]
      /\ \A d \in DataBlocks, o \in Offsets :
           c[d][o] = IF d = b /\ o = at % UNITS THEN byte ELSE r.storage[d][o]
  <2>1. c \in [DataBlocks -> [Offsets -> Bytes \cup {ZERO}]]
    BY <1>4, <1>5, <1>6
  <2>2. \A d \in DataBlocks : c[d] = IF d = b THEN z ELSE r.storage[d]
    BY <1>4, <1>6
  <2>3. \A o \in Offsets : z[o] = IF o = at % UNITS THEN byte ELSE r.storage[b][o]
    BY <1>3, <1>4
  <2> QED BY <2>1, <2>2, <2>3
<1>8. PICK y : y = [r EXCEPT !.storage = c]
  OBVIOUS
<1>9. y \in FileSystem /\ y.table = r.table /\ y.used = r.used /\ y.freeBlocks = r.freeBlocks
      /\ y.nextId = r.nextId /\ y.index = r.index /\ y.bits = r.bits
      /\ y.freeInodes = r.freeInodes /\ y.stopped = r.stopped /\ y.storage = c
  BY <1>7, <1>8 DEF FileSystem
<1>10. v = [w EXCEPT !.m = y, !.done = w.done + 1]
  BY <1>2, <1>3, <1>6, <1>8
<1>11. v.m = y /\ v.done = w.done + 1 /\ v.ok = w.ok /\ v \in [m : FileSystem, done : Nat, ok : BOOLEAN]
  <2>1. PICK e : e = w.done + 1 /\ e \in Nat
    OBVIOUS
  <2>2. v = [w EXCEPT !.m = y, !.done = e]
    BY <1>10, <2>1
  <2>3. v.m = y /\ v.done = e /\ v.ok = w.ok /\ v \in [m : FileSystem, done : Nat, ok : BOOLEAN]
    BY <1>9, <2>1, <2>2
  <2> QED BY <2>1, <2>3
<1> QED BY <1>7, <1>9, <1>11

\* What the parts of the invariant say of the blocks depends on the table and
\* the bitmap alone.
LEMMA SameBlocks ==
  ASSUME NEW r, NEW v, v.table = r.table, v.used = r.used, v.freeBlocks = r.freeBlocks
  PROVE  /\ BlockInv(r) => BlockInv(v)
         /\ \A t, n : Covered(v, t, n) = Covered(r, t, n)
<1>1. \A p : Direct(v, p) = Direct(r, p)
  BY DEF Direct
<1>2. PointersOf(v) = PointersOf(r)
  BY <1>1 DEF PointersOf
<1>3. {Direct(v, p) : p \in PointersOf(v)} = {Direct(r, p) : p \in PointersOf(r)}
  BY <1>1, <1>2
<1>4. BlockInv(r) => BlockInv(v)
  BY <1>1, <1>2, <1>3 DEF BlockInv
<1>5. \A t, n : Covered(v, t, n) = Covered(r, t, n)
  BY DEF Covered
<1> QED BY <1>4, <1>5

LEMMA SameByte ==
  ASSUME NEW a \in Nat, NEW b \in Nat, a \div UNITS = b \div UNITS, a % UNITS = b % UNITS
  PROVE  a = b
<1>1. a = UNITS * (a \div UNITS) + (a % UNITS) /\ b = UNITS * (b \div UNITS) + (b % UNITS)
  BY StorageConstants
<1> QED BY <1>1

\* A turn that leads from w to v writes the byte and no other, or gives up.
TurnBytes(w, s, offset, byte, v) ==
  /\ \/ w.ok /\ v.ok /\ v.done = w.done + 1 /\ StoredAt(v.m, s, offset + w.done) = byte
     \/ ~v.ok /\ v.done = w.done
  /\ \A t \in Slot, a \in Nat :
       Covered(w.m, t, a + 1) /\ (t = s /\ v.done # w.done => a # offset + w.done)
         => StoredAt(v.m, t, a) = StoredAt(w.m, t, a)

LEMMA WriteTurn ==
  ASSUME NEW m, FsInv(m), NEW s \in UsedSlots(m), NEW offset \in Nat, NEW byte \in Bytes,
         NEW w, Written(m, s, offset, w)
  PROVE  /\ Written(m, s, offset, WriteNext(w, s, offset, byte))
         /\ TurnBytes(w, s, offset, byte, WriteNext(w, s, offset, byte))
<1>1. CASE ~w.ok
  BY <1>1 DEF WriteNext, TurnBytes
<1>2. CASE w.ok
  <2>1. PICK u, at, i : u = w.m /\ at = offset + w.done /\ i = at \div UNITS
    OBVIOUS
  <2>2. /\ w \in [m : FileSystem, done : Nat, ok : BOOLEAN] /\ u \in FileSystem /\ at \in Nat
        /\ BlockInv(u) /\ SameFiles(m, u) /\ Covered(u, s, at) /\ s \in Slot
        /\ \A t \in Slot, n \in Nat : Covered(m, t, n) => Covered(u, t, n)
    BY <2>1 DEF Written, UsedSlots
  <2>3. FsInv(u)
    BY <2>2, SameFilesKeep
  <2>4. s \in UsedSlots(u)
    BY <2>2 DEF UsedSlots, SameFiles
  <2>5. i \in Places
    BY <2>1, <2>2, <2>3, PlaceFor
  <2>6. PICK r : r = AllocByIndex(u, s, i)
    OBVIOUS
  <2>7. /\ r \in FileSystem /\ BlockInv(r) /\ SameFiles(u, r)
        /\ \A t \in Slot, n \in Nat : Covered(u, t, n) => Covered(r, t, n)
        /\ r.table[s].direct[i] \in DataBlocks \cup {BAD}
        /\ \A t \in Slot, a \in Nat : Covered(u, t, a + 1) => StoredAt(r, t, a) = StoredAt(u, t, a)
    BY <2>3, <2>4, <2>5, <2>6, AllocKeeps
  <2>8. SameFiles(m, r) /\ \A t \in Slot, n \in Nat : Covered(m, t, n) => Covered(r, t, n)
    BY <2>2, <2>7 DEF SameFiles
  <2>9. PICK got, b : got = [w EXCEPT !.m = r] /\ b = r.table[s].direct[i]
    OBVIOUS
  <2>10. got \in [m : FileSystem, done : Nat, ok : BOOLEAN] /\ got.m = r /\ got.done = w.done
    BY <2>2, <2>7, <2>9
  <2>11. PICK v : v = WriteNext(w, s, offset, byte)
    OBVIOUS
  <2>12. v = PutByte(got, s, at, byte, b)
    <3>1. WriteNext(w, s, offset, byte) = WriteByte(w, s, at, byte)
      BY <1>2, <2>1 DEF WriteNext
    <3>2. [w EXCEPT !.m = AllocByIndex(@, s, at \div UNITS)] = got
      BY <2>1, <2>6, <2>9
    <3>3. b = Pointer(got.m.table[s], at)
      BY <2>1, <2>9, <2>10 DEF Pointer
    <3> QED BY <2>11, <3>1, <3>2, <3>3 DEF WriteByte
  <2>13. CASE b = BAD
    <3>1. v = [got EXCEPT !.ok = FALSE]
      BY <2>12, <2>13 DEF PutByte
    <3>2. v \in [m : FileSystem, done : Nat, ok : BOOLEAN] /\ v.m = r /\ v.done = w.done
          /\ ~v.ok
      BY <2>10, <3>1
    <3>3. Covered(r, s, at)
      BY <2>2, <2>7
    <3>4. TurnBytes(w, s, offset, byte, v)
      BY <2>1, <2>7, <3>2 DEF TurnBytes
    <3>5. Written(m, s, offset, v)
      BY <2>1, <2>7, <2>8, <3>2, <3>3 DEF Written
    <3> QED BY <2>11, <3>4, <3>5
  <2>14. CASE b # BAD
    <3>1. b \in DataBlocks
      BY <2>7, <2>9, <2>14
    <3>2. /\ v \in [m : FileSystem, done : Nat, ok : BOOLEAN] /\ v.done = got.done + 1
          /\ v.m.table = r.table /\ v.m.used = r.used /\ v.m.freeBlocks = r.freeBlocks
          /\ v.m.nextId = r.nextId /\ v.m.index = r.index /\ v.m.bits = r.bits
          /\ v.m.freeInodes = r.freeInodes /\ v.m.stopped = r.stopped
          /\ \A c \in DataBlocks, o \in Offsets :
               v.m.storage[c][o] = IF c = b /\ o = at % UNITS THEN byte ELSE r.storage[c][o]
          /\ v.ok = got.ok
      BY <2>2, <2>7, <2>10, <2>12, <3>1, PutByteKeeps
    <3>3. BlockInv(v.m) /\ \A t, n : Covered(v.m, t, n) = Covered(r, t, n)
      BY <2>7, <3>2, SameBlocks
    <3>4. SameFiles(m, v.m)
      BY <2>8, <3>2 DEF SameFiles
    <3>5. Covered(r, s, at + 1)
      <4>1. Covered(r, s, at)
        BY <2>2, <2>7
      <4>2. at \div UNITS \in Places /\ Pointer(r.table[s], at) \in DataBlocks
        BY <2>1, <2>5, <2>9, <3>1 DEF Pointer
      <4>3. \A k \in 0 .. (at + 1) - 1 : k \in 0 .. at - 1 \/ k = at
        BY <2>2
      <4> QED BY <4>1, <4>2, <4>3 DEF Covered
    <3>6. offset + v.done = at + 1
      BY <2>1, <2>2, <2>10, <3>2
    <3>7. Covered(v.m, s, offset + v.done)
      BY <3>3, <3>5, <3>6
    <3>8. \A t \in Slot, n \in Nat : Covered(m, t, n) => Covered(v.m, t, n)
      BY <2>8, <3>3
    <3>9. Written(m, s, offset, v)
      BY <3>2, <3>3, <3>4, <3>7, <3>8 DEF Written
    <3>10. Pointer(r.table[s], at) = b /\ at % UNITS \in Offsets
      BY <2>1, <2>2, <2>9, StorageConstants DEF Pointer, Offsets
    <3>11. StoredAt(v.m, s, at) = byte
      BY <3>1, <3>2, <3>10 DEF StoredAt
    <3>12. ASSUME NEW t \in Slot, NEW a \in Nat, Covered(u, t, a + 1), t = s => a # at
           PROVE  StoredAt(v.m, t, a) = StoredAt(u, t, a)
      <4>1. PICK j, c, o : j = a \div UNITS /\ c = r.table[t].direct[j] /\ o = a % UNITS
        OBVIOUS
      <4>2. Covered(r, t, a + 1)
        BY <2>7, <3>12
      <4>3. j \in Places /\ c \in DataBlocks /\ Pointer(r.table[t], a) = c /\ o \in Offsets
        BY <4>1, <4>2, StorageConstants DEF Covered, Pointer, Offsets
      <4>4. ~(c = b /\ o = at % UNITS)
        <5>1. SUFFICES ASSUME c = b, o = at % UNITS PROVE FALSE
          OBVIOUS
        <5>2. <<t, j>> \in PointersOf(r) /\ <<s, i>> \in PointersOf(r)
              /\ Direct(r, <<t, j>>) = Direct(r, <<s, i>>)
          <6>1. b # 0 /\ b # BAD /\ s \in Slot
            BY <2>2, <3>1, StorageConstants DEF DataBlocks, BAD
          <6>2. Direct(r, <<t, j>>) = b /\ Direct(r, <<s, i>>) = b
            BY <2>9, <4>1, <5>1 DEF Direct
          <6>3. <<t, j>> \in Slot \X Places /\ <<s, i>> \in Slot \X Places
            BY <2>5, <4>3, <6>1
          <6> QED BY <6>1, <6>2, <6>3 DEF PointersOf
        <5>3. <<t, j>> = <<s, i>>
          BY <2>7, <5>2 DEF BlockInv
        <5>4. t = s /\ a \div UNITS = at \div UNITS /\ a % UNITS = at % UNITS
          BY <2>1, <4>1, <5>1, <5>3
        <5>5. a = at
          BY <2>2, <5>4, SameByte
        <5> QED BY <3>12, <5>4, <5>5
      <4>5. v.m.storage[c][o] = r.storage[c][o]
        BY <3>2, <4>3, <4>4
      <4>6. StoredAt(v.m, t, a) = StoredAt(r, t, a)
        BY <3>2, <4>1, <4>3, <4>5 DEF StoredAt
      <4> QED BY <2>7, <3>12, <4>6
    <3>13. v.ok /\ v.done = w.done + 1
      BY <1>2, <2>2, <2>9, <2>10, <3>2
    <3>14. TurnBytes(w, s, offset, byte, v)
      <4>1. v.done # w.done
        BY <2>2, <3>13
      <4>2. \A t \in Slot, a \in Nat :
              Covered(w.m, t, a + 1) /\ (t = s /\ v.done # w.done => a # offset + w.done)
                => StoredAt(v.m, t, a) = StoredAt(w.m, t, a)
        BY <2>1, <3>12, <4>1
      <4>3. StoredAt(v.m, s, offset + w.done) = byte
        BY <2>1, <3>11
      <4> QED BY <1>2, <3>13, <4>2, <4>3 DEF TurnBytes
    <3> QED BY <2>11, <3>9, <3>14
  <2> QED BY <2>13, <2>14
<1> QED BY <1>1, <1>2

\* After k turns: what was asked for is in the file as far as the loop got, and
\* every other byte of every file is what it was.
WrittenBytes(m, s, offset, data, k, w) ==
  /\ Written(m, s, offset, w) /\ w.done <= k /\ (w.ok => w.done = k)
  /\ \A j \in 1 .. w.done : StoredAt(w.m, s, offset + j - 1) = data[j]
  /\ \A t \in Slot, a \in Nat :
       Covered(m, t, a + 1) /\ (t = s => a \notin offset .. offset + w.done - 1)
         => StoredAt(w.m, t, a) = StoredAt(m, t, a)

LEMMA NextTurn ==
  ASSUME NEW m, FsInv(m), NEW s \in UsedSlots(m), NEW offset \in Nat, NEW data \in Seq(Bytes),
         NEW k \in 1 .. Len(data), NEW w, WrittenBytes(m, s, offset, data, k - 1, w),
         NEW v, v = WriteNext(w, s, offset, data[k])
  PROVE  WrittenBytes(m, s, offset, data, k, v)
<1>1. data[k] \in Bytes /\ k \in Nat /\ k >= 1 /\ s \in Slot
  BY DEF UsedSlots
<1>2. /\ Written(m, s, offset, w) /\ w.done <= k - 1 /\ (w.ok => w.done = k - 1)
      /\ w.done \in Nat /\ w.ok \in BOOLEAN
  BY DEF WrittenBytes, Written
<1>3. Written(m, s, offset, v) /\ TurnBytes(w, s, offset, data[k], v)
  <2>1. PICK byte : byte = data[k] /\ byte \in Bytes
    BY <1>1
  <2>2. /\ Written(m, s, offset, WriteNext(w, s, offset, byte))
        /\ TurnBytes(w, s, offset, byte, WriteNext(w, s, offset, byte))
    BY <1>2, <2>1, WriteTurn
  <2> QED BY <2>1, <2>2
<1>4. /\ \/ w.ok /\ v.ok /\ v.done = k /\ w.done = k - 1 /\ StoredAt(v.m, s, offset + w.done) = data[k]
         \/ ~v.ok /\ v.done = w.done
      /\ v.done <= k /\ (v.ok => v.done = k) /\ v.done \in Nat /\ w.done <= v.done
  BY <1>1, <1>2, <1>3 DEF TurnBytes
<1>5. ASSUME NEW t \in Slot, NEW a \in Nat, Covered(w.m, t, a + 1),
             t = s /\ v.done # w.done => a # offset + w.done
      PROVE  StoredAt(v.m, t, a) = StoredAt(w.m, t, a)
  BY <1>3, <1>5 DEF TurnBytes
<1>6. ASSUME NEW j \in 1 .. v.done PROVE StoredAt(v.m, s, offset + j - 1) = data[j]
  <2>1. CASE j \in 1 .. w.done
    <3>0. PICK a, e, z : a = offset + j - 1 /\ e = a + 1 /\ z = offset + w.done
      OBVIOUS
    <3>1. a \in Nat /\ a # offset + w.done /\ e <= z /\ e \in Nat /\ z \in Nat
      BY <1>2, <2>1, <3>0
    <3>2. Covered(w.m, s, z)
      BY <1>2, <3>0 DEF Written
    <3>3. \A at \in 0 .. e - 1 : at \in 0 .. z - 1
      BY <3>1
    <3>4. Covered(w.m, s, e)
      BY <3>2, <3>3 DEF Covered
    <3>5. StoredAt(v.m, s, a) = StoredAt(w.m, s, a)
      BY <1>1, <1>5, <3>0, <3>1, <3>4
    <3>6. StoredAt(w.m, s, offset + j - 1) = data[j]
      BY <2>1 DEF WrittenBytes
    <3> QED BY <3>0, <3>5, <3>6
  <2>2. CASE j \notin 1 .. w.done
    <3>1. j = k /\ w.done = k - 1 /\ StoredAt(v.m, s, offset + w.done) = data[k]
      BY <1>1, <1>2, <1>4, <2>2
    <3>2. offset + j - 1 = offset + w.done
      BY <1>1, <3>1
    <3> QED BY <3>1, <3>2
  <2> QED BY <2>1, <2>2
<1>7. ASSUME NEW t \in Slot, NEW a \in Nat, Covered(m, t, a + 1),
             t = s => a \notin offset .. offset + v.done - 1
      PROVE  StoredAt(v.m, t, a) = StoredAt(m, t, a)
  <2>1. Covered(w.m, t, a + 1)
    <3>1. a + 1 \in Nat
      OBVIOUS
    <3> QED BY <1>2, <1>7, <3>1 DEF Written
  <2>2. t = s => a \notin offset .. offset + w.done - 1
    BY <1>2, <1>4, <1>7
  <2>3. t = s /\ v.done # w.done => a # offset + w.done
    BY <1>2, <1>4, <1>7
  <2>4. StoredAt(w.m, t, a) = StoredAt(m, t, a)
    BY <1>7, <2>2 DEF WrittenBytes
  <2>5. StoredAt(v.m, t, a) = StoredAt(w.m, t, a)
    BY <1>5, <2>1, <2>3
  <2> QED BY <2>4, <2>5
<1> QED BY <1>3, <1>4, <1>6, <1>7 DEF WrittenBytes

LEMMA WriteLoop ==
  ASSUME NEW m, FsInv(m), NEW s \in UsedSlots(m), NEW offset \in Nat, NEW data \in Seq(Bytes),
         Written(m, s, offset, [m |-> m, done |-> 0, ok |-> TRUE])
  PROVE  WrittenBytes(m, s, offset, data, Len(data), WriteBytes(m, s, offset, data))
<1>1. PICK n, x : n = Len(data) /\ n \in Nat /\ x = [m |-> m, done |-> 0, ok |-> TRUE]
  OBVIOUS
<1> DEFINE S == {v \in [m : FileSystem, done : Nat, ok : BOOLEAN] : Written(m, s, offset, v)}
<1>2. \A v : v \in S <=> Written(m, s, offset, v)
  BY DEF Written
<1>3. \A v \in S, k \in 1 .. Len(data) : WriteNext(v, s, offset, data[k]) \in S
  <2>1. ASSUME NEW v \in S, NEW k \in 1 .. Len(data) PROVE WriteNext(v, s, offset, data[k]) \in S
    <3>1. PICK byte : byte = data[k] /\ byte \in Bytes
      OBVIOUS
    <3> HIDE DEF S
    <3>2. Written(m, s, offset, v)
      BY <1>2
    <3>3. Written(m, s, offset, WriteNext(v, s, offset, byte))
      BY <3>1, <3>2, WriteTurn
    <3> QED BY <1>2, <3>1, <3>3
  <2> QED BY <2>1
<1>4. [m |-> m, done |-> 0, ok |-> TRUE] \in S
  BY <1>2
<1> HIDE DEF S
<1>5. PICK g : IsWrite(g, m, s, offset, data)
  <2>1. Len(data) \in Nat
    BY <1>1
  <2> QED BY <1>3, <1>4, <2>1, WriteRun
<1>6. /\ g[0] = x /\ WriteBytes(m, s, offset, data) = g[n]
      /\ \A k \in 1 .. n : g[k] = WriteNext(g[k - 1], s, offset, data[k])
  BY <1>1, <1>5 DEF IsWrite
<1>7. WrittenBytes(m, s, offset, data, 0, x)
  <2>1. x.m = m /\ x.done = 0 /\ x.ok = TRUE /\ Written(m, s, offset, x)
    BY <1>1
  <2>2. \A j \in 1 .. x.done : FALSE
    BY <2>1
  <2> QED BY <2>1, <2>2 DEF WrittenBytes
<1> DEFINE R == {p \in (0 .. n) \X [m : FileSystem, done : Nat, ok : BOOLEAN] :
                   WrittenBytes(m, s, offset, data, p[1], p[2])}
           h == [k \in 0 .. n |-> <<k, g[k]>>]
<1>8. \A k \in 0 .. n : \A w : <<k, w>> \in R <=> WrittenBytes(m, s, offset, data, k, w)
  BY DEF WrittenBytes, Written
<1>9. h[0] \in R
  <2>1. h[0] = <<0, x>> /\ 0 \in 0 .. n
    BY <1>1, <1>6
  <2> HIDE DEF h, R
  <2> QED BY <1>7, <1>8, <2>1
<1>10. ASSUME NEW k \in 1 .. n, h[k - 1] \in R PROVE h[k] \in R
  <2>1. k \in 0 .. n /\ k - 1 \in 0 .. n /\ k \in 1 .. Len(data)
    BY <1>1
  <2>2. h[k - 1] = <<k - 1, g[k - 1]>> /\ h[k] = <<k, g[k]>>
    BY <2>1
  <2> HIDE DEF h, R
  <2>3. WrittenBytes(m, s, offset, data, k - 1, g[k - 1])
    BY <1>8, <1>10, <2>1, <2>2
  <2>4. g[k] = WriteNext(g[k - 1], s, offset, data[k])
    BY <1>6
  <2>5. WrittenBytes(m, s, offset, data, k, g[k])
    BY <2>1, <2>3, <2>4, NextTurn
  <2> QED BY <1>8, <2>1, <2>2, <2>5
<1>11. h[n] \in R
  <2> HIDE DEF h, R
  <2>1. \A k \in 0 .. n : h[k] \in R
    BY <1>1, <1>9, <1>10, LoopKeeps
  <2> QED BY <1>1, <2>1
<1>12. h[n] = <<n, g[n]>> /\ n \in 0 .. n
  BY <1>1
<1>13. WrittenBytes(m, s, offset, data, n, g[n])
  <2> HIDE DEF h, R
  <2> QED BY <1>8, <1>11, <1>12
<1> QED BY <1>1, <1>6, <1>13

\* The larger of two numbers.
LEMMA MaxOfTwo ==
  ASSUME NEW a \in Nat, NEW b \in Nat
  PROVE  Max({a, b}) = IF a <= b THEN b ELSE a
<1>1. \A x \in {a, b} : (\A y \in {a, b} : x >= y) => x = IF a <= b THEN b ELSE a
  OBVIOUS
<1>2. \E x \in {a, b} : \A y \in {a, b} : x >= y
  <2>1. CASE a <= b
    BY <2>1
  <2>2. CASE b <= a
    BY <2>2
  <2> QED BY <2>1, <2>2
<1>3. Max({a, b}) \in {a, b} /\ \A y \in {a, b} : Max({a, b}) >= y
  BY <1>2 DEF Max
<1> QED BY <1>1, <1>3

\* The slot of a file, and no other slot has its id.
LEMMA SlotOfFile ==
  ASSUME NEW m, m.table \in [Slot -> Inode], InodeInv(m), NEW id \in FileIds(m)
  PROVE  /\ SlotOf(m, id) \in UsedSlots(m) /\ m.table[SlotOf(m, id)].id = id /\ id \in Nat \ {0}
         /\ \A t \in Slot : m.table[t].id = id => t = SlotOf(m, id)
<1> DEFINE S == {s \in Slot : m.table[s].id = id}
<1>1. S # {} /\ S \subseteq Nat /\ id \in Nat \ {0} /\ S \subseteq UsedSlots(m)
  <2>1. PICK s \in Slot : m.table[s].id = id /\ id # 0
    BY DEF FileIds
  <2>2. m.table[s].id \in Nat
    BY DEF Inode
  <2>3. S \subseteq Nat
    BY StorageConstants DEF Slot
  <2> QED BY <2>1, <2>2, <2>3 DEF UsedSlots
<1>2. SlotOf(m, id) \in S
  <2>1. Min(S) \in S
    <3> HIDE DEF S
    <3> QED BY <1>1, LeastMember
  <2> QED BY <2>1 DEF SlotOf
<1>3. \A s, t \in UsedSlots(m) : m.table[s].id = m.table[t].id => s = t
  BY DEF InodeInv
<1>4. \A t \in S : t = SlotOf(m, id)
  BY <1>1, <1>2, <1>3
<1> QED BY <1>1, <1>2, <1>4

\* A file gets other tags or another size, and keeps its id and its blocks.
LEMMA InodeSet ==
  ASSUME NEW m, FsInv(m), NEW s \in UsedSlots(m), NEW f \in Inode,
         f.id = m.table[s].id, f.direct = m.table[s].direct, Covered(m, s, f.size),
         NEW r, r = [m EXCEPT !.table = [m.table EXCEPT ![s] = f]]
  PROVE  /\ FsInv(r) /\ FileIds(r) = FileIds(m) /\ r.nextId = m.nextId
         /\ \A t \in Slot : r.table[t] = IF t = s THEN f ELSE m.table[t]
<1>1. m \in FileSystem /\ m.table \in [Slot -> Inode] /\ s \in Slot
      /\ BlockInv(m) /\ InodeInv(m) /\ SizeInv(m) /\ IndexInv(m)
  BY DEF FsInv, UsedSlots, FileSystem
<1>2. PICK T : T = [m.table EXCEPT ![s] = f]
  OBVIOUS
<1>3. T \in [Slot -> Inode] /\ \A t \in Slot : T[t] = IF t = s THEN f ELSE m.table[t]
  BY <1>1, <1>2
<1>4. /\ r \in FileSystem /\ r.table = T /\ r.used = m.used /\ r.freeBlocks = m.freeBlocks
      /\ r.bits = m.bits /\ r.freeInodes = m.freeInodes /\ r.index = m.index
      /\ r.nextId = m.nextId
  BY <1>1, <1>2, <1>3 DEF FileSystem
<1>5. \A t \in Slot : r.table[t].id = m.table[t].id /\ r.table[t].direct = m.table[t].direct
  BY <1>3, <1>4
<1>6. \A p \in Slot \X Places : Direct(r, p) = Direct(m, p)
  BY <1>5 DEF Direct
<1>7. PointersOf(r) = PointersOf(m) /\ \A p \in PointersOf(m) : Direct(r, p) = Direct(m, p)
  BY <1>6 DEF PointersOf
<1>8. BlockInv(r)
  <2>1. {Direct(r, p) : p \in PointersOf(r)} = {Direct(m, p) : p \in PointersOf(m)}
    BY <1>7
  <2> QED BY <1>1, <1>4, <1>7, <2>1 DEF BlockInv
<1>9. UsedSlots(r) = UsedSlots(m) /\ FileIds(r) = FileIds(m)
  BY <1>5 DEF UsedSlots, FileIds
<1>10. InodeInv(r)
  <2>1. \A t \in UsedSlots(m) : t \in Slot /\ m.table[t].id # 0
    BY DEF UsedSlots
  <2>2. \A t \in Slot : m.table[t].id = 0 => r.table[t] = m.table[t]
    BY <1>3, <1>4, <2>1
  <2> HIDE DEF UsedSlots
  <2> QED BY <1>1, <1>4, <1>5, <1>9, <2>1, <2>2 DEF InodeInv
<1>11. SizeInv(r)
  <2>1. \A t \in Slot : \A n : Covered(r, t, n) = Covered(m, t, n)
    BY <1>5 DEF Covered, Pointer
  <2>2. \A t \in Slot : Covered(m, t, r.table[t].size)
    BY <1>1, <1>3, <1>4 DEF SizeInv
  <2> QED BY <2>1, <2>2 DEF SizeInv
<1>12. IndexInv(r)
  BY <1>1, <1>4, <1>9 DEF IndexInv
<1> QED BY <1>3, <1>4, <1>8, <1>9, <1>10, <1>11, <1>12 DEF FsInv

\* Before the first turn nothing is written.
LEMMA WriteBegins ==
  ASSUME NEW m, FsInv(m), NEW s \in UsedSlots(m), NEW offset \in 0 .. m.table[s].size
  PROVE  Written(m, s, offset, [m |-> m, done |-> 0, ok |-> TRUE])
<1>1. m \in FileSystem /\ m.table \in [Slot -> Inode] /\ s \in Slot
  BY DEF FsInv, FileSystem, UsedSlots
<1>2. m.table[s].size \in Nat /\ offset \in Nat /\ offset <= m.table[s].size
  BY <1>1 DEF Inode
<1>3. Covered(m, s, m.table[s].size)
  BY <1>1 DEF FsInv, SizeInv
<1>4. \A at \in 0 .. offset - 1 : at \in 0 .. m.table[s].size - 1
  BY <1>2
<1>5. Covered(m, s, offset) /\ offset + 0 = offset
  BY <1>2, <1>3, <1>4 DEF Covered
<1>6. SameFiles(m, m) /\ BlockInv(m)
  BY DEF SameFiles, FsInv
<1> QED BY <1>1, <1>5, <1>6 DEF Written

\* A write: whatever could be written is covered by the size.
LEMMA FileWritten ==
  ASSUME NEW m, FsInv(m), NEW id \in FileIds(m), NEW data \in Seq(Bytes),
         NEW offset \in 0 .. File(m, id).size, NEW r, r = WriteFile(m, id, offset, data)
  PROVE  /\ FsInv(r.m) /\ FileIds(r.m) = FileIds(m) /\ r.m.nextId = m.nextId /\ r.done \in Nat
         /\ offset + r.done <= File(r.m, id).size
         /\ \A i \in FileIds(m) : File(m, i).size <= File(r.m, i).size
<1>1. m \in FileSystem /\ m.table \in [Slot -> Inode] /\ InodeInv(m)
  BY DEF FsInv, FileSystem
<1>2. PICK s : s = SlotOf(m, id) /\ s \in UsedSlots(m) /\ s \in Slot
  BY <1>1, SlotOfFile DEF UsedSlots
<1>3. File(m, id) = m.table[s] /\ m.table[s].size \in Nat /\ offset \in Nat
  BY <1>1, <1>2 DEF File, Inode
<1>4. Written(m, s, offset, [m |-> m, done |-> 0, ok |-> TRUE])
  <2>1. s \in UsedSlots(m) /\ offset \in 0 .. m.table[s].size
    BY <1>2, <1>3
  <2> QED BY <2>1, WriteBegins
<1>5. PICK w : w = WriteBytes(m, s, offset, data)
  OBVIOUS
<1>6. Written(m, s, offset, w)
  <2>1. s \in UsedSlots(m) /\ offset \in Nat
    BY <1>2, <1>3
  <2>2. WrittenBytes(m, s, offset, data, Len(data), WriteBytes(m, s, offset, data))
    BY <1>4, <2>1, WriteLoop
  <2> QED BY <1>5, <2>2 DEF WrittenBytes
<1>7. PICK u, e : u = w.m /\ e = offset + w.done
  OBVIOUS
<1>8. /\ w \in [m : FileSystem, done : Nat, ok : BOOLEAN] /\ u \in FileSystem /\ BlockInv(u)
      /\ SameFiles(m, u) /\ Covered(u, s, e) /\ w.done \in Nat /\ e \in Nat
      /\ \A t \in Slot, n \in Nat : Covered(m, t, n) => Covered(u, t, n)
  BY <1>3, <1>6, <1>7 DEF Written
<1>9. FsInv(u) /\ u.table \in [Slot -> Inode]
  BY <1>8, SameFilesKeep DEF FileSystem
<1>10. s \in UsedSlots(u) /\ FileIds(u) = FileIds(m) /\ u.nextId = m.nextId
       /\ \A t \in Slot : u.table[t].id = m.table[t].id /\ u.table[t].size = m.table[t].size
  BY <1>2, <1>8 DEF UsedSlots, FileIds, SameFiles
<1>11. PICK z, f : z = Max({u.table[s].size, e}) /\ f = [u.table[s] EXCEPT !.size = z]
  OBVIOUS
<1>12. z \in Nat /\ u.table[s].size \in Nat /\ u.table[s].size <= z /\ e <= z
       /\ (z = e \/ z = u.table[s].size)
  <2>1. u.table[s].size \in Nat
    BY <1>2, <1>9 DEF Inode
  <2>2. z = IF u.table[s].size <= e THEN e ELSE u.table[s].size
    BY <1>8, <1>11, <2>1, MaxOfTwo
  <2> QED BY <1>8, <2>1, <2>2
<1>13. f \in Inode /\ f.id = u.table[s].id /\ f.direct = u.table[s].direct /\ f.size = z
  BY <1>2, <1>9, <1>11, <1>12 DEF Inode
<1>14. Covered(u, s, f.size)
  <2>1. Covered(u, s, u.table[s].size)
    BY <1>2, <1>9 DEF FsInv, SizeInv
  <2> QED BY <1>8, <1>12, <1>13, <2>1
<1>15. PICK v : v = [u EXCEPT !.table = [u.table EXCEPT ![s] = f]]
  OBVIOUS
<1>16. /\ FsInv(v) /\ FileIds(v) = FileIds(u) /\ v.nextId = u.nextId
       /\ \A t \in Slot : v.table[t] = IF t = s THEN f ELSE u.table[t]
  BY <1>9, <1>10, <1>13, <1>14, <1>15, InodeSet
<1>17. r.m = v /\ r.done = w.done
  <2>1. r = Grown(w, s, offset, data)
    BY <1>2, <1>5 DEF WriteFile
  <2>2. r = [w EXCEPT !.m = [u EXCEPT !.table = [u.table EXCEPT ![s] = [u.table[s] EXCEPT !.size = z]]]]
    BY <1>7, <1>11, <2>1 DEF Grown
  <2>3. r = [w EXCEPT !.m = v]
    BY <1>11, <1>15, <2>2
  <2> QED BY <1>8, <2>3
<1>18. \A i \in FileIds(m) : SlotOf(m, i) \in Slot /\ SlotOf(v, i) = SlotOf(m, i)
  <2>1. \A t \in Slot : v.table[t].id = m.table[t].id
    BY <1>10, <1>13, <1>16
  <2>2. \A i : SlotOf(v, i) = SlotOf(m, i)
    BY <2>1 DEF SlotOf
  <2>3. \A i \in FileIds(m) : SlotOf(m, i) \in Slot
    BY <1>1, SlotOfFile DEF UsedSlots
  <2> QED BY <2>2, <2>3
<1>19. \A t \in Slot : m.table[t].size <= v.table[t].size
  <2>1. \A t \in Slot : m.table[t].size \in Nat
    BY <1>1 DEF Inode
  <2> QED BY <1>10, <1>12, <1>13, <1>16, <2>1
<1>20. e <= File(v, id).size
  BY <1>2, <1>12, <1>13, <1>16, <1>18 DEF File
<1>21. \A i \in FileIds(m) : File(m, i).size <= File(v, i).size
  BY <1>18, <1>19 DEF File
<1> QED BY <1>7, <1>8, <1>10, <1>16, <1>17, <1>20, <1>21

-------------------------------------------------------------------------------
(***************************************************************************)
(* The index of tags.                                                      *)
(***************************************************************************)
LEMMA IndexType ==
  \A f : f \in Index <=> DOMAIN f \subseteq TagSet /\ f \in [DOMAIN f -> Seq(Nat)]
<1>1. \A f : f \in Index => DOMAIN f \subseteq TagSet /\ f \in [DOMAIN f -> Seq(Nat)]
  BY DEF Index
<1>2. ASSUME NEW f, DOMAIN f \subseteq TagSet, f \in [DOMAIN f -> Seq(Nat)] PROVE f \in Index
  BY <1>2 DEF Index
<1> QED BY <1>1, <1>2

LEMMA AddToEntryKeeps ==
  ASSUME NEW index \in Index, NEW ids, ids \subseteq Nat, Naming(index, ids), NEW id \in ids,
         NEW t \in TagSet
  PROVE  AddToEntry(index, id, t) \in Index /\ Naming(AddToEntry(index, id, t), ids)
<1>0. PICK r : r = AddToEntry(index, id, t)
  OBVIOUS
<1> SUFFICES r \in Index /\ Naming(r, ids)
  BY <1>0
<1>1. DOMAIN index \subseteq TagSet /\ index \in [DOMAIN index -> Seq(Nat)] /\ id \in Nat
  BY IndexType
<1>2. CASE t \in DOMAIN index /\ ~ \E k \in DOMAIN index[t] : index[t][k] = id
  <2>1. r = [index EXCEPT ![t] = Append(index[t], id)]
    BY <1>0, <1>2 DEF AddToEntry
  <2>2. PICK q, e : q = index[t] /\ e = Append(q, id)
    OBVIOUS
  <2>3. q \in Seq(Nat) /\ \A k \in DOMAIN q : q[k] # id
    BY <1>1, <1>2, <2>2
  <2>4. e \in Seq(Nat) /\ Len(e) = Len(q) + 1 /\ e[Len(e)] = id /\ DOMAIN e = 1 .. Len(q) + 1
        /\ DOMAIN q = 1 .. Len(q) /\ Len(q) \in Nat /\ \A k \in 1 .. Len(q) : e[k] = q[k]
    BY <1>1, <2>2, <2>3
  <2>5. DOMAIN r = DOMAIN index /\ r[t] = e /\ \A u \in DOMAIN index : u # t => r[u] = index[u]
    BY <1>1, <1>2, <2>1, <2>2
  <2>6. r \in Index
    <3>1. r \in [DOMAIN index -> Seq(Nat)]
      BY <1>1, <1>2, <2>1, <2>2, <2>4
    <3> QED BY <1>1, <3>1, IndexType
  <2>7. \A k \in DOMAIN e : e[k] \in ids
    <3>1. \A k \in DOMAIN q : q[k] \in ids
      BY <1>2, <2>2 DEF Naming
    <3>2. \A k \in DOMAIN e : k \in DOMAIN q \/ k = Len(e)
      BY <2>4
    <3> QED BY <2>4, <3>1, <3>2
  <2>8. \A j, k \in DOMAIN e : e[j] = e[k] => j = k
    <3>1. \A j, k \in DOMAIN q : q[j] = q[k] => j = k
      BY <1>2, <2>2 DEF Naming
    <3>2. \A k \in DOMAIN e : (k \in DOMAIN q /\ e[k] = q[k] /\ e[k] # id) \/ k = Len(e)
      BY <2>3, <2>4
    <3> QED BY <2>4, <3>1, <3>2
  <2>9. ASSUME NEW u \in DOMAIN r
        PROVE  /\ \A k \in DOMAIN r[u] : r[u][k] \in ids
               /\ \A j, k \in DOMAIN r[u] : r[u][j] = r[u][k] => j = k
    <3>1. CASE u = t
      BY <2>5, <2>7, <2>8, <3>1
    <3>2. CASE u # t
      <4>1. u \in DOMAIN index /\ r[u] = index[u]
        BY <2>5, <2>9, <3>2
      <4> QED BY <4>1 DEF Naming
    <3> QED BY <3>1, <3>2
  <2> QED BY <2>6, <2>9 DEF Naming
<1>3. CASE t \notin DOMAIN index /\ ~(Cardinality(DOMAIN index) >= MAX_TAG_INDEX)
  <2>1. r = [u \in DOMAIN index \cup {t} |-> IF u = t THEN <<id>> ELSE index[u]]
    BY <1>0, <1>3 DEF AddToEntry
  <2>2. DOMAIN r = DOMAIN index \cup {t}
    BY <2>1
  <2>3. r[t] = <<id>> /\ \A u \in DOMAIN index : r[u] = index[u]
    BY <1>3, <2>1
  <2>4. r \in [DOMAIN r -> Seq(Nat)]
    <3>1. <<id>> \in Seq(Nat)
      BY <1>1
    <3> QED BY <1>1, <2>1, <2>2, <3>1
  <2>5. r \in Index
    <3> QED BY <1>1, <2>2, <2>4, IndexType
  <2> QED BY <1>1, <2>2, <2>3, <2>5 DEF Naming
<1>4. CASE r = index
  BY <1>4
<1>5. r = index \/ (t \in DOMAIN index /\ ~ \E k \in DOMAIN index[t] : index[t][k] = id)
      \/ (t \notin DOMAIN index /\ ~(Cardinality(DOMAIN index) >= MAX_TAG_INDEX))
  BY <1>0 DEF AddToEntry
<1> QED BY <1>2, <1>3, <1>4, <1>5

\* The loop of tagfs_index_add_file over the tags of the file has a run.
IsIndexing(g, index, id, tags, ids) ==
  /\ g[0] = index /\ IndexAddFile(index, id, tags) = g[Len(tags)]
  /\ \A k \in 1 .. Len(tags) : g[k] = AddToEntry(g[k - 1], id, tags[k])
  /\ \A k \in 0 .. Len(tags) : g[k] \in Index /\ Naming(g[k], ids)

LEMMA IndexRun ==
  ASSUME NEW index \in Index, NEW ids, ids \subseteq Nat, Naming(index, ids), NEW id \in ids,
         NEW tags \in Seq(TagSet)
  PROVE  \E g : IsIndexing(g, index, id, tags, ids)
<1> DEFINE S == {ix \in Index : Naming(ix, ids)}
           n == Len(tags)
           F == [k \in 1 .. n |-> [ix \in S |-> AddToEntry(ix, id, tags[k])]]
           Turns(ix) == [k \in 0 .. n |-> IF k = 0 THEN index ELSE AddToEntry(ix[k - 1], id, tags[k])]
           loop == CHOOSE ix : ix = Turns(ix)
<1>0. n \in Nat /\ index \in S
  OBVIOUS
<1>a. \A ix \in S, k \in 1 .. n : AddToEntry(ix, id, tags[k]) \in S
  <2>1. ASSUME NEW ix \in S, NEW k \in 1 .. n PROVE AddToEntry(ix, id, tags[k]) \in S
    <3>1. PICK t : t = tags[k] /\ t \in TagSet
      OBVIOUS
    <3>2. AddToEntry(ix, id, t) \in S
      BY <3>1, AddToEntryKeeps
    <3> QED BY <3>1, <3>2
  <2> QED BY <2>1
<1>1. \E ix : ix = Turns(ix)
  <2>1. PICK j, x, T, G : j = n /\ j \in Nat /\ x = index /\ T = S /\ x \in T
                          /\ G = F /\ G \in [1 .. j -> [T -> T]]
    <3>1. F \in [1 .. n -> [S -> S]]
      <4> HIDE DEF S, n
      <4> QED BY <1>a
    <3> HIDE DEF F, S, n
    <3> QED BY <1>0, <3>1
  <2>2. PICK g : g \in [0 .. n -> S] /\ g[0] = index /\ \A k \in 1 .. n : g[k] = G[k][g[k - 1]]
    <3> HIDE DEF F, S, n
    <3>1. \E g : IsRun(g, T, j, x, G)
      BY <2>1, LoopRuns
    <3> QED BY <2>1, <3>1 DEF IsRun
  <2>3. ASSUME NEW k \in 0 .. n, k # 0
        PROVE  g[k] = AddToEntry(g[k - 1], id, tags[k])
    <3>1. k \in 1 .. n /\ k - 1 \in 0 .. n
      BY <1>0, <2>3
    <3> HIDE DEF S, n
    <3>2. g[k - 1] \in S
      BY <2>2, <3>1
    <3>3. G[k][g[k - 1]] = AddToEntry(g[k - 1], id, tags[k])
      BY <2>1, <3>1, <3>2
    <3> QED BY <2>2, <3>1, <3>3
  <2>4. g = Turns(g)
    <3> HIDE DEF S, n
    <3> QED BY <2>2, <2>3
  <2> QED BY <2>4
<1>2. loop = Turns(loop)
  BY <1>1
<1>3. IndexAddFile(index, id, tags) = loop[n]
  BY DEF IndexAddFile
<1> HIDE DEF loop
<1>4. loop[0] = index /\ \A k \in 1 .. n : loop[k] = AddToEntry(loop[k - 1], id, tags[k])
  <2>1. loop[0] = index
    BY <1>0, <1>2
  <2>2. ASSUME NEW k \in 1 .. n PROVE loop[k] = AddToEntry(loop[k - 1], id, tags[k])
    <3>1. k \in 0 .. n /\ k # 0
      BY <1>0
    <3>2. loop[k] = Turns(loop)[k]
      BY <1>2
    <3> QED BY <3>1, <3>2
  <2> QED BY <2>1, <2>2
<1> HIDE DEF S, n
<1>5. loop[0] \in S /\ \A k \in 1 .. n : loop[k - 1] \in S => loop[k] \in S
  BY <1>0, <1>a, <1>4
<1>6. \A k \in 0 .. n : loop[k] \in S
  BY <1>0, <1>5, LoopKeeps
<1>7. \A k \in 0 .. n : loop[k] \in Index /\ Naming(loop[k], ids)
  BY <1>6 DEF S
<1> QED BY <1>3, <1>4, <1>7 DEF IsIndexing, n

LEMMA IndexAddFileKeeps ==
  ASSUME NEW index \in Index, NEW ids, ids \subseteq Nat, Naming(index, ids), NEW id \in ids,
         NEW tags \in Seq(TagSet)
  PROVE  IndexAddFile(index, id, tags) \in Index /\ Naming(IndexAddFile(index, id, tags), ids)
<1>1. PICK g : IsIndexing(g, index, id, tags, ids)
  BY IndexRun
<1>2. Len(tags) \in 0 .. Len(tags)
  OBVIOUS
<1> QED BY <1>1, <1>2 DEF IsIndexing

\* Another index for the same files.
LEMMA IndexSet ==
  ASSUME NEW m, FsInv(m), NEW ix \in Index, Naming(ix, FileIds(m)),
         NEW r, r = [m EXCEPT !.index = ix]
  PROVE  FsInv(r) /\ FileIds(r) = FileIds(m) /\ r.nextId = m.nextId /\ r.table = m.table
<1>1. m \in FileSystem /\ BlockInv(m) /\ InodeInv(m) /\ SizeInv(m)
  BY DEF FsInv
<1>2. /\ r \in FileSystem /\ r.table = m.table /\ r.used = m.used /\ r.freeBlocks = m.freeBlocks
      /\ r.bits = m.bits /\ r.freeInodes = m.freeInodes /\ r.index = ix /\ r.nextId = m.nextId
  BY <1>1 DEF FileSystem
<1>3. BlockInv(r) /\ \A t, n : Covered(r, t, n) = Covered(m, t, n)
  <2>1. r.table = m.table /\ r.used = m.used /\ r.freeBlocks = m.freeBlocks
    BY <1>2
  <2>2. \A v : v.table = m.table /\ v.used = m.used /\ v.freeBlocks = m.freeBlocks
              => (BlockInv(m) => BlockInv(v)) /\ \A t, n : Covered(v, t, n) = Covered(m, t, n)
    BY SameBlocks
  <2> QED BY <1>1, <2>1, <2>2
<1>4. UsedSlots(r) = UsedSlots(m) /\ FileIds(r) = FileIds(m)
  BY <1>2 DEF UsedSlots, FileIds
<1>5. InodeInv(r) /\ SizeInv(r) /\ IndexInv(r)
  BY <1>1, <1>2, <1>3, <1>4 DEF InodeInv, SizeInv, IndexInv
<1> QED BY <1>2, <1>3, <1>4, <1>5 DEF FsInv

LEMMA RemoveAtFields ==
  ASSUME NEW S, NEW q \in Seq(S), NEW i \in 1 .. Len(q)
  PROVE  /\ RemoveAt(q, i) \in Seq(S) /\ Len(RemoveAt(q, i)) = Len(q) - 1
         /\ \A j \in 1 .. Len(q) - 1 : RemoveAt(q, i)[j] = IF j < i THEN q[j] ELSE q[j + 1]
<1>1. PICK a, b : a = SubSeq(q, 1, i - 1) /\ b = SubSeq(q, i + 1, Len(q))
  OBVIOUS
<1>2. a \in Seq(S) /\ Len(a) = i - 1 /\ \A j \in 1 .. i - 1 : a[j] = q[j]
  BY <1>1
<1>3. b \in Seq(S) /\ Len(b) = Len(q) - i /\ \A j \in 1 .. Len(q) - i : b[j] = q[i + j]
  BY <1>1
<1>4. RemoveAt(q, i) = a \o b
  BY <1>1 DEF RemoveAt
<1>5. PICK c : c = a \o b
  OBVIOUS
<1>6. c \in Seq(S) /\ Len(c) = Len(q) - 1
  BY <1>2, <1>3, <1>5
<1>7. ASSUME NEW j \in 1 .. Len(q) - 1 PROVE c[j] = IF j < i THEN q[j] ELSE q[j + 1]
  <2>1. CASE j < i
    BY <1>2, <1>3, <1>5, <2>1
  <2>2. CASE i <= j
    <3>1. j - Len(a) \in 1 .. Len(q) - i /\ i + (j - Len(a)) = j + 1 /\ ~(j <= Len(a))
      BY <1>2, <2>2
    <3>2. c[j] = b[j - Len(a)]
      BY <1>2, <1>3, <1>5, <3>1
    <3>3. PICK p : p = j - Len(a) /\ p \in 1 .. Len(q) - i /\ i + p = j + 1
      BY <3>1
    <3>4. b[p] = q[i + p]
      BY <1>3, <3>3
    <3> QED BY <2>2, <3>2, <3>3, <3>4
  <2> QED BY <2>1, <2>2
<1> QED BY <1>4, <1>5, <1>6, <1>7

\* An erased file leaves no entry, since each entry names it once.
LEMMA RemoveFileKeeps ==
  ASSUME NEW index \in Index, NEW ids, Naming(index, ids), NEW id
  PROVE  /\ IndexRemoveFile(index, id) \in Index
         /\ Naming(IndexRemoveFile(index, id), ids \ {id})
<1>0. PICK r : r = IndexRemoveFile(index, id)
  OBVIOUS
<1>1. DOMAIN index \subseteq TagSet /\ index \in [DOMAIN index -> Seq(Nat)]
  BY IndexType
<1>2. DOMAIN r = DOMAIN index
  BY <1>0 DEF IndexRemoveFile
<1>3. ASSUME NEW t \in DOMAIN index
      PROVE  /\ r[t] \in Seq(Nat)
             /\ \A k \in DOMAIN r[t] : r[t][k] \in ids \ {id}
             /\ \A j, k \in DOMAIN r[t] : r[t][j] = r[t][k] => j = k
  <2>1. PICK q, at : q = index[t] /\ at = {k \in DOMAIN q : q[k] = id}
    OBVIOUS
  <2>2. q \in Seq(Nat) /\ DOMAIN q = 1 .. Len(q) /\ Len(q) \in Nat
    BY <1>1, <2>1
  <2>3. r[t] = IF at = {} THEN q ELSE RemoveAt(q, Min(at))
    BY <1>0, <2>1 DEF IndexRemoveFile
  <2>4. /\ \A k \in 1 .. Len(q) : q[k] \in ids
        /\ \A j, k \in 1 .. Len(q) : q[j] = q[k] => j = k
    BY <2>1, <2>2 DEF Naming
  <2>5. CASE at = {}
    BY <2>1, <2>2, <2>3, <2>4, <2>5
  <2>6. CASE at # {}
    <3>1. PICK i : i = Min(at)
      OBVIOUS
    <3>2. i \in 1 .. Len(q) /\ q[i] = id
      <4>1. at \subseteq Nat
        BY <2>1, <2>2
      <4>2. i \in at
        BY <2>6, <3>1, <4>1, LeastMember
      <4> QED BY <2>1, <2>2, <4>2
    <3>3. PICK e : e = RemoveAt(q, i)
      OBVIOUS
    <3>4. /\ e \in Seq(Nat) /\ Len(e) = Len(q) - 1
          /\ \A j \in 1 .. Len(q) - 1 : e[j] = IF j < i THEN q[j] ELSE q[j + 1]
      BY <2>2, <3>2, <3>3, RemoveAtFields
    <3>5. \A j \in 1 .. Len(e) : e[j] \in ids \ {id}
      <4>1. ASSUME NEW j \in 1 .. Len(e) PROVE e[j] \in ids \ {id}
        <5>1. j \in 1 .. Len(q) /\ j + 1 \in 1 .. Len(q) /\ j \in 1 .. Len(q) - 1
          BY <2>2, <3>4
        <5>2. CASE j < i
          BY <2>4, <3>2, <3>4, <5>1, <5>2
        <5>3. CASE i <= j
          <6>1. e[j] = q[j + 1] /\ j + 1 # i
            BY <3>2, <3>4, <5>1, <5>3
          <6> QED BY <2>4, <3>2, <5>1, <6>1
        <5> QED BY <3>2, <5>1, <5>2, <5>3
      <4> QED BY <4>1
    <3>6. \A j, k \in 1 .. Len(e) : e[j] = e[k] => j = k
      <4>1. ASSUME NEW j \in 1 .. Len(e), NEW k \in 1 .. Len(e), e[j] = e[k] PROVE j = k
        <5>1. PICK a, b : a = (IF j < i THEN j ELSE j + 1) /\ b = (IF k < i THEN k ELSE k + 1)
          OBVIOUS
        <5>2. a \in 1 .. Len(q) /\ b \in 1 .. Len(q)
          BY <2>2, <3>2, <3>4, <5>1
        <5>3. e[j] = q[a] /\ e[k] = q[b]
          BY <3>4, <5>1
        <5>4. a = b
          BY <2>4, <4>1, <5>2, <5>3
        <5> QED BY <2>2, <3>2, <3>4, <5>1, <5>4
      <4> QED BY <4>1
    <3>7. r[t] = e /\ DOMAIN e = 1 .. Len(e)
      BY <2>3, <2>6, <3>1, <3>3, <3>4
    <3> QED BY <3>4, <3>5, <3>6, <3>7
  <2> QED BY <2>5, <2>6
<1>4. r \in [DOMAIN index -> Seq(Nat)]
  BY <1>0, <1>3 DEF IndexRemoveFile
<1>5. r \in Index
  BY <1>1, <1>2, <1>4, IndexType
<1>6. Naming(r, ids \ {id})
  BY <1>2, <1>3 DEF Naming
<1> QED BY <1>0, <1>5, <1>6

-------------------------------------------------------------------------------
(***************************************************************************)
(* Tags, creation and erasure.                                             *)
(***************************************************************************)
LEMMA FdKept ==
  ASSUME NEW m, NEW r, NEW T, m \in FileSystem, r \in FileSystem, FdOk(m, T), FilesGrow(m, r),
         r.table \in [Slot -> Inode], InodeInv(r), m.table \in [Slot -> Inode], InodeInv(m)
  PROVE  FdOk(r, T)
<1>1. ASSUME NEW d \in DOMAIN T
      PROVE  /\ T[d].id <= r.nextId
             /\ T[d].id \in FileIds(r) => T[d].position <= File(r, T[d].id).size
  <2>1. PICK i, p : i = T[d].id /\ p = T[d].position
    OBVIOUS
  <2>2. i \in Nat \ {0} /\ p \in Nat /\ i <= m.nextId /\ m.nextId \in Nat /\ r.nextId \in Nat
        /\ (i \in FileIds(m) => p <= File(m, i).size)
    BY <2>1 DEF FdOk, FileSystem
  <2>3. i <= r.nextId
    BY <2>2 DEF FilesGrow
  <2>4. ASSUME i \in FileIds(r) PROVE p <= File(r, i).size
    <3>1. i \in FileIds(m) /\ File(m, i).size <= File(r, i).size
      BY <2>2, <2>4 DEF FilesGrow
    <3>2. PICK s, t : s = SlotOf(m, i) /\ t = SlotOf(r, i) /\ s \in Slot /\ t \in Slot
      BY <2>4, <3>1, SlotOfFile DEF UsedSlots
    <3>3. m.table[s].size \in Nat /\ r.table[t].size \in Nat
      BY <3>2 DEF Inode
    <3>4. File(m, i).size \in Nat /\ File(r, i).size \in Nat
      BY <3>2, <3>3 DEF File
    <3> QED BY <2>2, <3>1, <3>4
  <2> QED BY <2>1, <2>3, <2>4
<1> QED BY <1>1 DEF FdOk

\* The same files in the same slots, none of them shorter.
LEMMA SameIdsGrow ==
  ASSUME NEW m, m.table \in [Slot -> Inode], InodeInv(m), NEW r, r.nextId = m.nextId,
         m.nextId \in Nat,
         \A t \in Slot : r.table[t].id = m.table[t].id /\ m.table[t].size <= r.table[t].size
  PROVE  FilesGrow(m, r) /\ FileIds(r) = FileIds(m)
<1>1. FileIds(r) = FileIds(m)
  BY DEF FileIds
<1>2. \A i : SlotOf(r, i) = SlotOf(m, i)
  BY DEF SlotOf
<1>3. \A i \in FileIds(m) : SlotOf(m, i) \in Slot
  BY SlotOfFile DEF UsedSlots
<1> QED BY <1>1, <1>2, <1>3 DEF FilesGrow, File

\* A file gets the tags q, and the index an entry or none.
LEMMA TagsSet ==
  ASSUME NEW m, FsInv(m), NEW id \in FileIds(m), NEW q \in Seq(TagSet),
         NEW ix \in Index, Naming(ix, FileIds(m)), NEW r,
         r = [m EXCEPT !.table[SlotOf(m, id)].tags = q, !.index = ix]
  PROVE  FsInv(r) /\ FilesGrow(m, r)
<1>1. m \in FileSystem /\ m.table \in [Slot -> Inode] /\ InodeInv(m) /\ m.nextId \in Nat
  BY DEF FsInv, FileSystem
<1>2. PICK s : s = SlotOf(m, id) /\ s \in UsedSlots(m) /\ s \in Slot
  BY <1>1, SlotOfFile DEF UsedSlots
<1>3. PICK f : f = [m.table[s] EXCEPT !.tags = q]
  OBVIOUS
<1>4. f \in Inode /\ f.id = m.table[s].id /\ f.direct = m.table[s].direct /\ f.size = m.table[s].size
  BY <1>1, <1>2, <1>3 DEF Inode
<1>5. Covered(m, s, f.size)
  BY <1>2, <1>4 DEF FsInv, SizeInv
<1>6. PICK u : u = [m EXCEPT !.table = [m.table EXCEPT ![s] = f]]
  OBVIOUS
<1>7. /\ FsInv(u) /\ FileIds(u) = FileIds(m) /\ u.nextId = m.nextId
      /\ \A t \in Slot : u.table[t] = IF t = s THEN f ELSE m.table[t]
  <2>1. \A w : w = [m EXCEPT !.table = [m.table EXCEPT ![s] = f]] =>
          /\ FsInv(w) /\ FileIds(w) = FileIds(m) /\ w.nextId = m.nextId
          /\ \A t \in Slot : w.table[t] = IF t = s THEN f ELSE m.table[t]
    <3>1. s \in UsedSlots(m)
      BY <1>2
    <3>2. f \in Inode /\ f.id = m.table[s].id /\ f.direct = m.table[s].direct
      BY <1>4
    <3> QED BY ZenonT(30), <1>5, <3>1, <3>2, InodeSet
  <2> QED BY <1>6, <2>1
<1>8. PICK v : v = [u EXCEPT !.index = ix]
  OBVIOUS
<1>9. FsInv(v) /\ v.nextId = u.nextId /\ v.table = u.table
  BY <1>7, <1>8, IndexSet
<1>10. r = v
  BY <1>1, <1>2, <1>3, <1>6, <1>8
<1>11. \A t \in Slot : v.table[t].id = m.table[t].id /\ m.table[t].size <= v.table[t].size
  <2>1. \A t \in Slot : m.table[t].size \in Nat
    BY <1>1 DEF Inode
  <2> QED BY <1>4, <1>7, <1>9, <2>1
<1>12. FilesGrow(m, v)
  BY <1>1, <1>7, <1>9, <1>11, SameIdsGrow
<1> QED BY <1>9, <1>10, <1>12

LEMMA NoStep ==
  ASSUME NEW m, FsInv(m)
  PROVE  FilesGrow(m, m)
<1>1. m.table \in [Slot -> Inode] /\ InodeInv(m) /\ m.nextId \in Nat
  BY DEF FsInv, FileSystem
<1>2. \A t \in Slot : m.table[t].size <= m.table[t].size
  BY <1>1 DEF Inode
<1> QED BY <1>1, <1>2, SameIdsGrow

LEMMA TagAdded ==
  ASSUME NEW m, FsInv(m), NEW id, NEW t \in TagSet
  PROVE  FsInv(AddTag(m, id, t)) /\ FilesGrow(m, AddTag(m, id, t))
<1>1. CASE AddTag(m, id, t) = m
  BY <1>1, NoStep
<1>2. CASE AddTag(m, id, t) # m
  <2>1. id \in FileIds(m)
    BY <1>2 DEF AddTag
  <2>2. PICK s, q : s = SlotOf(m, id) /\ q = Append(m.table[s].tags, t)
    OBVIOUS
  <2>3. m.table \in [Slot -> Inode] /\ m.index \in Index /\ InodeInv(m) /\ Naming(m.index, FileIds(m))
    BY DEF FsInv, FileSystem, IndexInv
  <2>4. s \in Slot
    BY <2>1, <2>2, <2>3, SlotOfFile DEF UsedSlots
  <2>5. q \in Seq(TagSet)
    BY <2>2, <2>3, <2>4 DEF Inode
  <2>6. PICK ix : ix = IndexAddFile(m.index, id, <<t>>)
    OBVIOUS
  <2>7. FileIds(m) \subseteq Nat /\ <<t>> \in Seq(TagSet)
    BY <2>3 DEF FileIds, Inode
  <2>8. ix \in Index /\ Naming(ix, FileIds(m))
    BY <2>1, <2>3, <2>6, <2>7, IndexAddFileKeeps
  <2>9. PICK r : r = AddTag(m, id, t)
    OBVIOUS
  <2>10. r = [m EXCEPT !.table[SlotOf(m, id)].tags = q, !.index = ix]
    BY <1>2, <2>2, <2>6, <2>9 DEF AddTag
  <2>11. FsInv(r) /\ FilesGrow(m, r)
    BY <2>1, <2>5, <2>8, <2>10, TagsSet
  <2> QED BY <2>9, <2>11
<1> QED BY <1>1, <1>2

LEMMA TagRemoved ==
  ASSUME NEW m, FsInv(m), NEW id, NEW key
  PROVE  FsInv(RemoveTag(m, id, key)) /\ FilesGrow(m, RemoveTag(m, id, key))
<1>1. CASE RemoveTag(m, id, key) = m
  BY <1>1, NoStep
<1>2. CASE RemoveTag(m, id, key) # m
  <2>1. PICK s, tags, keyed : /\ s = SlotOf(m, id) /\ tags = m.table[s].tags
                              /\ keyed = {k \in DOMAIN tags : tags[k][1] = key}
    OBVIOUS
  <2>2. id \in FileIds(m) /\ keyed # {}
    BY <1>2, <2>1 DEF RemoveTag, File
  <2>3. m.table \in [Slot -> Inode] /\ m.index \in Index /\ InodeInv(m) /\ Naming(m.index, FileIds(m))
        /\ m \in FileSystem
    BY DEF FsInv, FileSystem, IndexInv
  <2>4. s \in Slot
    BY <2>1, <2>2, <2>3, SlotOfFile DEF UsedSlots
  <2>5. tags \in Seq(TagSet) /\ DOMAIN tags = 1 .. Len(tags) /\ Len(tags) \in Nat
    BY <2>1, <2>3, <2>4 DEF Inode
  <2>6. PICK i, q : i = Min(keyed) /\ q = RemoveAt(tags, i)
    OBVIOUS
  <2>7. i \in 1 .. Len(tags)
    <3>1. keyed \subseteq Nat
      BY <2>1, <2>5
    <3>2. i \in keyed
      BY <2>2, <2>6, <3>1, LeastMember
    <3> QED BY <2>1, <2>5, <3>2
  <2>8. q \in Seq(TagSet)
    BY <2>5, <2>6, <2>7, RemoveAtFields
  <2>9. PICK r : r = RemoveTag(m, id, key)
    OBVIOUS
  <2>10. PICK ix : ix = m.index /\ ix \in Index /\ Naming(ix, FileIds(m))
    BY <2>3
  <2>11. r = [m EXCEPT !.table[SlotOf(m, id)].tags = q]
    BY <1>2, <2>1, <2>2, <2>6, <2>9 DEF RemoveTag, File
  <2>12. r = [m EXCEPT !.table[SlotOf(m, id)].tags = q, !.index = ix]
    BY <2>3, <2>10, <2>11 DEF FileSystem
  <2>13. FsInv(r) /\ FilesGrow(m, r)
    BY <2>2, <2>8, <2>10, <2>12, TagsSet
  <2> QED BY <2>9, <2>13
<1> QED BY <1>1, <1>2

\* tagfs_create_file: nothing happens, or there is a new, empty file.
Created(m, r) ==
  /\ r.id = m.nextId + 1 /\ r.m.nextId = m.nextId + 1 /\ FileIds(r.m) = FileIds(m) \cup {r.id}

LEMMA SlotFree ==
  ASSUME NEW m, FsInv(m), Slot \ m.bits # {}
  PROVE  {s \in Slot : m.table[s].id = 0} # {}
<1>1. SUFFICES ASSUME {s \in Slot : m.table[s].id = 0} = {} PROVE FALSE
  OBVIOUS
<1>2. UsedSlots(m) = Slot
  BY <1>1 DEF UsedSlots
<1>3. INODES <= Cardinality(m.bits)
  <2>1. Cardinality(UsedSlots(m)) <= Cardinality(m.bits)
    BY DEF FsInv, InodeInv
  <2> QED BY <1>2, <2>1, BlocksFinite
<1>4. m.bits \subseteq Slot
  BY DEF FsInv, FileSystem
<1>5. IsFiniteSet(m.bits) /\ Cardinality(m.bits) <= INODES
      /\ (Cardinality(m.bits) = INODES => m.bits = Slot)
  <2>1. PICK B : B = m.bits
    OBVIOUS
  <2>2. IsFiniteSet(Slot) /\ Cardinality(Slot) = INODES
    BY BlocksFinite
  <2>3. B \subseteq Slot
    BY <1>4, <2>1
  <2>4. IsFiniteSet(B) /\ Cardinality(B) <= Cardinality(Slot)
        /\ (Cardinality(B) = Cardinality(Slot) => B = Slot)
    BY <2>2, <2>3, FS_Subset
  <2> QED BY <2>1, <2>2, <2>4
<1>6. Cardinality(m.bits) = INODES
  BY <1>3, <1>5, FS_CardinalityType, StorageConstants
<1> QED BY <1>5, <1>6

LEMMA FileCreated ==
  ASSUME NEW m, FsInv(m), NEW tags \in Seq(TagSet), NEW r, r = CreateFile(m, tags)
  PROVE  /\ FsInv(r.m) /\ FilesGrow(m, r.m)
         /\ (r.m = m /\ r.id = 0) \/ Created(m, r)
<1> DEFINE free == Slot \ m.bits
           empty == {s \in Slot : m.table[s].id = 0}
<1>0. /\ m \in FileSystem /\ m.table \in [Slot -> Inode] /\ m.nextId \in Nat /\ m.bits \subseteq Slot
      /\ m.index \in Index /\ m.freeInodes \in Int
      /\ BlockInv(m) /\ InodeInv(m) /\ SizeInv(m) /\ Naming(m.index, FileIds(m))
  BY DEF FsInv, FileSystem, IndexInv
<1>1. CASE Len(tags) > MAX_TAGS \/ free = {}
  <2>1. r.m = m /\ r.id = 0
    BY <1>1 DEF CreateFile
  <2> QED BY <2>1, NoStep
<1>2. CASE ~ (Len(tags) > MAX_TAGS \/ free = {})
  <2>1. PICK id, u : /\ id = m.nextId + 1
                     /\ u = [m EXCEPT !.bits = m.bits \cup {Min(free)}, !.freeInodes = m.freeInodes - 1,
                                      !.nextId = id]
    OBVIOUS
  <2>2. r = Insert(u, id, tags)
    BY <1>0, <1>2, <2>1 DEF CreateFile
  <2>3. empty # {}
    BY <1>2, SlotFree
  <2>4. PICK b, s : b = Min(free) /\ s = Min(empty)
    OBVIOUS
  <2>5. b \in Slot /\ b \notin m.bits /\ s \in Slot /\ m.table[s].id = 0
    <3>1. free \subseteq Nat /\ empty \subseteq Nat
      BY StorageConstants DEF Slot
    <3>2. b \in free /\ s \in empty
      <4> HIDE DEF free, empty
      <4> QED BY <1>2, <2>3, <2>4, <3>1, LeastMember
    <3> QED BY <3>2
  <2>6. PICK f, ix : f = NewInode(id, tags) /\ ix = IndexAddFile(m.index, id, tags)
    OBVIOUS
  <2>7. PICK v : v = [m EXCEPT !.bits = m.bits \cup {b}, !.freeInodes = m.freeInodes - 1,
                               !.nextId = id, !.table = [m.table EXCEPT ![s] = f], !.index = ix]
    OBVIOUS
  <2>8. r.m = v /\ r.id = id
    <3>1. u.table = m.table /\ u.index = m.index
      BY <1>0, <2>1 DEF FileSystem
    <3>2. r = [m |-> [u EXCEPT !.table[Min(empty)] = NewInode(id, tags),
                               !.index = IndexAddFile(u.index, id, tags)],
               id |-> id]
      BY <2>2, <2>3, <3>1 DEF Insert
    <3>3. r.id = id /\ r.m = [u EXCEPT !.table = [u.table EXCEPT ![s] = f], !.index = ix]
      BY <2>4, <2>6, <3>1, <3>2
    <3>4. r.m = [u EXCEPT !.table = [m.table EXCEPT ![s] = f], !.index = ix]
      BY <3>1, <3>3
    <3>5. [u EXCEPT !.table = [m.table EXCEPT ![s] = f], !.index = ix] = v
      BY <1>0, <2>1, <2>4, <2>7 DEF FileSystem
    <3> QED BY <3>3, <3>4, <3>5
  <2>9. /\ f \in Inode /\ f.id = id /\ f.size = 0 /\ \A j \in Places : f.direct[j] = 0
        /\ id \in Nat /\ id # 0
    <3>1. PICK z : z = [j \in 0 .. DIRECT - 1 |-> 0]
      OBVIOUS
    <3>2. z \in [Places -> Block \cup {BAD}] /\ \A j \in Places : z[j] = 0
      BY <3>1, StorageConstants DEF Places, Block
    <3>3. f = [id |-> id, tags |-> tags, size |-> 0, direct |-> z]
      BY <2>6, <3>1 DEF NewInode, NoInode
    <3>4. id \in Nat /\ id # 0
      BY <1>0, <2>1
    <3>5. f \in Inode
      BY <3>2, <3>3, <3>4 DEF Inode
    <3> QED BY <3>2, <3>3, <3>4, <3>5
  <2>10. PICK T : T = [m.table EXCEPT ![s] = f]
    OBVIOUS
  <2>11. T \in [Slot -> Inode] /\ T[s] = f /\ \A t \in Slot : t # s => T[t] = m.table[t]
    BY <1>0, <2>5, <2>9, <2>10
  <2>12. PICK ids : ids = FileIds(m) \cup {id}
    OBVIOUS
  <2>13. ids = {T[t].id : t \in Slot} \ {0} /\ ids \subseteq Nat
    <3>1. \A t \in Slot : m.table[t].id \in Nat
      BY <1>0 DEF Inode
    <3> QED BY <2>5, <2>9, <2>11, <2>12, <3>1 DEF FileIds
  <2>14. ix \in Index /\ Naming(ix, ids)
    <3>1. Naming(m.index, ids)
      BY <1>0, <2>12 DEF Naming
    <3>2. id \in ids
      BY <2>12
    <3>3. ids \subseteq Nat /\ m.index \in Index
      BY <1>0, <2>13
    <3> QED BY <2>6, <3>1, <3>2, <3>3, IndexAddFileKeeps
  <2>15. /\ v \in FileSystem /\ v.table = T /\ v.index = ix /\ v.nextId = id
         /\ v.bits = m.bits \cup {b} /\ v.freeInodes = m.freeInodes - 1
         /\ v.used = m.used /\ v.freeBlocks = m.freeBlocks
    <3>1. m.bits \cup {b} \in SUBSET Slot /\ m.freeInodes - 1 \in Int /\ id \in Nat \ {0}
      BY <1>0, <2>5, <2>9
    <3>2. ix \in Index /\ T \in [Slot -> Inode]
      BY <2>11, <2>14
    <3> QED BY <1>0, <2>7, <2>10, <3>1, <3>2 DEF FileSystem
  <2>16. FileIds(v) = ids
    BY <2>13, <2>15 DEF FileIds
  <2>17. m.table[s] = NoInode
    BY <1>0, <2>5 DEF InodeInv
  <2>18. BlockInv(v)
    <3>1. \A j \in Places : m.table[s].direct[j] = 0
      BY <2>17 DEF NoInode, Places
    <3>2. \A p \in Slot \X Places : Direct(v, p) = Direct(m, p)
      BY <2>9, <2>11, <2>15, <3>1 DEF Direct
    <3>3. PointersOf(v) = PointersOf(m) /\ \A p \in PointersOf(m) : Direct(v, p) = Direct(m, p)
      BY <3>2 DEF PointersOf
    <3>4. {Direct(v, p) : p \in PointersOf(v)} = {Direct(m, p) : p \in PointersOf(m)}
      BY <3>3
    <3> QED BY <1>0, <2>15, <3>3, <3>4 DEF BlockInv
  <2>19. InodeInv(v)
    <3>1. UsedSlots(v) = UsedSlots(m) \cup {s} /\ s \notin UsedSlots(m)
      BY <2>5, <2>9, <2>11, <2>15 DEF UsedSlots
    <3>2. /\ \A t \in Slot : m.table[t].id \in Nat /\ m.table[t].id <= m.nextId
          /\ \A t \in Slot : m.table[t].id = 0 => m.table[t] = NoInode
      BY <1>0 DEF Inode, InodeInv
    <3>3. \A t \in Slot : v.table[t].id <= v.nextId
      <4>1. \A t \in Slot : t # s => v.table[t].id = m.table[t].id
        BY <2>11, <2>15
      <4> QED BY <1>0, <2>1, <2>9, <2>11, <2>15, <3>2, <4>1
    <3>4. \A t \in Slot : v.table[t].id = 0 => v.table[t] = NoInode
      BY <2>9, <2>11, <2>15, <3>2
    <3>5. ASSUME NEW t \in UsedSlots(v), NEW q \in UsedSlots(v), v.table[t].id = v.table[q].id
          PROVE  t = q
      <4>1. \A z \in UsedSlots(m) : z \in Slot /\ z # s /\ v.table[z].id = m.table[z].id
                                    /\ m.table[z].id # id
        <5>1. \A z \in UsedSlots(m) : z \in Slot /\ z # s
          BY <3>1 DEF UsedSlots
        <5> QED BY <1>0, <2>1, <2>11, <2>15, <3>2, <5>1
      <4>2. v.table[s].id = id
        BY <2>9, <2>11, <2>15
      <4>3. \A y, z \in UsedSlots(m) : m.table[y].id = m.table[z].id => y = z
        BY <1>0 DEF InodeInv
      <4> QED BY <3>1, <3>5, <4>1, <4>2, <4>3
    <3>6. /\ Cardinality(UsedSlots(v)) = Cardinality(UsedSlots(m)) + 1
          /\ Cardinality(v.bits) = Cardinality(m.bits) + 1
          /\ Cardinality(UsedSlots(m)) \in Nat /\ Cardinality(m.bits) \in Nat
      <4>1. PICK U, B : U = UsedSlots(m) /\ B = m.bits
        OBVIOUS
      <4>2. U \subseteq Slot /\ B \subseteq Slot /\ s \notin U /\ b \notin B
        BY <1>0, <2>5, <3>1, <4>1 DEF UsedSlots
      <4>3. IsFiniteSet(U) /\ IsFiniteSet(B)
        BY <4>2, BlocksFinite, FS_Subset
      <4>4. /\ Cardinality(U) \in Nat /\ Cardinality(B) \in Nat
            /\ Cardinality(U \cup {s}) = Cardinality(U) + 1
            /\ Cardinality(B \cup {b}) = Cardinality(B) + 1
        BY <4>2, <4>3, FS_CardinalityType, FS_AddElement
      <4> QED BY <2>15, <3>1, <4>1, <4>4
    <3>7. /\ v.freeInodes = INODES - Cardinality(UsedSlots(v))
          /\ Cardinality(UsedSlots(v)) <= Cardinality(v.bits)
      <4>1. m.freeInodes = INODES - Cardinality(UsedSlots(m))
            /\ Cardinality(UsedSlots(m)) <= Cardinality(m.bits)
        BY <1>0 DEF InodeInv
      <4> QED BY <2>15, <3>6, <4>1, StorageConstants
    <3> QED BY <3>3, <3>4, <3>5, <3>7 DEF InodeInv
  <2>20. SizeInv(v)
    <3>1. ASSUME NEW t \in Slot PROVE Covered(v, t, v.table[t].size)
      <4>1. CASE t = s
        BY <2>9, <2>11, <2>15, <4>1 DEF Covered
      <4>2. CASE t # s
        <5>1. v.table[t] = m.table[t] /\ Covered(m, t, m.table[t].size)
          BY <1>0, <2>11, <2>15, <4>2 DEF SizeInv
        <5> QED BY <5>1 DEF Covered
      <4> QED BY <4>1, <4>2
    <3> QED BY <3>1 DEF SizeInv
  <2>21. FsInv(v)
    BY <2>14, <2>15, <2>16, <2>18, <2>19, <2>20 DEF FsInv, IndexInv
  <2>22. FilesGrow(m, v)
    <3>1. ASSUME NEW i \in FileIds(v), i <= m.nextId
          PROVE  i \in FileIds(m) /\ File(m, i).size <= File(v, i).size
      <4>1. i \in FileIds(m)
        BY <1>0, <2>1, <2>12, <2>16, <3>1
      <4>2. PICK t : t \in Slot /\ t = SlotOf(m, i) /\ m.table[t].id = i /\ i # 0
        BY <1>0, <4>1, SlotOfFile DEF UsedSlots
      <4>3. t # s /\ v.table[t] = m.table[t]
        BY <2>5, <2>11, <2>15, <4>2
      <4>4. SlotOf(v, i) = t
        <5>1. v.table \in [Slot -> Inode] /\ InodeInv(v) /\ v.table[t].id = i
          BY <2>11, <2>15, <2>19, <4>2, <4>3
        <5> QED BY <3>1, <4>2, <5>1, SlotOfFile
      <4>5. m.table[t].size \in Nat
        BY <1>0, <4>2 DEF Inode
      <4> QED BY <4>1, <4>2, <4>3, <4>4, <4>5 DEF File
    <3> QED BY <1>0, <2>1, <2>15, <3>1 DEF FilesGrow
  <2> QED BY <2>1, <2>8, <2>12, <2>15, <2>16, <2>21, <2>22 DEF Created
<1> QED BY <1>1, <1>2

\* tagfs_erase_file: the file and its blocks are gone, the others are as they were.
LEMMA FileErased ==
  ASSUME NEW m, FsInv(m), NEW id, NEW r, r = EraseFile(m, id)
  PROVE  FsInv(r) /\ FilesGrow(m, r)
<1>0. /\ m \in FileSystem /\ m.table \in [Slot -> Inode] /\ m.nextId \in Nat /\ m.bits \subseteq Slot
      /\ m.index \in Index /\ m.freeInodes \in Int /\ m.used \subseteq Block /\ m.freeBlocks \in Int
      /\ BlockInv(m) /\ InodeInv(m) /\ SizeInv(m) /\ Naming(m.index, FileIds(m))
  BY DEF FsInv, FileSystem, IndexInv
<1> DEFINE blocks == {File(m, id).direct[i] : i \in 0 .. DIRECT - 1} \ {0}
<1>1. CASE r = m
  BY <1>1, NoStep
<1>2. ASSUME NEW z \in Stop, r = [m EXCEPT !.stopped = z]
      PROVE  FsInv(r) /\ FilesGrow(m, r)
  <2>1. /\ r \in FileSystem /\ r.table = m.table /\ r.used = m.used /\ r.freeBlocks = m.freeBlocks
        /\ r.bits = m.bits /\ r.freeInodes = m.freeInodes /\ r.index = m.index /\ r.nextId = m.nextId
    BY <1>0, <1>2 DEF FileSystem
  <2>3. UsedSlots(r) = UsedSlots(m) /\ FileIds(r) = FileIds(m)
    BY <2>1 DEF UsedSlots, FileIds
  <2>4. BlockInv(r) /\ \A t, n : Covered(r, t, n) = Covered(m, t, n)
    <3>1. \A v : v.table = m.table /\ v.used = m.used /\ v.freeBlocks = m.freeBlocks
                => (BlockInv(m) => BlockInv(v)) /\ \A t, n : Covered(v, t, n) = Covered(m, t, n)
      BY SameBlocks
    <3> QED BY <1>0, <2>1, <3>1
  <2>5. InodeInv(r) /\ SizeInv(r) /\ IndexInv(r)
    BY <1>0, <2>1, <2>3, <2>4 DEF InodeInv, SizeInv, IndexInv
  <2>6. FilesGrow(m, r)
    <3>1. \A t \in Slot : m.table[t].size \in Nat
      BY <1>0 DEF Inode
    <3>2. \A t \in Slot : r.table[t].id = m.table[t].id /\ m.table[t].size <= r.table[t].size
      BY <2>1, <3>1
    <3>3. r.nextId = m.nextId
      BY <2>1
    <3> QED BY <1>0, <3>2, <3>3, SameIdsGrow
  <2> QED BY <2>1, <2>4, <2>5, <2>6 DEF FsInv
<1>3. CASE /\ id \in FileIds(m) /\ BAD \notin blocks
           /\ r = [m EXCEPT !.used = @ \ blocks, !.freeBlocks = @ + Cardinality(blocks),
                            !.index = IndexRemoveFile(@, id),
                            !.table[SlotOf(m, id)] = NoInode,
                            !.bits = @ \ {id}, !.freeInodes = @ + 1]
  <2>1. PICK s : s = SlotOf(m, id) /\ s \in UsedSlots(m) /\ m.table[s].id = id /\ s \in Slot
                 /\ \A t \in Slot : m.table[t].id = id => t = s
    BY <1>0, <1>3, SlotOfFile DEF UsedSlots
  <2>2. PICK b : b = blocks
    OBVIOUS
  <2>3. b = {Direct(m, p) : p \in {p \in PointersOf(m) : p[1] = s}}
    <3>1. File(m, id) = m.table[s]
      BY <2>1 DEF File
    <3>2. \A x : x \in b => \E p \in PointersOf(m) : p[1] = s /\ Direct(m, p) = x
      <4>1. ASSUME NEW x \in b PROVE \E p \in PointersOf(m) : p[1] = s /\ Direct(m, p) = x
        <5>1. PICK i \in Places : x = m.table[s].direct[i] /\ x # 0 /\ x # BAD
          BY <1>3, <2>2, <3>1 DEF Places
        <5>2. <<s, i>> \in PointersOf(m) /\ Direct(m, <<s, i>>) = x /\ <<s, i>>[1] = s
          BY <2>1, <5>1 DEF PointersOf, Direct
        <5> QED BY <5>2
      <4> QED BY <4>1
    <3>3. \A p \in PointersOf(m) : p[1] = s => Direct(m, p) \in b
      BY <2>2, <3>1 DEF PointersOf, Direct, Places
    <3> QED BY <3>2, <3>3
  <2>4. PICK T, ix : T = [m.table EXCEPT ![s] = NoInode] /\ ix = IndexRemoveFile(m.index, id)
    OBVIOUS
  <2>5. NoInode \in Inode /\ NoInode.id = 0 /\ NoInode.size = 0
        /\ \A j \in Places : NoInode.direct[j] = 0
    <3>1. PICK z : z = [j \in 0 .. DIRECT - 1 |-> 0]
      OBVIOUS
    <3>2. z \in [Places -> Block \cup {BAD}] /\ \A j \in Places : z[j] = 0
      BY <3>1, StorageConstants DEF Places, Block
    <3>3. NoInode = [id |-> 0, tags |-> << >>, size |-> 0, direct |-> z]
      BY <3>1 DEF NoInode
    <3> QED BY <3>2, <3>3 DEF Inode
  <2>6. T \in [Slot -> Inode] /\ T[s] = NoInode /\ \A t \in Slot : t # s => T[t] = m.table[t]
    BY <1>0, <2>1, <2>4, <2>5
  <2>7. ix \in Index /\ Naming(ix, FileIds(m) \ {id})
    <3>1. m.index \in Index /\ Naming(m.index, FileIds(m))
      BY <1>0
    <3>2. IndexRemoveFile(m.index, id) \in Index
          /\ Naming(IndexRemoveFile(m.index, id), FileIds(m) \ {id})
      BY <3>1, RemoveFileKeeps
    <3> QED BY <2>4, <3>2
  <2>8. IsFiniteSet(m.used) /\ b \subseteq m.used /\ IsFiniteSet(b) /\ Cardinality(b) \in Nat
        /\ Cardinality(m.used) \in Nat /\ Cardinality(m.used \ b) = Cardinality(m.used) - Cardinality(b)
    <3>1. b \subseteq m.used
      BY <1>0, <2>3 DEF BlockInv
    <3>2. PICK U : U = m.used
      OBVIOUS
    <3>3. IsFiniteSet(U) /\ b \subseteq U
      BY <1>0, <3>1, <3>2, BlocksFinite, FS_Subset
    <3>4. IsFiniteSet(b) /\ Cardinality(b) \in Nat /\ Cardinality(U) \in Nat
      BY <3>3, FS_Subset, FS_CardinalityType
    <3>5. Cardinality(U \ b) = Cardinality(U) - Cardinality(U \cap b)
      BY <3>3, FS_Difference
    <3>6. U \cap b = b
      BY <3>3
    <3> QED BY <3>2, <3>3, <3>4, <3>5, <3>6
  <2>9. PICK v : v = [m EXCEPT !.used = m.used \ b, !.freeBlocks = m.freeBlocks + Cardinality(b),
                               !.index = ix, !.table = T, !.bits = m.bits \ {id},
                               !.freeInodes = m.freeInodes + 1]
    OBVIOUS
  <2>10. r = v
    BY <1>3, <2>1, <2>2, <2>4, <2>9
  <2>11. /\ v \in FileSystem /\ v.table = T /\ v.index = ix /\ v.nextId = m.nextId
         /\ v.bits = m.bits \ {id} /\ v.freeInodes = m.freeInodes + 1
         /\ v.used = m.used \ b /\ v.freeBlocks = m.freeBlocks + Cardinality(b)
    <3>1. /\ m.used \ b \in SUBSET Block /\ m.freeBlocks + Cardinality(b) \in Int
          /\ m.bits \ {id} \in SUBSET Slot /\ m.freeInodes + 1 \in Int
      BY <1>0, <2>8
    <3>2. ix \in Index /\ T \in [Slot -> Inode]
      BY <2>6, <2>7
    <3> QED BY <1>0, <2>9, <3>1, <3>2 DEF FileSystem
  <2>12. FileIds(v) = FileIds(m) \ {id}
    <3>1. \A t \in Slot : t # s => m.table[t].id # id
      BY <2>1
    <3> QED BY <2>1, <2>5, <2>6, <2>11, <3>1 DEF FileIds
  <2>13. BlockInv(v)
    <3>1. \A p \in Slot \X Places : Direct(v, p) = IF p[1] = s THEN 0 ELSE Direct(m, p)
      BY <2>5, <2>6, <2>11 DEF Direct
    <3>2. PointersOf(v) = {p \in PointersOf(m) : p[1] # s}
      BY <3>1 DEF PointersOf
    <3>3. \A p \in PointersOf(v) : p \in PointersOf(m) /\ p[1] # s /\ Direct(v, p) = Direct(m, p)
      BY <3>1, <3>2 DEF PointersOf
    <3>4. \A p \in PointersOf(v) : Direct(v, p) \in DataBlocks
      BY <1>0, <3>3 DEF BlockInv
    <3>5. \A p, q \in PointersOf(v) : Direct(v, p) = Direct(v, q) => p = q
      BY <1>0, <3>3 DEF BlockInv
    <3>6. v.used = 0 .. DATA_START - 1 \cup {Direct(v, p) : p \in PointersOf(v)}
      <4>1. m.used = 0 .. DATA_START - 1 \cup {Direct(m, p) : p \in PointersOf(m)}
        BY <1>0 DEF BlockInv
      <4>2. \A x \in b : x \notin 0 .. DATA_START - 1
        <5>1. \A p \in PointersOf(m) : Direct(m, p) \in DataBlocks
          BY <1>0 DEF BlockInv
        <5>2. \A x \in DataBlocks : x \notin 0 .. DATA_START - 1
          BY StorageConstants DEF DataBlocks
        <5> QED BY <2>3, <5>1, <5>2
      <4>3. \A p \in PointersOf(m) : Direct(m, p) \in b => p[1] = s
        BY <1>0, <2>3 DEF BlockInv
      <4>4. \A p \in PointersOf(m) : p[1] = s => Direct(m, p) \in b
        BY <2>3
      <4>5. {Direct(v, p) : p \in PointersOf(v)} = {Direct(m, p) : p \in {p \in PointersOf(m) : p[1] # s}}
        BY <3>2, <3>3
      <4>6. {Direct(m, p) : p \in PointersOf(m)} \ b = {Direct(m, p) : p \in {p \in PointersOf(m) : p[1] # s}}
        BY <4>3, <4>4
      <4> QED BY <2>11, <4>1, <4>2, <4>5, <4>6
    <3>7. v.freeBlocks = TOTAL_BLOCKS - Cardinality(v.used)
      <4>1. m.freeBlocks = TOTAL_BLOCKS - Cardinality(m.used)
        BY <1>0 DEF BlockInv
      <4> QED BY <2>8, <2>11, <4>1, StorageConstants
    <3> QED BY <3>4, <3>5, <3>6, <3>7 DEF BlockInv
  <2>14. InodeInv(v)
    <3>1. UsedSlots(v) = UsedSlots(m) \ {s}
      BY <2>5, <2>6, <2>11 DEF UsedSlots
    <3>2. /\ \A t \in Slot : v.table[t].id <= v.nextId
          /\ \A t \in Slot : v.table[t].id = 0 => v.table[t] = NoInode
      <4>1. /\ \A t \in Slot : m.table[t].id <= m.nextId
            /\ \A t \in Slot : m.table[t].id = 0 => m.table[t] = NoInode
        BY <1>0 DEF InodeInv
      <4> QED BY <1>0, <2>5, <2>6, <2>11, <4>1
    <3>3. \A t, q \in UsedSlots(v) : v.table[t].id = v.table[q].id => t = q
      <4>1. \A t \in UsedSlots(v) : t \in UsedSlots(m) /\ v.table[t] = m.table[t]
        BY <2>6, <2>11, <3>1 DEF UsedSlots
      <4>2. \A t, q \in UsedSlots(m) : m.table[t].id = m.table[q].id => t = q
        BY <1>0 DEF InodeInv
      <4> QED BY <4>1, <4>2
    <3>4. /\ Cardinality(UsedSlots(v)) = Cardinality(UsedSlots(m)) - 1
          /\ Cardinality(UsedSlots(m)) \in Nat /\ Cardinality(m.bits) \in Nat
          /\ Cardinality(v.bits) \in {Cardinality(m.bits) - 1, Cardinality(m.bits)}
      <4>1. PICK U, B : U = UsedSlots(m) /\ B = m.bits
        OBVIOUS
      <4>2. U \subseteq Slot /\ B \subseteq Slot /\ s \in U
        BY <1>0, <2>1, <4>1 DEF UsedSlots
      <4>3. IsFiniteSet(U) /\ IsFiniteSet(B)
        BY <4>2, BlocksFinite, FS_Subset
      <4>4. /\ Cardinality(U) \in Nat /\ Cardinality(B) \in Nat
            /\ Cardinality(U \ {s}) = IF s \in U THEN Cardinality(U) - 1 ELSE Cardinality(U)
            /\ Cardinality(B \ {id}) = IF id \in B THEN Cardinality(B) - 1 ELSE Cardinality(B)
        BY <4>3, FS_CardinalityType, FS_RemoveElement
      <4> QED BY <2>11, <3>1, <4>1, <4>2, <4>4
    <3>5. /\ v.freeInodes = INODES - Cardinality(UsedSlots(v))
          /\ Cardinality(UsedSlots(v)) <= Cardinality(v.bits)
      <4>1. m.freeInodes = INODES - Cardinality(UsedSlots(m))
            /\ Cardinality(UsedSlots(m)) <= Cardinality(m.bits)
        BY <1>0 DEF InodeInv
      <4> QED BY <2>11, <3>4, <4>1, StorageConstants
    <3> QED BY <3>2, <3>3, <3>5 DEF InodeInv
  <2>15. SizeInv(v)
    <3>1. ASSUME NEW t \in Slot PROVE Covered(v, t, v.table[t].size)
      <4>1. CASE t = s
        BY <2>5, <2>6, <2>11, <4>1 DEF Covered
      <4>2. CASE t # s
        <5>1. v.table[t] = m.table[t] /\ Covered(m, t, m.table[t].size)
          BY <1>0, <2>6, <2>11, <4>2 DEF SizeInv
        <5> QED BY <5>1 DEF Covered
      <4> QED BY <4>1, <4>2
    <3> QED BY <3>1 DEF SizeInv
  <2>16. FsInv(v)
    BY <2>7, <2>11, <2>12, <2>13, <2>14, <2>15 DEF FsInv, IndexInv
  <2>17. FilesGrow(m, v)
    <3>1. ASSUME NEW i \in FileIds(v) PROVE i \in FileIds(m) /\ File(m, i).size <= File(v, i).size
      <4>1. i \in FileIds(m) /\ i # id
        BY <2>12
      <4>2. PICK t : t \in Slot /\ t = SlotOf(m, i) /\ m.table[t].id = i
        BY <1>0, <4>1, SlotOfFile DEF UsedSlots
      <4>3. t # s /\ v.table[t] = m.table[t]
        BY <2>1, <2>6, <2>11, <4>1, <4>2
      <4>4. SlotOf(v, i) = t
        <5>1. v.table \in [Slot -> Inode] /\ InodeInv(v) /\ v.table[t].id = i
          BY <2>6, <2>11, <2>14, <4>2, <4>3
        <5> QED BY <3>1, <4>2, <5>1, SlotOfFile
      <4>5. m.table[t].size \in Nat
        BY <1>0, <4>2 DEF Inode
      <4> QED BY <4>1, <4>2, <4>3, <4>4, <4>5 DEF File
    <3> QED BY <1>0, <2>11, <3>1 DEF FilesGrow
  <2> QED BY <2>10, <2>16, <2>17
<1>4. \/ r = m
      \/ \E z \in Stop : r = [m EXCEPT !.stopped = z]
      \/ /\ id \in FileIds(m) /\ BAD \notin blocks
         /\ r = [m EXCEPT !.used = @ \ blocks, !.freeBlocks = @ + Cardinality(blocks),
                          !.index = IndexRemoveFile(@, id),
                          !.table[SlotOf(m, id)] = NoInode,
                          !.bits = @ \ {id}, !.freeInodes = @ + 1]
  BY DEF EraseFile, Stop
<1> QED BY <1>1, <1>2, <1>3, <1>4

\* Reading stays in the file.
LEMMA GreatestMember ==
  ASSUME NEW n \in Nat, NEW S, S \subseteq 0 .. n, S # {}
  PROVE  Max(S) \in S /\ \A y \in S : y <= Max(S)
<1> DEFINE D == {n - x : x \in S}
<1>1. D # {} /\ D \subseteq Nat
  <2>1. \A x \in S : n - x \in Nat
    OBVIOUS
  <2>2. \E x : x \in S
    OBVIOUS
  <2> QED BY <2>1, <2>2
<1>2. PICK d : d \in D /\ \A t \in D : d <= t
  <2> HIDE DEF D
  <2> QED BY <1>1, LeastMember
<1>3. PICK x \in S : d = n - x
  BY <1>2
<1>4. \A y \in S : x >= y
  <2>1. ASSUME NEW y \in S PROVE x >= y
    <3>1. n - x <= n - y
      BY <1>2, <1>3
    <3>2. x \in 0 .. n /\ y \in 0 .. n
      OBVIOUS
    <3> QED BY <3>1, <3>2
  <2> QED BY <2>1
<1>5. \E z \in S : \A y \in S : z >= y
  BY <1>4
<1>6. Max(S) \in S /\ \A y \in S : Max(S) >= y
  BY <1>5 DEF Max
<1> QED BY <1>6

LEMMA ReadLength ==
  ASSUME NEW m, NEW id, NEW offset \in Nat, NEW n \in Nat, File(m, id).size \in Nat
  PROVE  /\ Len(ReadFile(m, id, offset, n)) \in Nat
         /\ offset <= File(m, id).size => offset + Len(ReadFile(m, id, offset, n)) <= File(m, id).size
<1>1. PICK f, z : f = File(m, id) /\ z = f.size /\ z \in Nat
  OBVIOUS
<1>2. CASE offset >= z
  <2>1. ReadFile(m, id, offset, n) = << >>
    BY <1>1, <1>2 DEF ReadFile
  <2> QED BY <1>1, <1>2, <2>1
<1>3. CASE offset < z
  <2>1. PICK end, upTo : /\ end = Min({offset + n, z})
                         /\ upTo = {e \in offset .. end : \A at \in offset .. e - 1 : Pointer(f, at) # BAD}
    OBVIOUS
  <2>2. end \in Nat /\ offset <= end /\ end <= z
    <3>1. PICK S : S = {offset + n, z}
      OBVIOUS
    <3>2. S # {} /\ S \subseteq Nat
      BY <1>1, <3>1
    <3>3. end \in S /\ \A t \in S : end <= t
      BY <2>1, <3>1, <3>2, LeastMember
    <3> QED BY <1>1, <1>3, <3>1, <3>3
  <2>3. upTo \subseteq offset .. end /\ offset \in upTo
    BY <2>1, <2>2
  <2>4. PICK x : x = Max(upTo)
    OBVIOUS
  <2>5. x \in offset .. end
    <3>1. upTo \subseteq 0 .. end /\ upTo # {}
      BY <2>2, <2>3
    <3>2. x \in upTo
      BY <2>2, <2>4, <3>1, GreatestMember
    <3> QED BY <2>3, <3>2
  <2>6. ReadFile(m, id, offset, n) = [k \in 1 .. x - offset |-> ByteAt(m, f, offset + k - 1)]
    <3>1. ~(offset >= f.size)
      BY <1>1, <1>3
    <3> QED BY <1>1, <2>1, <2>4, <3>1 DEF ReadFile
  <2>7. x - offset \in Nat
    BY <2>2, <2>5
  <2>8. PICK q : q = [k \in 1 .. x - offset |-> ByteAt(m, f, offset + k - 1)]
    OBVIOUS
  <2>9. Len(q) = x - offset
    BY <2>7, <2>8
  <2> QED BY <1>1, <2>2, <2>5, <2>6, <2>7, <2>8, <2>9
<1> QED BY <1>1, <1>2, <1>3

-------------------------------------------------------------------------------
(***************************************************************************)
(* The file system that is booted, and the calls.                          *)
(***************************************************************************)
LEMMA BootedEmpty == FsInv(Boot(Formatted)) /\ \A T : DOMAIN T = {} => FdOk(Boot(Formatted), T)
<1>1. Boot(Formatted) = Booted(Formatted)
  BY DEF Boot
<1>2. PICK z : z = [j \in 0 .. DIRECT - 1 |-> 0]
  OBVIOUS
<1>3. z \in [Places -> Block \cup {BAD}] /\ \A j \in Places : z[j] = 0
  BY <1>2, StorageConstants DEF Places, Block
<1>4. NoInode = [id |-> 0, tags |-> << >>, size |-> 0, direct |-> z]
  BY <1>2 DEF NoInode
<1>5. NoInode \in Inode
  BY <1>3, <1>4 DEF Inode
<1>6. PICK T, c : /\ T = [i \in Slot |-> NoInode]
                  /\ c = [b \in DataBlocks |-> [u \in 0 .. UNITS - 1 |-> ZERO]]
  OBVIOUS
<1>7. IndexRebuild(Formatted) = << >>
  BY DEF IndexRebuild, Formatted
<1>8. PICK r : r = [used |-> 0 .. DATA_START - 1, freeBlocks |-> TOTAL_BLOCKS - DATA_START,
                    bits |-> {}, freeInodes |-> INODES, table |-> T, index |-> << >>,
                    nextId |-> 1, storage |-> c, stopped |-> "no"]
  OBVIOUS
<1>9. Boot(Formatted) = r
  BY <1>1, <1>6, <1>7, <1>8 DEF Booted, Formatted
<1>10. r \in FileSystem
  <2>1. T \in [Slot -> Inode]
    BY <1>5, <1>6
  <2>2. c \in [DataBlocks -> [Offsets -> Bytes \cup {ZERO}]]
    BY <1>6 DEF Offsets
  <2>3. << >> \in Index
    <3>1. DOMAIN << >> = {} /\ << >> \in [DOMAIN << >> -> Seq(Nat)]
      OBVIOUS
    <3> QED BY <3>1, IndexType
  <2>4. 0 .. DATA_START - 1 \in SUBSET Block /\ TOTAL_BLOCKS - DATA_START \in Int /\ INODES \in Int
    BY StorageConstants DEF Block
  <2> QED BY <1>8, <2>1, <2>2, <2>3, <2>4 DEF FileSystem, Stop
<1>11. PointersOf(r) = {}
  BY <1>3, <1>4, <1>6, <1>8 DEF PointersOf, Direct
<1>12. BlockInv(r)
  <2>1. {Direct(r, p) : p \in PointersOf(r)} = {}
    BY <1>11
  <2>2. Cardinality(0 .. DATA_START - 1) = DATA_START
    BY StorageConstants, BlocksFinite
  <2> QED BY <1>8, <1>11, <2>1, <2>2 DEF BlockInv
<1>13. UsedSlots(r) = {} /\ FileIds(r) = {}
  BY <1>4, <1>6, <1>8 DEF UsedSlots, FileIds
<1>14. InodeInv(r)
  <2>1. \A t \in Slot : r.table[t] = NoInode /\ NoInode.id = 0
    BY <1>4, <1>6, <1>8
  <2>2. Cardinality({}) = 0
    BY FS_EmptySet
  <2>3. Cardinality(UsedSlots(r)) = 0 /\ Cardinality(r.bits) = 0
    BY <1>8, <1>13, <2>2
  <2>4. \A t \in Slot : r.table[t].id <= r.nextId /\ (r.table[t].id = 0 => r.table[t] = NoInode)
    BY <1>8, <2>1
  <2>5. \A s, t \in UsedSlots(r) : r.table[s].id = r.table[t].id => s = t
    BY <1>13
  <2>6. r.freeInodes = INODES - Cardinality(UsedSlots(r))
    BY <1>8, <2>3, StorageConstants
  <2> QED BY <2>3, <2>4, <2>5, <2>6 DEF InodeInv
<1>15. SizeInv(r)
  BY <1>4, <1>6, <1>8 DEF SizeInv, Covered
<1>16. IndexInv(r)
  BY <1>8 DEF IndexInv, Naming
<1>17. \A F : DOMAIN F = {} => FdOk(r, F)
  BY DEF FdOk
<1> QED BY <1>9, <1>10, <1>12, <1>14, <1>15, <1>16, <1>17 DEF FsInv

LEMMA FdAllocated ==
  ASSUME NEW m \in FileSystem, FdOk(m, fdTable), NEW id \in Nat \ {0}, id <= m.nextId, AllocateFd(id),
         m.table \in [Slot -> Inode], InodeInv(m)
  PROVE  FdOk(m, fdTable')
<1>1. CASE UnusedSlots = {}
  BY <1>1 DEF AllocateFd
<1>2. CASE UnusedSlots # {}
  <2>1. PICK d, g, T : /\ d = Min(UnusedSlots) /\ g = [id |-> id, position |-> 0] /\ T = fdTable'
    OBVIOUS
  <2>2. d \in FdSlot /\ d \notin DOMAIN fdTable
    <3>1. UnusedSlots \subseteq Nat
      BY StorageConstants DEF UnusedSlots, FdSlot
    <3>2. d \in UnusedSlots
      BY <1>2, <2>1, <3>1, LeastMember
    <3> QED BY <3>2 DEF UnusedSlots
  <2>3. T = [s \in DOMAIN fdTable \cup {d} |-> IF s \in DOMAIN fdTable THEN fdTable[s] ELSE g]
    BY <1>2, <2>1 DEF AllocateFd
  <2>4. DOMAIN fdTable \subseteq FdSlot /\ fdTable \in [DOMAIN fdTable -> [id : Nat \ {0}, position : Nat]]
    BY DEF FdOk
  <2>5. DOMAIN T \subseteq FdSlot /\ T \in [DOMAIN T -> [id : Nat \ {0}, position : Nat]]
    BY <2>1, <2>2, <2>3, <2>4
  <2>6. ASSUME NEW s \in DOMAIN T
        PROVE  /\ T[s].id <= m.nextId
               /\ T[s].id \in FileIds(m) => T[s].position <= File(m, T[s].id).size
    <3>1. CASE s \in DOMAIN fdTable
      <4>1. T[s] = fdTable[s]
        BY <2>3, <3>1
      <4> QED BY <3>1, <4>1 DEF FdOk
    <3>2. CASE s \notin DOMAIN fdTable
      <4>1. T[s].id = id /\ T[s].position = 0
        BY <2>1, <2>3, <2>6, <3>2
      <4>2. ASSUME id \in FileIds(m) PROVE File(m, id).size \in Nat
        <5>1. SlotOf(m, id) \in Slot
          BY <4>2, SlotOfFile DEF UsedSlots
        <5> QED BY <5>1 DEF File, Inode
      <4> QED BY <4>1, <4>2
    <3> QED BY <3>1, <3>2
  <2> QED BY <2>1, <2>5, <2>6 DEF FdOk
<1> QED BY <1>1, <1>2


\* fs_close, fs_read and fs_write move the descriptors.
LEMMA FdMoved ==
  ASSUME NEW m, NEW r, m \in FileSystem, r \in FileSystem, FdOk(m, fdTable), FilesGrow(m, r),
         r.table \in [Slot -> Inode], InodeInv(r), m.table \in [Slot -> Inode], InodeInv(m),
         NEW s \in DOMAIN fdTable, NEW n \in Nat,
         fdTable[s].id \in FileIds(r) => fdTable[s].position + n <= File(r, fdTable[s].id).size,
         fdTable' = [fdTable EXCEPT ![s].position = @ + n]
  PROVE  FdOk(r, fdTable')
<1>1. FdOk(r, fdTable)
  BY FdKept
<1>2. PICK T, g, p : /\ T = fdTable' /\ p = fdTable[s].position + n
                     /\ g = [fdTable[s] EXCEPT !.position = p]
  OBVIOUS
<1>3. DOMAIN fdTable \subseteq FdSlot /\ fdTable \in [DOMAIN fdTable -> [id : Nat \ {0}, position : Nat]]
  BY DEF FdOk
<1>4. fdTable[s] \in [id : Nat \ {0}, position : Nat] /\ p \in Nat
  BY <1>2, <1>3
<1>5. g \in [id : Nat \ {0}, position : Nat] /\ g.id = fdTable[s].id /\ g.position = p
  BY <1>2, <1>4
<1>6. T = [fdTable EXCEPT ![s] = g]
  BY <1>2
<1>7. DOMAIN T = DOMAIN fdTable /\ T[s] = g /\ \A d \in DOMAIN fdTable : d # s => T[d] = fdTable[d]
  BY <1>6
<1>8. T \in [DOMAIN T -> [id : Nat \ {0}, position : Nat]]
  BY <1>3, <1>5, <1>6
<1>9. ASSUME NEW d \in DOMAIN T
      PROVE  /\ T[d].id <= r.nextId
             /\ T[d].id \in FileIds(r) => T[d].position <= File(r, T[d].id).size
  <2>1. CASE d = s
    <3>1. fdTable[s].id <= r.nextId
      BY <1>1 DEF FdOk
    <3> QED BY <1>2, <1>5, <1>7, <2>1, <3>1
  <2>2. CASE d # s
    <3>1. T[d] = fdTable[d] /\ d \in DOMAIN fdTable
      BY <1>7, <2>2
    <3> QED BY <1>1, <3>1 DEF FdOk
  <2> QED BY <2>1, <2>2
<1> QED BY <1>2, <1>3, <1>7, <1>8, <1>9 DEF FdOk

\* The tags callers use.
LEMMA TagsOfCallers ==
  /\ \A path \in Names : << <<"name", path>>, <<"type", "file">> >> \in Seq(TagSet)
  /\ \A tags \in TagLists : tags \in Seq(TagSet)
  /\ \A t \in Tags : t \in TagSet
  /\ TRASHED \in TagSet
<1>1. \A path \in Names : <<"name", path>> \in TagSet /\ <<"type", "file">> \in TagSet
  BY DEF TagSet, AllTags
<1>2. ASSUME NEW tags \in TagLists PROVE tags \in Seq(TagSet)
  <2>1. tags \in Seq(ToSet(tags)) /\ ToSet(tags) \subseteq TagSet
    BY StorageAssumption DEF TagSet
  <2> QED BY <2>1
<1> QED BY <1>1, <1>2 DEF TagSet, AllTags

\* Every call keeps the files and the descriptors.
LEMMA StorageStep ==
  ASSUME StorageInv, [Next]_vars
  PROVE  StorageInv'
<1>0. /\ disk = Formatted /\ FsInv(fs) /\ FdOk(fs, fdTable)
      /\ fs \in FileSystem /\ fs.table \in [Slot -> Inode] /\ InodeInv(fs) /\ fs.nextId \in Nat
  BY DEF StorageInv, FsInv, FileSystem
<1> SUFFICES disk' = Formatted /\ FsInv(fs') /\ FdOk(fs', fdTable')
  BY DEF StorageInv
<1>1. ASSUME NEW m, fs' = m, FsInv(m), FilesGrow(fs, m), UNCHANGED <<disk, fdTable>>
      PROVE  disk' = Formatted /\ FsInv(fs') /\ FdOk(fs', fdTable')
  <2>1. m \in FileSystem /\ m.table \in [Slot -> Inode] /\ InodeInv(m)
    BY <1>1 DEF FsInv, FileSystem
  <2>2. FdOk(m, fdTable)
    BY <1>0, <1>1, <2>1, FdKept
  <2> QED BY <1>0, <1>1, <2>2
<1>2. CASE Restart
  <2>1. fs' = Boot(Formatted) /\ DOMAIN fdTable' = {} /\ disk' = Formatted
    <3>1. DOMAIN << >> = {}
      OBVIOUS
    <3> QED BY <1>0, <1>2, <3>1 DEF Restart
  <2> QED BY <2>1, BootedEmpty
<1>3. ASSUME NEW path \in Names, fs_open(path)
      PROVE  disk' = Formatted /\ FsInv(fs') /\ FdOk(fs', fdTable')
  <2>1. PICK tags : tags = << <<"name", path>>, <<"type", "file">> >> /\ tags \in Seq(TagSet)
    BY TagsOfCallers
  <2>2. PICK r : /\ r = CreateFile(fs, tags) /\ fs' = r.m /\ disk' = Formatted
                 /\ IF r.id = 0 THEN UNCHANGED fdTable ELSE AllocateFd(r.id)
    <3>1. QuerySingle(fs, <<"name", path>>).ret = 0 => QuerySingle(fs, <<"name", path>>).ids = << >>
      BY DEF QuerySingle
    <3> QED BY <1>0, <1>3, <2>1, <3>1 DEF fs_open
  <2>3. /\ FsInv(r.m) /\ FilesGrow(fs, r.m)
        /\ (r.m = fs /\ r.id = 0) \/ Created(fs, r)
    BY <1>0, <2>1, <2>2, FileCreated
  <2>4. PICK m, id : m = r.m /\ id = r.id
    OBVIOUS
  <2>5. m \in FileSystem /\ m.table \in [Slot -> Inode] /\ InodeInv(m) /\ FilesGrow(fs, m) /\ FsInv(m)
    BY <2>3, <2>4 DEF FsInv, FileSystem
  <2>6. FdOk(m, fdTable)
    BY <1>0, <2>5, FdKept
  <2>7. CASE id = 0
    BY <2>2, <2>4, <2>5, <2>6, <2>7
  <2>8. CASE id # 0
    <3>1. id \in Nat \ {0} /\ id <= m.nextId
      BY <1>0, <2>3, <2>4, <2>8 DEF Created
    <3>2. AllocateFd(id)
      BY <2>2, <2>4, <2>8
    <3>3. FdOk(m, fdTable')
      BY <2>5, <2>6, <3>1, <3>2, FdAllocated
    <3> QED BY <2>2, <2>4, <2>5, <3>3
  <2> QED BY <2>7, <2>8
<1>4. ASSUME NEW s \in FdSlot, fs_close(s)
      PROVE  disk' = Formatted /\ FsInv(fs') /\ FdOk(fs', fdTable')
  <2>1. PICK T : T = fdTable' /\ T = [t \in DOMAIN fdTable \ {s} |-> fdTable[t]] /\ fs' = fs
                 /\ disk' = Formatted
    BY <1>0, <1>4 DEF fs_close
  <2>2. FdOk(fs, T)
    BY <1>0, <2>1 DEF FdOk
  <2> QED BY <1>0, <2>1, <2>2
<1>5. ASSUME NEW s \in FdSlot, fs_read(s, UNITS)
      PROVE  disk' = Formatted /\ FsInv(fs') /\ FdOk(fs', fdTable')
  <2>1. PICK id, p, n : /\ id = fdTable[s].id /\ p = fdTable[s].position
                        /\ n = Len(ReadFile(fs, id, p, UNITS))
    OBVIOUS
  <2>2. s \in DOMAIN fdTable /\ id \in FileIds(fs) /\ fs' = fs /\ disk' = Formatted
        /\ fdTable' = [fdTable EXCEPT ![s].position = @ + n]
    BY <1>0, <1>5, <2>1 DEF fs_read
  <2>3. p \in Nat /\ p <= File(fs, id).size
    BY <1>0, <2>1, <2>2 DEF FdOk
  <2>4. File(fs, id).size \in Nat
    <3>1. SlotOf(fs, id) \in Slot
      BY <1>0, <2>2, SlotOfFile DEF UsedSlots
    <3> QED BY <1>0, <3>1 DEF File, Inode
  <2>5. n \in Nat /\ p + n <= File(fs, id).size
    <3>1. UNITS \in Nat
      BY StorageConstants
    <3> QED BY <2>1, <2>3, <2>4, <3>1, ReadLength
  <2>6. FilesGrow(fs, fs)
    BY <1>0, NoStep
  <2>7. FdOk(fs, fdTable')
    <3>1. fdTable[s].id \in FileIds(fs) => fdTable[s].position + n <= File(fs, fdTable[s].id).size
      BY <2>1, <2>5
    <3>2. s \in DOMAIN fdTable /\ n \in Nat /\ fdTable' = [fdTable EXCEPT ![s].position = @ + n]
      BY <2>2, <2>5
    <3> QED BY <1>0, <2>6, <3>1, <3>2, FdMoved
  <2> QED BY <1>0, <2>2, <2>7
<1>6. ASSUME NEW s \in FdSlot, NEW data \in Chunks, fs_write(s, data)
      PROVE  disk' = Formatted /\ FsInv(fs') /\ FdOk(fs', fdTable')
  <2>1. PICK id, p : id = fdTable[s].id /\ p = fdTable[s].position
    OBVIOUS
  <2>2. PICK w : /\ w = WriteFile(fs, id, p, data) /\ fs' = w.m /\ disk' = Formatted
                 /\ s \in DOMAIN fdTable /\ id \in FileIds(fs)
                 /\ fdTable' = [fdTable EXCEPT ![s].position = @ + w.done]
    BY <1>0, <1>6, <2>1 DEF fs_write
  <2>3. p \in 0 .. File(fs, id).size /\ data \in Seq(Bytes)
    <3>1. p \in Nat /\ p <= File(fs, id).size
      BY <1>0, <2>1, <2>2 DEF FdOk
    <3>2. SlotOf(fs, id) \in Slot
      BY <1>0, <2>2, SlotOfFile DEF UsedSlots
    <3>3. File(fs, id).size \in Nat
      BY <1>0, <3>2 DEF File, Inode
    <3> QED BY <3>1, <3>3, StorageAssumption
  <2>4. /\ FsInv(w.m) /\ FileIds(w.m) = FileIds(fs) /\ w.m.nextId = fs.nextId /\ w.done \in Nat
        /\ p + w.done <= File(w.m, id).size
        /\ \A i \in FileIds(fs) : File(fs, i).size <= File(w.m, i).size
    <3>1. id \in FileIds(fs) /\ w = WriteFile(fs, id, p, data)
      BY <2>2
    <3> QED BY <1>0, <2>3, <3>1, FileWritten
  <2>5. PICK m, n : m = w.m /\ n = w.done
    OBVIOUS
  <2>6. FsInv(m) /\ FilesGrow(fs, m) /\ n \in Nat /\ p + n <= File(m, id).size
    BY <1>0, <2>4, <2>5 DEF FilesGrow
  <2>7. m \in FileSystem /\ m.table \in [Slot -> Inode] /\ InodeInv(m)
    BY <2>6 DEF FsInv, FileSystem
  <2>8. FdOk(m, fdTable')
    <3>1. fdTable[s].id \in FileIds(m) => fdTable[s].position + n <= File(m, fdTable[s].id).size
      BY <2>1, <2>6
    <3>2. s \in DOMAIN fdTable /\ n \in Nat /\ fdTable' = [fdTable EXCEPT ![s].position = @ + n]
          /\ FilesGrow(fs, m)
      BY <2>2, <2>5, <2>6
    <3> QED BY <1>0, <2>7, <3>1, <3>2, FdMoved
  <2> QED BY <2>2, <2>5, <2>6, <2>8
<1>7. ASSUME NEW tags \in TagLists, tagfs_create_file(tags)
      PROVE  disk' = Formatted /\ FsInv(fs') /\ FdOk(fs', fdTable')
  <2>1. PICK r : r = CreateFile(fs, tags) /\ fs' = r.m /\ UNCHANGED <<disk, fdTable>>
    BY <1>7 DEF tagfs_create_file
  <2>2. tags \in Seq(TagSet)
    BY TagsOfCallers
  <2>3. FsInv(r.m) /\ FilesGrow(fs, r.m)
    BY <1>0, <2>1, <2>2, FileCreated
  <2> QED BY <1>1, <2>1, <2>3
<1>8. ASSUME NEW tags \in TagLists, NEW data \in Chunks, tagfs_create_file_with_data(tags, data)
      PROVE  disk' = Formatted /\ FsInv(fs') /\ FdOk(fs', fdTable')
  <2>1. PICK r : /\ r = CreateFile(fs, tags) /\ UNCHANGED <<disk, fdTable>>
                 /\ fs' = IF r.id = 0 THEN r.m ELSE WriteFile(r.m, r.id, 0, data).m
    BY <1>8 DEF tagfs_create_file_with_data
  <2>2. tags \in Seq(TagSet) /\ data \in Seq(Bytes)
    BY TagsOfCallers, StorageAssumption
  <2>3. /\ FsInv(r.m) /\ FilesGrow(fs, r.m)
        /\ (r.m = fs /\ r.id = 0) \/ Created(fs, r)
    BY <1>0, <2>1, <2>2, FileCreated
  <2>4. CASE r.id = 0
    BY <1>1, <2>1, <2>3, <2>4
  <2>5. CASE r.id # 0
    <3>1. PICK m, id : m = r.m /\ id = r.id
      OBVIOUS
    <3>2. id \in FileIds(m) /\ FsInv(m) /\ FilesGrow(fs, m) /\ m.table \in [Slot -> Inode]
          /\ InodeInv(m)
      BY <2>3, <2>5, <3>1 DEF Created, FsInv, FileSystem
    <3>3. 0 \in 0 .. File(m, id).size
      <4>1. SlotOf(m, id) \in Slot
        BY <3>2, SlotOfFile DEF UsedSlots
      <4>2. File(m, id).size \in Nat
        BY <3>2, <4>1 DEF File, Inode
      <4> QED BY <4>2
    <3>4. PICK w : w = WriteFile(m, id, 0, data)
      OBVIOUS
    <3>5. /\ FsInv(w.m) /\ FileIds(w.m) = FileIds(m) /\ w.m.nextId = m.nextId /\ w.done \in Nat
          /\ 0 + w.done <= File(w.m, id).size
          /\ \A i \in FileIds(m) : File(m, i).size <= File(w.m, i).size
      <4>1. id \in FileIds(m) /\ FsInv(m)
        BY <3>2
      <4> QED BY <2>2, <3>3, <3>4, <4>1, FileWritten
    <3>6. PICK u : u = w.m
      OBVIOUS
    <3>7. FilesGrow(fs, u)
      <4>1. ASSUME NEW i \in FileIds(u), i <= fs.nextId
            PROVE  i \in FileIds(fs) /\ File(fs, i).size <= File(u, i).size
        <5>1. i \in FileIds(m) /\ File(m, i).size <= File(u, i).size
          BY <3>5, <3>6
        <5>2. i \in FileIds(fs) /\ File(fs, i).size <= File(m, i).size
          BY <3>2, <4>1, <5>1 DEF FilesGrow
        <5>3. \A v \in {fs, m, u} : v.table \in [Slot -> Inode] /\ InodeInv(v)
          BY <1>0, <3>2, <3>5, <3>6 DEF FsInv, FileSystem
        <5>4. \A v \in {fs, m, u} : i \in FileIds(v)
          BY <4>1, <5>1, <5>2
        <5>5. \A v \in {fs, m, u} : SlotOf(v, i) \in Slot
          BY <5>3, <5>4, SlotOfFile DEF UsedSlots
        <5>6. \A v \in {fs, m, u} : File(v, i).size \in Nat
          BY <5>3, <5>5 DEF File, Inode
        <5>7. File(fs, i).size \in Nat /\ File(m, i).size \in Nat /\ File(u, i).size \in Nat
          BY <5>6
        <5> QED BY <5>1, <5>2, <5>7
      <4> QED BY <3>2, <3>5, <3>6, <4>1 DEF FilesGrow
    <3>8. fs' = u /\ FsInv(u)
      BY <2>1, <2>5, <3>1, <3>4, <3>5, <3>6
    <3> QED BY <1>1, <2>1, <3>7, <3>8
  <2> QED BY <2>4, <2>5
<1>9. ASSUME NEW id, NEW t \in TagSet, tagfs_add_tag(id, t)
      PROVE  disk' = Formatted /\ FsInv(fs') /\ FdOk(fs', fdTable')
  BY <1>0, <1>1, <1>9, TagAdded DEF tagfs_add_tag
<1>10. ASSUME NEW id, NEW key, tagfs_remove_tag(id, key)
       PROVE  disk' = Formatted /\ FsInv(fs') /\ FdOk(fs', fdTable')
  BY <1>0, <1>1, <1>10, TagRemoved DEF tagfs_remove_tag
<1>11. ASSUME NEW id, tagfs_erase_file(id)
       PROVE  disk' = Formatted /\ FsInv(fs') /\ FdOk(fs', fdTable')
  BY <1>0, <1>1, <1>11, FileErased DEF tagfs_erase_file
<1>12. CASE UNCHANGED vars
  BY <1>0, <1>12 DEF vars
<1>13. \A id \in Issued, t \in Tags :
         tagfs_add_tag(id, t) \/ tagfs_remove_tag(id, t[1])
           => disk' = Formatted /\ FsInv(fs') /\ FdOk(fs', fdTable')
  BY <1>9, <1>10, TagsOfCallers
<1>14. \A id \in Issued :
         tagfs_trash_file(id) \/ tagfs_restore_file(id)
           => disk' = Formatted /\ FsInv(fs') /\ FdOk(fs', fdTable')
  BY <1>9, <1>10, TagsOfCallers DEF tagfs_trash_file, tagfs_restore_file
<1> QED BY <1>2, <1>3, <1>4, <1>5, <1>6, <1>7, <1>8, <1>11, <1>12, <1>13, <1>14 DEF Next

LEMMA StorageAlways == Spec => []StorageInv
<1>1. Init => StorageInv
  <2>1. Init => disk = Formatted /\ fs = Boot(Formatted) /\ DOMAIN fdTable = {}
    <3>1. DOMAIN << >> = {}
      OBVIOUS
    <3> QED BY <3>1 DEF Init
  <2> QED BY <2>1, BootedEmpty DEF StorageInv
<1>2. StorageInv /\ [Next]_vars => StorageInv'
  BY StorageStep
<1> QED BY <1>1, <1>2, PTL DEF Spec

-------------------------------------------------------------------------------
(***************************************************************************)
(* What the runs check, for every size.                                    *)
(***************************************************************************)
\* Every block in use is at one place of one file, the bitmap and the counters
\* agree with the table, whatever write ran out of blocks and whatever erasure
\* came between.
THEOREM BlocksHaveOneFile == Spec => []BlocksOwned
<1>1. StorageInv => BlocksOwned
  <2> SUFFICES ASSUME StorageInv PROVE BlocksOwned
    OBVIOUS
  <2>1. BlockInv(fs) /\ InodeInv(fs)
    BY DEF StorageInv, FsInv
  <2>2. Pointers = PointersOf(fs) /\ \A p : At(p) = Direct(fs, p)
    BY DEF Pointers, PointersOf, At, Direct, Places
  <2>3. {At(p) : p \in Pointers} = {Direct(fs, p) : p \in PointersOf(fs)}
    BY <2>2
  <2>4. fs.freeInodes = INODES - Cardinality({s \in Slot : fs.table[s].id # 0})
    BY <2>1 DEF InodeInv, UsedSlots
  <2> QED BY <2>1, <2>2, <2>3, <2>4 DEF BlocksOwned, BlockInv
<1> QED BY <1>1, StorageAlways, PTL

\* A file has a block behind each of its bytes, and its descriptors stand in it:
\* a write that stops for want of blocks counts what it wrote and no more.
THEOREM FilesHaveNoHoles == Spec => []NoHoles
<1>1. StorageInv => NoHoles
  BY DEF StorageInv, FsInv, SizeInv, Covered, FdOk, NoHoles
<1> QED BY <1>1, StorageAlways, PTL

\* The index never names a file that is erased, although removing a tag leaves
\* its entry behind.
THEOREM IndexNamesTheLiving == Spec => []IndexNamesFiles
<1>1. StorageInv => IndexNamesFiles
  BY DEF StorageInv, FsInv, IndexInv, Naming, IndexNamesFiles, ToSet
<1> QED BY <1>1, StorageAlways, PTL

-------------------------------------------------------------------------------
(***************************************************************************)
(* The contents of the files, and the file store they implement.           *)
(***************************************************************************)
BytesOf(m, id) == [k \in 1 .. File(m, id).size |-> StoredAt(m, SlotOf(m, id), k - 1)]
Contents(m) == [id \in FileIds(m) |-> BytesOf(m, id)]
Put(c, id, bytes) == [i \in DOMAIN c \cup {id} |-> IF i = id THEN bytes ELSE c[i]]

\* Where a file lies.
LEMMA FileAt ==
  ASSUME NEW m, FsInv(m), NEW id \in FileIds(m)
  PROVE  /\ SlotOf(m, id) \in Slot /\ SlotOf(m, id) \in UsedSlots(m)
         /\ File(m, id) = m.table[SlotOf(m, id)] /\ m.table[SlotOf(m, id)].id = id
         /\ File(m, id).size \in Nat /\ id \in Nat \ {0}
         /\ Covered(m, SlotOf(m, id), File(m, id).size)
         /\ \A t \in Slot : m.table[t].id = id => t = SlotOf(m, id)
<1>1. m.table \in [Slot -> Inode] /\ InodeInv(m) /\ SizeInv(m)
  BY DEF FsInv, FileSystem
<1>2. SlotOf(m, id) \in Slot /\ SlotOf(m, id) \in UsedSlots(m)
  BY <1>1, SlotOfFile DEF UsedSlots
<1>3. m.table[SlotOf(m, id)].id = id /\ id \in Nat \ {0}
      /\ \A t \in Slot : m.table[t].id = id => t = SlotOf(m, id)
  BY <1>1, SlotOfFile
<1>4. m.table[SlotOf(m, id)].size \in Nat
  BY <1>1, <1>2 DEF Inode
<1> QED BY <1>1, <1>2, <1>3, <1>4 DEF File, SizeInv

\* A block is behind each byte, and what it holds is a byte.
LEMMA StoredIs ==
  ASSUME NEW m, FsInv(m), NEW s \in Slot, NEW n \in Nat, Covered(m, s, n), NEW a \in 0 .. n - 1
  PROVE  /\ Pointer(m.table[s], a) \notin {0, BAD}
         /\ StoredAt(m, s, a) \in Bytes \cup {ZERO}
<1>1. Pointer(m.table[s], a) \in DataBlocks
  BY DEF Covered
<1>2. Pointer(m.table[s], a) \notin {0, BAD}
  BY <1>1, StorageConstants DEF DataBlocks, BAD
<1>3. a % UNITS \in Offsets
  BY StorageConstants DEF Offsets
<1>4. m.storage \in [DataBlocks -> [Offsets -> Bytes \cup {ZERO}]]
  BY DEF FsInv, FileSystem
<1> QED BY <1>1, <1>2, <1>3, <1>4 DEF StoredAt

\* tagfs_read_file of a whole file gives all of its bytes: no pointer on the way
\* is a failure.
LEMMA WholeRead ==
  ASSUME NEW m, FsInv(m), NEW id \in FileIds(m)
  PROVE  /\ ReadFile(m, id, 0, File(m, id).size) = BytesOf(m, id)
         /\ BytesOf(m, id) \in Seq(Bytes \cup {ZERO}) /\ Len(BytesOf(m, id)) = File(m, id).size
<1>1. PICK s, f, z : s = SlotOf(m, id) /\ f = m.table[s] /\ z = f.size
  OBVIOUS
<1>2. s \in Slot /\ File(m, id) = f /\ z \in Nat /\ Covered(m, s, z)
  BY <1>1, FileAt
<1>3. \A a \in 0 .. z - 1 : Pointer(f, a) \notin {0, BAD} /\ StoredAt(m, s, a) \in Bytes \cup {ZERO}
  BY <1>1, <1>2, StoredIs
<1>4. \A a \in 0 .. z - 1 : ByteAt(m, f, a) = StoredAt(m, s, a)
  BY <1>1, <1>3 DEF ByteAt, StoredAt
<1>5. PICK q : q = [k \in 1 .. z |-> StoredAt(m, s, k - 1)]
  OBVIOUS
<1>6. \A k \in 1 .. z : k - 1 \in 0 .. z - 1
  BY <1>2
<1>7. q \in Seq(Bytes \cup {ZERO}) /\ Len(q) = z
  <2>1. \A k \in 1 .. z : q[k] \in Bytes \cup {ZERO}
    BY <1>3, <1>5, <1>6
  <2> QED BY <1>2, <1>5, <2>1
<1>8. BytesOf(m, id) = q
  BY <1>1, <1>2, <1>5 DEF BytesOf
<1>9. CASE z = 0
  <2>1. ReadFile(m, id, 0, File(m, id).size) = << >>
    BY <1>1, <1>2, <1>9 DEF ReadFile
  <2>2. q = << >>
    BY <1>7, <1>9
  <2> QED BY <1>2, <1>1, <1>7, <1>8, <2>1, <2>2
<1>10. CASE z # 0
  <2>1. PICK end, upTo, x : /\ end = Min({0 + z, z}) /\ x = Max(upTo)
                            /\ upTo = {e \in 0 .. end : \A at \in 0 .. e - 1 : Pointer(f, at) # BAD}
    OBVIOUS
  <2>2. end = z
    <3>1. PICK S : S = {0 + z, z}
      OBVIOUS
    <3>2. S = {z} /\ S # {} /\ S \subseteq Nat
      BY <1>2, <3>1
    <3>3. Min(S) \in S
      BY <3>2, LeastMember
    <3> QED BY <2>1, <3>1, <3>2, <3>3
  <2>3. upTo = 0 .. z
    <3>1. \A e \in 0 .. z : \A at \in 0 .. e - 1 : at \in 0 .. z - 1
      BY <1>2
    <3> QED BY <1>3, <2>1, <2>2, <3>1
  <2>4. x = z
    <3>1. upTo \subseteq 0 .. z /\ upTo # {} /\ z \in upTo
      BY <1>2, <2>3
    <3>2. Max(upTo) \in upTo /\ \A y \in upTo : y <= Max(upTo)
      BY <1>2, <3>1, GreatestMember
    <3>3. x \in 0 .. z /\ z <= x
      BY <2>1, <2>3, <3>1, <3>2
    <3> QED BY <1>2, <3>3
  <2>5. ReadFile(m, id, 0, File(m, id).size) = [k \in 1 .. x - 0 |-> ByteAt(m, f, 0 + k - 1)]
    <3>1. ~(0 >= z)
      BY <1>2, <1>10
    <3> QED BY <1>1, <1>2, <2>1, <3>1 DEF ReadFile
  <2>6. [k \in 1 .. x - 0 |-> ByteAt(m, f, 0 + k - 1)] = q
    <3>1. x - 0 = z /\ \A k \in 1 .. z : 0 + k - 1 = k - 1
      BY <1>2, <2>4
    <3>2. \A k \in 1 .. z : ByteAt(m, f, 0 + k - 1) = StoredAt(m, s, k - 1)
      BY <1>4, <1>6, <3>1
    <3> QED BY <1>5, <3>1, <3>2
  <2> QED BY <1>1, <1>2, <1>7, <1>8, <2>5, <2>6
<1> QED BY <1>9, <1>10

\* What a step leaves of a file.
LEMMA FileKept ==
  ASSUME NEW m, FsInv(m), NEW r, FsInv(r), NEW i \in FileIds(m), NEW s, s = SlotOf(m, i),
         r.table[s].id = m.table[s].id, r.table[s].size = m.table[s].size,
         \A a \in 0 .. m.table[s].size - 1 : StoredAt(r, s, a) = StoredAt(m, s, a)
  PROVE  i \in FileIds(r) /\ BytesOf(r, i) = BytesOf(m, i)
<1>1. s \in Slot /\ m.table[s].id = i /\ i # 0 /\ File(m, i) = m.table[s] /\ m.table[s].size \in Nat
  BY FileAt
<1>2. i \in FileIds(r)
  BY <1>1 DEF FileIds
<1>3. SlotOf(r, i) = s /\ File(r, i) = r.table[s]
  <2>1. \A t \in Slot : r.table[t].id = i => t = SlotOf(r, i)
    BY <1>2, FileAt
  <2>2. SlotOf(r, i) = s
    BY <1>1, <2>1
  <2> QED BY <2>2 DEF File
<1>4. \A k \in 1 .. m.table[s].size : StoredAt(r, s, k - 1) = StoredAt(m, s, k - 1)
  <2>1. \A k \in 1 .. m.table[s].size : k - 1 \in 0 .. m.table[s].size - 1
    BY <1>1
  <2> QED BY <2>1
<1>5. BytesOf(m, i) = [k \in 1 .. m.table[s].size |-> StoredAt(m, s, k - 1)]
  BY <1>1 DEF BytesOf
<1>6. BytesOf(r, i) = [k \in 1 .. m.table[s].size |-> StoredAt(r, s, k - 1)]
  BY <1>1, <1>3 DEF BytesOf
<1> QED BY <1>2, <1>4, <1>5, <1>6

\* The file lies where it lay, in the same blocks, and they hold the same.
LEMMA SlotKept ==
  ASSUME NEW m, FsInv(m), NEW r, FsInv(r), NEW i \in FileIds(m), NEW s, s = SlotOf(m, i),
         r.table[s].id = m.table[s].id, r.table[s].size = m.table[s].size,
         r.table[s].direct = m.table[s].direct, r.storage = m.storage
  PROVE  i \in FileIds(r) /\ BytesOf(r, i) = BytesOf(m, i)
<1>1. \A a \in 0 .. m.table[s].size - 1 : StoredAt(r, s, a) = StoredAt(m, s, a)
  BY DEF StoredAt, Pointer
<1> QED BY <1>1, FileKept

\* Tags, the index and a halt are not contents.
LEMMA ContentsKept ==
  ASSUME NEW m, FsInv(m), NEW r, FsInv(r), r.storage = m.storage,
         \A t \in Slot : /\ r.table[t].id = m.table[t].id /\ r.table[t].size = m.table[t].size
                         /\ r.table[t].direct = m.table[t].direct
  PROVE  Contents(r) = Contents(m)
<1>1. FileIds(r) = FileIds(m)
  BY DEF FileIds
<1>2. ASSUME NEW i \in FileIds(m) PROVE BytesOf(r, i) = BytesOf(m, i)
  <2>1. PICK s : s = SlotOf(m, i) /\ s \in Slot
    BY FileAt
  <2> QED BY <2>1, SlotKept
<1> QED BY <1>1, <1>2 DEF Contents

\* Writing over a sequence from some place in it on.
LEMMA OverlayIs ==
  ASSUME NEW V, NEW q \in Seq(V), NEW d \in Seq(V), NEW at \in 0 .. Len(q), NEW o, o = Store!Overlay(q, at, d)
  PROVE  /\ o \in Seq(V) /\ Len(o) = IF Len(q) <= at + Len(d) THEN at + Len(d) ELSE Len(q)
         /\ \A k \in 1 .. Len(o) :
              o[k] = IF k <= at \/ at + Len(d) < k THEN q[k] ELSE d[k - at]
<1>1. PICK n, l, a, b, c : /\ n = Len(q) /\ l = Len(d) /\ a = SubSeq(q, 1, at)
                           /\ b = SubSeq(q, at + l + 1, n) /\ c = a \o d
  OBVIOUS
<1>2. n \in Nat /\ l \in Nat /\ at \in Nat /\ at <= n
  BY <1>1
<1>3. a \in Seq(V) /\ Len(a) = at /\ \A k \in 1 .. at : a[k] = q[k]
  BY <1>1, <1>2
<1>4. b \in Seq(V) /\ Len(b) = (IF n <= at + l THEN 0 ELSE n - (at + l))
      /\ \A k \in 1 .. Len(b) : b[k] = q[at + l + k]
  BY <1>1, <1>2
<1>5. c \in Seq(V) /\ Len(c) = at + l
      /\ \A k \in 1 .. at + l : c[k] = IF k <= at THEN q[k] ELSE d[k - at]
  <2>1. a \o d \in Seq(V) /\ Len(a \o d) = Len(a) + Len(d)
        /\ \A k \in 1 .. Len(a) + Len(d) : (a \o d)[k] = IF k <= Len(a) THEN a[k] ELSE d[k - Len(a)]
    BY <1>3, ConcatProperties
  <2>2. c \in Seq(V) /\ Len(c) = at + l
        /\ \A k \in 1 .. at + l : c[k] = IF k <= at THEN a[k] ELSE d[k - at]
    BY <1>1, <1>3, <2>1
  <2>3. \A k \in 1 .. at + l : k <= at => a[k] = q[k]
    BY <1>2, <1>3
  <2> QED BY <2>2, <2>3
<1>6. o = c \o b
  BY <1>1 DEF Store!Overlay
<1>7. o \in Seq(V) /\ Len(o) = Len(c) + Len(b)
      /\ \A k \in 1 .. Len(c) + Len(b) : o[k] = IF k <= Len(c) THEN c[k] ELSE b[k - Len(c)]
  <2>1. c \o b \in Seq(V) /\ Len(c \o b) = Len(c) + Len(b)
        /\ \A k \in 1 .. Len(c) + Len(b) : (c \o b)[k] = IF k <= Len(c) THEN c[k] ELSE b[k - Len(c)]
    BY <1>4, <1>5, ConcatProperties
  <2> QED BY <1>6, <2>1
<1>8. Len(o) = IF n <= at + l THEN at + l ELSE n
  BY <1>2, <1>4, <1>5, <1>7
<1>9. ASSUME NEW k \in 1 .. Len(o)
      PROVE  o[k] = IF k <= at \/ at + l < k THEN q[k] ELSE d[k - at]
  <2>1. k \in 1 .. Len(c) + Len(b) /\ k \in Nat
    BY <1>2, <1>4, <1>5, <1>7
  <2>2. CASE k <= at + l
    <3>1. o[k] = c[k] /\ k \in 1 .. at + l
      BY <1>2, <1>5, <1>7, <2>1, <2>2
    <3>2. c[k] = IF k <= at THEN q[k] ELSE d[k - at]
      BY <1>5, <3>1
    <3> QED BY <1>2, <2>1, <2>2, <3>1, <3>2
  <2>3. CASE at + l < k
    <3>1. o[k] = b[k - (at + l)] /\ k - (at + l) \in 1 .. Len(b)
      BY <1>2, <1>4, <1>5, <1>7, <2>1, <2>3
    <3>2. at + l + (k - (at + l)) = k
      BY <1>2, <2>1
    <3>3. b[k - (at + l)] = q[at + l + (k - (at + l))]
      BY <1>4, <3>1
    <3> QED BY <2>3, <3>1, <3>2, <3>3
  <2> QED BY <1>2, <2>1, <2>2, <2>3
<1> QED BY <1>1, <1>7, <1>8, <1>9

\* tagfs_add_tag and tagfs_remove_tag.
LEMMA TagsKeepContents ==
  ASSUME NEW m, FsInv(m), NEW id \in FileIds(m), NEW q, NEW r, FsInv(r), r.storage = m.storage,
         r.table = [m.table EXCEPT ![SlotOf(m, id)].tags = q]
  PROVE  Contents(r) = Contents(m)
<1>1. PICK s, f : s = SlotOf(m, id) /\ f = [m.table[s] EXCEPT !.tags = q]
  OBVIOUS
<1>2. s \in Slot /\ m.table \in [Slot -> Inode]
  BY <1>1, FileAt DEF FsInv, FileSystem
<1>3. f.id = m.table[s].id /\ f.size = m.table[s].size /\ f.direct = m.table[s].direct
  BY <1>1, <1>2 DEF Inode
<1>4. r.table = [m.table EXCEPT ![s] = f]
  BY <1>1
<1>5. \A t \in Slot : r.table[t] = IF t = s THEN f ELSE m.table[t]
  BY <1>2, <1>4
<1>6. \A t \in Slot : /\ r.table[t].id = m.table[t].id /\ r.table[t].size = m.table[t].size
                      /\ r.table[t].direct = m.table[t].direct
  BY <1>3, <1>5
<1> QED BY <1>6, ContentsKept

LEMMA TagAddedContents ==
  ASSUME NEW m, FsInv(m), NEW id, NEW t \in TagSet
  PROVE  Contents(AddTag(m, id, t)) = Contents(m)
<1>1. PICK r : r = AddTag(m, id, t)
  OBVIOUS
<1>2. FsInv(r) /\ m \in FileSystem
  BY <1>1, TagAdded DEF FsInv
<1>3. CASE r = m
  BY <1>1, <1>3
<1>4. CASE r # m
  <2>1. PICK s, ix : s = SlotOf(m, id) /\ ix = IndexAddFile(m.index, id, <<t>>)
    OBVIOUS
  <2>2. /\ id \in FileIds(m)
        /\ r = [m EXCEPT !.table[s].tags = Append(m.table[s].tags, t), !.index = ix]
    BY <1>1, <1>4, <2>1 DEF AddTag
  <2>3. PICK q : q = Append(m.table[s].tags, t)
    OBVIOUS
  <2>4. PICK T : T = [m.table EXCEPT ![s].tags = q]
    OBVIOUS
  <2>5. r = [m EXCEPT !.table = T, !.index = ix]
    BY <2>2, <2>3, <2>4
  <2>6. r.table = T /\ r.storage = m.storage
    BY <1>2, <2>5 DEF FileSystem
  <2>7. r.table = [m.table EXCEPT ![SlotOf(m, id)].tags = q] /\ r.storage = m.storage
    BY <2>1, <2>4, <2>6
  <2>8. Contents(r) = Contents(m)
    <3>1. FsInv(r) /\ id \in FileIds(m)
      BY <1>2, <2>2
    <3> QED BY <2>7, <3>1, TagsKeepContents
  <2> QED BY <1>1, <2>8
<1> QED BY <1>3, <1>4

LEMMA TagRemovedContents ==
  ASSUME NEW m, FsInv(m), NEW id, NEW key
  PROVE  Contents(RemoveTag(m, id, key)) = Contents(m)
<1>1. PICK r : r = RemoveTag(m, id, key)
  OBVIOUS
<1>2. FsInv(r) /\ m \in FileSystem
  BY <1>1, TagRemoved DEF FsInv
<1>3. CASE r = m
  BY <1>1, <1>3
<1>4. CASE r # m
  <2>1. PICK s, q : /\ s = SlotOf(m, id)
                    /\ q = RemoveAt(m.table[s].tags,
                             Min({k \in DOMAIN File(m, id).tags : File(m, id).tags[k][1] = key}))
    OBVIOUS
  <2>2. id \in FileIds(m) /\ r = [m EXCEPT !.table[s].tags = q]
    BY <1>1, <1>4, <2>1 DEF RemoveTag
  <2>3. PICK T : T = [m.table EXCEPT ![s].tags = q]
    OBVIOUS
  <2>4. r = [m EXCEPT !.table = T]
    BY <2>2, <2>3
  <2>5. r.table = T /\ r.storage = m.storage
    BY <1>2, <2>4 DEF FileSystem
  <2>6. r.table = [m.table EXCEPT ![SlotOf(m, id)].tags = q] /\ r.storage = m.storage
    BY <2>1, <2>3, <2>5
  <2>7. Contents(r) = Contents(m)
    <3>1. FsInv(r) /\ id \in FileIds(m)
      BY <1>2, <2>2
    <3> QED BY <2>6, <3>1, TagsKeepContents
  <2> QED BY <1>1, <2>7
<1> QED BY <1>3, <1>4

\* tagfs_create_file adds a file without a byte.
LEMMA CreatedContents ==
  ASSUME NEW m, FsInv(m), NEW tags \in Seq(TagSet), NEW r, r = CreateFile(m, tags), r.id # 0
  PROVE  /\ FsInv(r.m) /\ Created(m, r) /\ Slot \ m.bits # {}
         /\ r.id \notin FileIds(m) /\ r.id \in FileIds(r.m) /\ File(r.m, r.id).size = 0
         /\ Contents(r.m) = Put(Contents(m), r.id, << >>)
<1> DEFINE free == Slot \ m.bits
           empty == {s \in Slot : m.table[s].id = 0}
<1>1. /\ m \in FileSystem /\ m.table \in [Slot -> Inode] /\ m.nextId \in Nat
      /\ \A s \in Slot : m.table[s].id <= m.nextId
  BY DEF FsInv, FileSystem, InodeInv
<1>2. FsInv(r.m) /\ Created(m, r)
  BY FileCreated
<1>3. free # {} /\ ~(Len(tags) > MAX_TAGS)
  BY DEF CreateFile
<1>4. empty # {}
  BY <1>3, SlotFree
<1>5. PICK id, u, v : /\ id = m.nextId + 1 /\ v = r.m
                      /\ u = [m EXCEPT !.bits = m.bits \cup {Min(free)}, !.freeInodes = m.freeInodes - 1,
                                       !.nextId = id]
  OBVIOUS
<1>6. r = Insert(u, id, tags)
  BY <1>1, <1>3, <1>5 DEF CreateFile
<1>7. u.table = m.table /\ u.storage = m.storage /\ u.index = m.index
  BY <1>1, <1>5 DEF FileSystem
<1>8. PICK s, f : s = Min(empty) /\ f = NewInode(id, tags)
  OBVIOUS
<1>9. s \in Slot /\ m.table[s].id = 0
  <2>1. empty \subseteq Nat
    BY StorageConstants DEF Slot
  <2>2. s \in empty
    <3> HIDE DEF empty
    <3> QED BY <1>4, <1>8, <2>1, LeastMember
  <2> QED BY <2>2
<1>10. {t \in Slot : u.table[t].id = 0} = empty
  BY <1>7
<1>11. PICK ix : ix = IndexAddFile(u.index, id, tags)
  OBVIOUS
<1>12. v = [u EXCEPT !.table[s] = f, !.index = ix] /\ r.id = id
  <2>1. Min({t \in Slot : u.table[t].id = 0}) = s
    BY <1>8, <1>10
  <2>2. {t \in Slot : u.table[t].id = 0} # {}
    BY <1>4, <1>10
  <2> QED BY <1>5, <1>6, <1>8, <1>11, <2>1, <2>2 DEF Insert
<1>13. v.table = [m.table EXCEPT ![s] = f] /\ v.storage = m.storage
  <2>1. PICK T : T = [u.table EXCEPT ![s] = f]
    OBVIOUS
  <2>2. v = [u EXCEPT !.table = T, !.index = ix]
    BY <1>12, <2>1
  <2>3. u = [m EXCEPT !.bits = u.bits, !.freeInodes = u.freeInodes, !.nextId = u.nextId]
    BY <1>1, <1>5 DEF FileSystem
  <2>4. v = [m EXCEPT !.bits = u.bits, !.freeInodes = u.freeInodes, !.nextId = u.nextId,
                      !.table = T, !.index = ix]
    BY <1>1, <2>2, <2>3 DEF FileSystem
  <2>5. v.table = T /\ v.storage = m.storage
    BY <1>1, <2>4 DEF FileSystem
  <2> QED BY <1>7, <2>1, <2>5
<1>14. v.table[s] = f /\ \A t \in Slot : t # s => v.table[t] = m.table[t]
  BY <1>1, <1>9, <1>13
<1>15. f.id = id /\ f.size = 0
  BY <1>8 DEF NewInode, NoInode
<1>16. id \notin FileIds(m) /\ id \in FileIds(v) /\ FileIds(v) = FileIds(m) \cup {id}
  <2>1. FileIds(v) = FileIds(m) \cup {id}
    BY <1>2, <1>5, <1>12 DEF Created
  <2>2. \A t \in Slot : m.table[t].id # id
    BY <1>1, <1>5 DEF Inode
  <2>3. id \notin FileIds(m)
    BY <2>2 DEF FileIds
  <2> QED BY <2>1, <2>3
<1>17. File(v, id).size = 0 /\ BytesOf(v, id) = << >>
  <2>1. SlotOf(v, id) = s
    <3>1. \A t \in Slot : v.table[t].id = id => t = SlotOf(v, id)
      BY <1>2, <1>5, <1>16, FileAt
    <3> QED BY <1>9, <1>14, <1>15, <3>1
  <2>2. File(v, id).size = 0
    BY <1>14, <1>15, <2>1 DEF File
  <2>3. Len(BytesOf(v, id)) = 0 /\ BytesOf(v, id) \in Seq(Bytes \cup {ZERO})
    BY <1>2, <1>5, <1>16, <2>2, WholeRead
  <2> QED BY <2>2, <2>3
<1>18. ASSUME NEW i \in FileIds(m) PROVE BytesOf(v, i) = BytesOf(m, i)
  <2>1. PICK t : t = SlotOf(m, i) /\ t \in Slot /\ m.table[t].id = i /\ i # 0
    BY FileAt
  <2>2. t # s
    BY <1>9, <2>1
  <2>3. v.table[t] = m.table[t] /\ FsInv(v)
    BY <1>2, <1>5, <1>14, <2>1, <2>2
  <2>4. /\ v.table[t].id = m.table[t].id /\ v.table[t].size = m.table[t].size
        /\ v.table[t].direct = m.table[t].direct /\ v.storage = m.storage
    BY <1>13, <2>3
  <2>5. FsInv(v) /\ t = SlotOf(m, i)
    BY <2>1, <2>3
  <2> QED BY <2>4, <2>5, SlotKept
<1>19. Contents(v) = Put(Contents(m), id, << >>)
  BY <1>16, <1>17, <1>18 DEF Contents, Put
<1> QED BY <1>2, <1>3, <1>5, <1>12, <1>16, <1>17, <1>19

\* tagfs_erase_file takes a file away and leaves the others.
LEMMA ErasedContents ==
  ASSUME NEW m, FsInv(m), NEW id, NEW r, r = EraseFile(m, id)
  PROVE  \/ Contents(r) = Contents(m)
         \/ id \in FileIds(m) /\ Contents(r) = [i \in FileIds(m) \ {id} |-> Contents(m)[i]]
<1> DEFINE blocks == {File(m, id).direct[i] : i \in 0 .. DIRECT - 1} \ {0}
<1>1. m \in FileSystem /\ m.table \in [Slot -> Inode] /\ FsInv(r)
  BY FileErased DEF FsInv, FileSystem
<1>2. CASE r = m
  BY <1>2
<1>3. ASSUME NEW z, r = [m EXCEPT !.stopped = z] PROVE Contents(r) = Contents(m)
  <2>1. r.table = m.table /\ r.storage = m.storage
    BY <1>1, <1>3 DEF FileSystem
  <2> QED BY <1>1, <2>1, ContentsKept
<1>4. CASE /\ id \in FileIds(m)
           /\ r = [m EXCEPT !.used = @ \ blocks, !.freeBlocks = @ + Cardinality(blocks),
                            !.index = IndexRemoveFile(@, id),
                            !.table[SlotOf(m, id)] = NoInode,
                            !.bits = @ \ {id}, !.freeInodes = @ + 1]
  <2>1. PICK s, T : s = SlotOf(m, id) /\ T = [m.table EXCEPT ![s] = NoInode]
    OBVIOUS
  <2>2. PICK a, b, c, d, e : /\ a = m.used \ blocks /\ b = m.freeBlocks + Cardinality(blocks)
                             /\ c = IndexRemoveFile(m.index, id) /\ d = m.bits \ {id}
                             /\ e = m.freeInodes + 1
    OBVIOUS
  <2>3. r.table = T /\ r.storage = m.storage
    <3>1. r = [m EXCEPT !.used = a, !.freeBlocks = b, !.index = c, !.table = T,
                        !.bits = d, !.freeInodes = e]
      BY <1>4, <2>1, <2>2
    <3> QED BY <1>1, <3>1 DEF FileSystem
  <2>4. s \in Slot /\ m.table[s].id = id /\ id # 0 /\ \A t \in Slot : m.table[t].id = id => t = s
    BY <1>4, <2>1, FileAt
  <2>5. T[s] = NoInode /\ \A t \in Slot : t # s => T[t] = m.table[t]
    BY <1>1, <2>1, <2>4
  <2>6. FileIds(r) = FileIds(m) \ {id}
    BY <2>3, <2>4, <2>5 DEF FileIds, NoInode
  <2>7. ASSUME NEW i \in FileIds(m) \ {id} PROVE BytesOf(r, i) = BytesOf(m, i)
    <3>1. PICK t : t = SlotOf(m, i) /\ t \in Slot /\ m.table[t].id = i
      BY FileAt
    <3>2. r.table[t] = m.table[t]
      BY <2>3, <2>4, <2>5, <2>7, <3>1
    <3> QED BY <1>1, <2>3, <2>7, <3>1, <3>2, SlotKept
  <2>8. Contents(r) = [i \in FileIds(m) \ {id} |-> Contents(m)[i]]
    BY <2>6, <2>7 DEF Contents
  <2> QED BY <1>4, <2>8
<1>5. \/ r = m
      \/ \E z \in Stop : r = [m EXCEPT !.stopped = z]
      \/ /\ id \in FileIds(m)
         /\ r = [m EXCEPT !.used = @ \ blocks, !.freeBlocks = @ + Cardinality(blocks),
                          !.index = IndexRemoveFile(@, id),
                          !.table[SlotOf(m, id)] = NoInode,
                          !.bits = @ \ {id}, !.freeInodes = @ + 1]
  BY DEF EraseFile, Stop
<1> QED BY <1>2, <1>3, <1>4, <1>5

\* The state that tagfs_write_file returns.
WriteDone(m, s, offset, data, w, r) ==
  /\ WrittenBytes(m, s, offset, data, Len(data), w) /\ r.done = w.done
  /\ r.m.storage = w.m.storage /\ r.m.index = m.index
  /\ \A t \in Slot :
       /\ r.m.table[t].id = m.table[t].id /\ r.m.table[t].tags = m.table[t].tags
       /\ r.m.table[t].direct = w.m.table[t].direct
       /\ r.m.table[t].size = IF t = s /\ m.table[t].size <= offset + w.done
                              THEN offset + w.done ELSE m.table[t].size

LEMMA WriteFields ==
  ASSUME NEW m, FsInv(m), NEW s \in UsedSlots(m), NEW id, s = SlotOf(m, id), NEW data \in Seq(Bytes),
         NEW offset \in 0 .. m.table[s].size, NEW r, r = WriteFile(m, id, offset, data)
  PROVE  \E w : WriteDone(m, s, offset, data, w, r)
<1>1. m.table \in [Slot -> Inode] /\ s \in Slot /\ m.table[s].size \in Nat /\ offset \in Nat
  BY DEF FsInv, FileSystem, UsedSlots, Inode
<1>2. PICK w : w = WriteBytes(m, s, offset, data)
  OBVIOUS
<1>3. WrittenBytes(m, s, offset, data, Len(data), w)
  <2>1. Written(m, s, offset, [m |-> m, done |-> 0, ok |-> TRUE])
    BY WriteBegins
  <2>2. WrittenBytes(m, s, offset, data, Len(data), WriteBytes(m, s, offset, data))
    BY <1>1, <2>1, WriteLoop
  <2> QED BY <1>2, <2>2
<1>4. PICK u, e : u = w.m /\ e = offset + w.done
  OBVIOUS
<1>5. /\ w \in [m : FileSystem, done : Nat, ok : BOOLEAN] /\ u \in FileSystem
      /\ u.table \in [Slot -> Inode] /\ SameFiles(m, u) /\ w.done \in Nat /\ e \in Nat
  BY <1>1, <1>3, <1>4 DEF WrittenBytes, Written, FileSystem
<1>6. /\ \A t \in Slot : u.table[t].id = m.table[t].id /\ u.table[t].size = m.table[t].size
                           /\ u.table[t].tags = m.table[t].tags
      /\ u.index = m.index
  BY <1>5 DEF SameFiles
<1>7. PICK z, f : z = Max({u.table[s].size, e}) /\ f = [u.table[s] EXCEPT !.size = z]
  OBVIOUS
<1>8. z = IF m.table[s].size <= e THEN e ELSE m.table[s].size
  BY <1>1, <1>5, <1>6, <1>7, MaxOfTwo
<1>9. f.id = u.table[s].id /\ f.direct = u.table[s].direct /\ f.size = z /\ f.tags = u.table[s].tags
  BY <1>1, <1>5, <1>7 DEF Inode
<1>10. PICK T, v : T = [u.table EXCEPT ![s] = f] /\ v = [u EXCEPT !.table = T]
  OBVIOUS
<1>11. v.table = T /\ v.storage = u.storage /\ v.index = u.index
  BY <1>5, <1>10 DEF FileSystem
<1>12. \A t \in Slot : T[t] = IF t = s THEN f ELSE u.table[t]
  BY <1>1, <1>5, <1>10
<1>13. r.m = v /\ r.done = w.done
  <2>1. r = Grown(w, s, offset, data)
    BY <1>2 DEF WriteFile
  <2>2. r = [w EXCEPT !.m = [u EXCEPT !.table = [u.table EXCEPT ![s] = [u.table[s] EXCEPT !.size = z]]]]
    BY <1>4, <1>7, <2>1 DEF Grown
  <2>3. r = [w EXCEPT !.m = v]
    BY <1>7, <1>10, <2>2
  <2> QED BY <1>5, <2>3
<1>14. \A t \in Slot :
         /\ r.m.table[t].id = m.table[t].id /\ r.m.table[t].tags = m.table[t].tags
         /\ r.m.table[t].direct = w.m.table[t].direct
         /\ r.m.table[t].size = IF t = s /\ m.table[t].size <= offset + w.done
                                THEN offset + w.done ELSE m.table[t].size
  BY <1>1, <1>4, <1>6, <1>8, <1>9, <1>11, <1>12, <1>13
<1>15. r.m.storage = w.m.storage /\ r.m.index = m.index
  BY <1>4, <1>6, <1>11, <1>13
<1> QED BY <1>3, <1>13, <1>14, <1>15 DEF WriteDone

\* tagfs_write_file replaces and appends as many bytes as it says, and leaves all
\* other bytes of all files.
LEMMA WrittenContents ==
  ASSUME NEW m, FsInv(m), NEW id \in FileIds(m), NEW data \in Seq(Bytes),
         NEW offset \in 0 .. File(m, id).size, NEW r, r = WriteFile(m, id, offset, data)
  PROVE  /\ FsInv(r.m) /\ r.done \in 0 .. Len(data)
         /\ Contents(r.m) =
              Put(Contents(m), id, Store!Overlay(BytesOf(m, id), offset, SubSeq(data, 1, r.done)))
<1>1. PICK s : s = SlotOf(m, id) /\ s \in Slot /\ s \in UsedSlots(m)
  BY FileAt
<1>2. /\ File(m, id) = m.table[s] /\ m.table[s].id = id /\ m.table[s].size \in Nat
      /\ offset \in 0 .. m.table[s].size /\ offset \in Nat /\ offset <= m.table[s].size
  BY <1>1, FileAt
<1>3. PICK w : WriteDone(m, s, offset, data, w, r)
  BY <1>1, <1>2, WriteFields
<1>4. PICK v, n : v = r.m /\ n = w.done
  OBVIOUS
<1>5. FsInv(v) /\ FileIds(v) = FileIds(m)
  BY <1>4, FileWritten
<1>6. /\ WrittenBytes(m, s, offset, data, Len(data), w) /\ r.done = n /\ v.storage = w.m.storage
      /\ \A t \in Slot :
           /\ v.table[t].id = m.table[t].id /\ v.table[t].direct = w.m.table[t].direct
           /\ v.table[t].size = IF t = s /\ m.table[t].size <= offset + n
                                THEN offset + n ELSE m.table[t].size
  BY <1>3, <1>4 DEF WriteDone
<1>7. n \in 0 .. Len(data) /\ n \in Nat
  BY <1>4, <1>6 DEF WrittenBytes, Written
<1>8. \A t \in Slot : \A a : StoredAt(v, t, a) = StoredAt(w.m, t, a)
  BY <1>6 DEF StoredAt, Pointer
<1>9. \A j \in 1 .. n : StoredAt(v, s, offset + j - 1) = data[j]
  BY <1>1, <1>4, <1>6, <1>8 DEF WrittenBytes
<1>10. ASSUME NEW t \in Slot, NEW a \in Nat, a < m.table[t].size, m.table[t].size \in Nat,
              t = s => a \notin offset .. offset + n - 1
       PROVE  StoredAt(v, t, a) = StoredAt(m, t, a)
  <2>1. Covered(m, t, m.table[t].size)
    BY DEF FsInv, SizeInv
  <2>2. PICK e : e = a + 1 /\ e \in Nat /\ \A at \in 0 .. e - 1 : at \in 0 .. m.table[t].size - 1
    BY <1>10
  <2>3. Covered(m, t, e)
    BY <2>1, <2>2 DEF Covered
  <2>4. StoredAt(w.m, t, a) = StoredAt(m, t, a)
    BY <1>4, <1>6, <1>10, <2>2, <2>3 DEF WrittenBytes
  <2> QED BY <1>8, <2>4
<1>11. ASSUME NEW i \in FileIds(m), i # id PROVE BytesOf(v, i) = BytesOf(m, i)
  <2>1. PICK t : t = SlotOf(m, i) /\ t \in Slot /\ m.table[t].id = i /\ m.table[t].size \in Nat
    BY FileAt
  <2>2. t # s
    BY <1>2, <1>11, <2>1
  <2>3. v.table[t].id = m.table[t].id /\ v.table[t].size = m.table[t].size
    BY <1>6, <2>1, <2>2
  <2>4. \A a \in 0 .. m.table[t].size - 1 : StoredAt(v, t, a) = StoredAt(m, t, a)
    BY <1>10, <2>1, <2>2
  <2> QED BY <1>5, <2>1, <2>3, <2>4, FileKept
<1>12. PICK q, d, o : q = BytesOf(m, id) /\ d = SubSeq(data, 1, n) /\ o = Store!Overlay(q, offset, d)
  OBVIOUS
<1>13. q \in Seq(Bytes \cup {ZERO}) /\ Len(q) = m.table[s].size
       /\ \A k \in 1 .. Len(q) : q[k] = StoredAt(m, s, k - 1)
  <2>1. q \in Seq(Bytes \cup {ZERO}) /\ Len(q) = m.table[s].size
    BY <1>2, <1>12, WholeRead
  <2>2. q = [k \in 1 .. m.table[s].size |-> StoredAt(m, s, k - 1)]
    BY <1>1, <1>2, <1>12 DEF BytesOf
  <2> QED BY <2>1, <2>2
<1>14. d \in Seq(Bytes \cup {ZERO}) /\ Len(d) = n /\ \A k \in 1 .. n : d[k] = data[k]
  BY <1>7, <1>12
<1>15. /\ o \in Seq(Bytes \cup {ZERO}) /\ Len(o) = IF Len(q) <= offset + n THEN offset + n ELSE Len(q)
       /\ \A k \in 1 .. Len(o) :
            o[k] = IF k <= offset \/ offset + n < k THEN q[k] ELSE d[k - offset]
  <2>1. offset \in 0 .. Len(q) /\ o = Store!Overlay(q, offset, d)
    BY <1>2, <1>12, <1>13
  <2>2. /\ o \in Seq(Bytes \cup {ZERO})
        /\ Len(o) = IF Len(q) <= offset + Len(d) THEN offset + Len(d) ELSE Len(q)
        /\ \A k \in 1 .. Len(o) :
             o[k] = IF k <= offset \/ offset + Len(d) < k THEN q[k] ELSE d[k - offset]
    <3>1. PICK V : V = Bytes \cup {ZERO}
      OBVIOUS
    <3>2. q \in Seq(V) /\ d \in Seq(V) /\ offset \in 0 .. Len(q)
      BY <1>13, <1>14, <2>1, <3>1
    <3>3. \A x : x = Store!Overlay(q, offset, d) =>
            /\ x \in Seq(V)
            /\ Len(x) = IF Len(q) <= offset + Len(d) THEN offset + Len(d) ELSE Len(q)
            /\ \A k \in 1 .. Len(x) :
                 x[k] = IF k <= offset \/ offset + Len(d) < k THEN q[k] ELSE d[k - offset]
      BY <3>2, OverlayIs
    <3> QED BY <2>1, <3>1, <3>3
  <2> QED BY <1>14, <2>2
<1>16. BytesOf(v, id) = o
  <2>1. SlotOf(v, id) = s /\ File(v, id) = v.table[s]
    <3>1. \A t \in Slot : v.table[t].id = id => t = SlotOf(v, id)
      BY <1>5, FileAt
    <3>2. SlotOf(v, id) = s
      BY <1>1, <1>2, <1>6, <3>1
    <3> QED BY <3>2 DEF File
  <2>2. v.table[s].size = Len(o) /\ Len(o) \in Nat
    BY <1>1, <1>2, <1>6, <1>7, <1>13, <1>15
  <2>3. ASSUME NEW k \in 1 .. Len(o) PROVE StoredAt(v, s, k - 1) = o[k]
    <3>1. PICK a : a = k - 1 /\ a \in Nat
      BY <2>2
    <3>2. CASE k <= offset \/ offset + n < k
      <4>1. k \in 1 .. Len(q) /\ a < m.table[s].size /\ a \notin offset .. offset + n - 1
        BY <1>2, <1>7, <1>13, <1>15, <2>2, <3>1, <3>2
      <4>2. StoredAt(v, s, a) = StoredAt(m, s, a)
        BY <1>1, <1>2, <1>10, <3>1, <4>1
      <4> QED BY <1>13, <1>15, <3>1, <3>2, <4>1, <4>2
    <3>3. CASE ~(k <= offset \/ offset + n < k)
      <4>1. PICK j : j = k - offset /\ j \in 1 .. n /\ offset + j - 1 = k - 1
        BY <1>2, <1>7, <2>2, <3>3
      <4>2. StoredAt(v, s, offset + j - 1) = data[j]
        BY <1>9, <4>1
      <4>3. o[k] = d[j] /\ d[j] = data[j]
        BY <1>14, <1>15, <3>3, <4>1
      <4> QED BY <4>1, <4>2, <4>3
    <3> QED BY <3>2, <3>3
  <2>4. BytesOf(v, id) = [k \in 1 .. Len(o) |-> StoredAt(v, s, k - 1)]
    BY <2>1, <2>2 DEF BytesOf
  <2>5. o = [k \in 1 .. Len(o) |-> o[k]]
    BY <1>15
  <2> QED BY <2>3, <2>4, <2>5
<1>17. Contents(v) = Put(Contents(m), id, o)
  BY <1>5, <1>11, <1>16 DEF Contents, Put
<1>18. r.done = n
  BY <1>6
<1> QED BY <1>4, <1>5, <1>7, <1>12, <1>17, <1>18

LEMMA OverlayOf ==
  ASSUME NEW q \in Seq(Bytes \cup {ZERO}), NEW d \in Seq(Bytes \cup {ZERO}), NEW at \in 0 .. Len(q),
         NEW o, o = Store!Overlay(q, at, d)
  PROVE  /\ o \in Seq(Bytes \cup {ZERO})
         /\ Len(o) = IF Len(q) <= at + Len(d) THEN at + Len(d) ELSE Len(q)
         /\ \A k \in 1 .. Len(o) :
              o[k] = IF k <= at \/ at + Len(d) < k THEN q[k] ELSE d[k - at]
<1>1. PICK V : V = Bytes \cup {ZERO}
  OBVIOUS
<1>2. q \in Seq(V) /\ d \in Seq(V)
  BY <1>1
<1>3. \A x : x = Store!Overlay(q, at, d) =>
        /\ x \in Seq(V)
        /\ Len(x) = IF Len(q) <= at + Len(d) THEN at + Len(d) ELSE Len(q)
        /\ \A k \in 1 .. Len(x) :
             x[k] = IF k <= at \/ at + Len(d) < k THEN q[k] ELSE d[k - at]
  BY <1>2, OverlayIs
<1> QED BY <1>1, <1>3

\* Sequences of the same length with the same elements are the same.
LEMMA SeqsEqual ==
  ASSUME NEW V, NEW W, NEW p \in Seq(V), NEW q \in Seq(W), Len(p) = Len(q),
         \A k \in 1 .. Len(q) : p[k] = q[k]
  PROVE  p = q
OBVIOUS

LEMMA NothingOver ==
  ASSUME NEW q \in Seq(Bytes \cup {ZERO}), NEW at \in 0 .. Len(q), NEW data \in Seq(Bytes)
  PROVE  Store!Overlay(q, at, SubSeq(data, 1, 0)) = q
<1>1. PICK d, o : d = SubSeq(data, 1, 0) /\ o = Store!Overlay(q, at, d)
  OBVIOUS
<1>2. d \in Seq(Bytes \cup {ZERO}) /\ Len(d) = 0
  BY <1>1
<1>3. /\ o \in Seq(Bytes \cup {ZERO}) /\ Len(o) = IF Len(q) <= at + Len(d) THEN at + Len(d) ELSE Len(q)
      /\ \A k \in 1 .. Len(o) :
           o[k] = IF k <= at \/ at + Len(d) < k THEN q[k] ELSE d[k - at]
  <2>1. d \in Seq(Bytes \cup {ZERO})
    BY <1>2
  <2>2. \A x : x = Store!Overlay(q, at, d) =>
          /\ x \in Seq(Bytes \cup {ZERO}) /\ Len(x) = IF Len(q) <= at + Len(d) THEN at + Len(d) ELSE Len(q)
          /\ \A k \in 1 .. Len(x) :
               x[k] = IF k <= at \/ at + Len(d) < k THEN q[k] ELSE d[k - at]
    BY <2>1, OverlayOf
  <2> QED BY <1>1, <2>2
<1>4. Len(o) = Len(q) /\ \A k \in 1 .. Len(q) : o[k] = q[k]
  BY <1>2, <1>3
<1>5. o = q
  BY <1>3, <1>4, SeqsEqual
<1> QED BY <1>1, <1>5

LEMMA OverNothing ==
  ASSUME NEW d \in Seq(Bytes)
  PROVE  Store!Overlay(<< >>, 0, d) = d
<1>1. PICK q, o : q = << >> /\ o = Store!Overlay(q, 0, d)
  OBVIOUS
<1>2. q \in Seq(Bytes \cup {ZERO}) /\ d \in Seq(Bytes \cup {ZERO}) /\ Len(q) = 0 /\ 0 \in 0 .. Len(q)
      /\ Len(d) \in Nat
  BY <1>1
<1>3. /\ o \in Seq(Bytes \cup {ZERO}) /\ Len(o) = IF Len(q) <= 0 + Len(d) THEN 0 + Len(d) ELSE Len(q)
      /\ \A k \in 1 .. Len(o) :
           o[k] = IF k <= 0 \/ 0 + Len(d) < k THEN q[k] ELSE d[k - 0]
  <2>1. q \in Seq(Bytes \cup {ZERO}) /\ d \in Seq(Bytes \cup {ZERO}) /\ 0 \in 0 .. Len(q)
    BY <1>2
  <2>2. \A x : x = Store!Overlay(q, 0, d) =>
          /\ x \in Seq(Bytes \cup {ZERO}) /\ Len(x) = IF Len(q) <= 0 + Len(d) THEN 0 + Len(d) ELSE Len(q)
          /\ \A k \in 1 .. Len(x) :
               x[k] = IF k <= 0 \/ 0 + Len(d) < k THEN q[k] ELSE d[k - 0]
    BY <2>1, OverlayOf
  <2> QED BY <1>1, <2>2
<1>4. Len(o) = Len(d)
  BY <1>2, <1>3
<1>5. \A k \in 1 .. Len(d) : o[k] = d[k]
  <2>1. ASSUME NEW k \in 1 .. Len(d) PROVE o[k] = d[k]
    <3>1. ~(k <= 0 \/ 0 + Len(d) < k) /\ k - 0 = k /\ k \in 1 .. Len(o)
      BY <1>2, <1>4
    <3> QED BY <1>3, <3>1
  <2> QED BY <2>1
<1>6. o = d
  BY <1>2, <1>3, <1>4, <1>5, SeqsEqual
<1> QED BY <1>1, <1>6

\* No file is there after a boot.
LEMMA BootedHasNoFile == FileIds(Boot(Formatted)) = {} /\ Contents(Boot(Formatted)) = << >>
<1>1. Boot(Formatted).table = [i \in Slot |-> NoInode]
  BY DEF Boot, Booted, Formatted
<1>2. FileIds(Boot(Formatted)) = {}
  BY <1>1 DEF FileIds, NoInode
<1> QED BY <1>2 DEF Contents

LEMMA FileNotCreated ==
  ASSUME NEW m, FsInv(m), NEW tags \in Seq(TagSet), NEW r, r = CreateFile(m, tags), r.id = 0
  PROVE  r.m = m
<1>1. (r.m = m /\ r.id = 0) \/ Created(m, r)
  BY FileCreated
<1>2. m.nextId \in Nat
  BY DEF FsInv, FileSystem
<1> QED BY <1>1, <1>2 DEF Created

\* Between calls the contents are what the descriptors' reads give.
LEMMA ContentIs ==
  ASSUME StorageInv
  PROVE  Content = Contents(fs)
<1>1. \A id \in FileIds(fs) : ReadFile(fs, id, 0, File(fs, id).size) = BytesOf(fs, id)
  BY WholeRead DEF StorageInv
<1> QED BY <1>1 DEF Content, Contents

\* The steps of the file store, from contents c to contents d.
LEMMA StoreSteps ==
  ASSUME NEW c, NEW d, Content = c, Content' = d, c = [i \in DOMAIN c |-> c[i]]
  PROVE  /\ (\E id \in Ids \ DOMAIN c : d = Put(c, id, << >>)) => Store!Next
         /\ \A id \in Ids \ DOMAIN c, data \in Chunks : \A n \in 1 .. Len(data) :
              d = Put(c, id, SubSeq(data, 1, n)) => Store!Next
         /\ \A id \in DOMAIN c, data \in Chunks : \A at \in 0 .. Len(c[id]), n \in 1 .. Len(data) :
              d = Put(c, id, Store!Overlay(c[id], at, SubSeq(data, 1, n))) => Store!Next
         /\ \A id \in DOMAIN c : d = [i \in DOMAIN c \ {id} |-> c[i]] => Store!Next
         /\ d = << >> => Store!Next
<1>0. Store!Create(c, d) \/ Store!Write(c, d) \/ Store!CreateWithData(c, d)
        \/ Store!Erase(c, d) \/ Store!Restart(c, d) => Store!Next
  BY DEF Store!Next
<1>1. (\E id \in Ids \ DOMAIN c : d = Put(c, id, << >>)) => Store!Next
  BY <1>0 DEF Put, Store!Create, Store!With
<1>2. ASSUME NEW id \in Ids \ DOMAIN c, NEW data \in Chunks, NEW n \in 1 .. Len(data),
             d = Put(c, id, SubSeq(data, 1, n))
      PROVE  Store!Next
  BY <1>0, <1>2 DEF Put, Store!CreateWithData, Store!With
<1>3. ASSUME NEW id \in DOMAIN c, NEW data \in Chunks, NEW at \in 0 .. Len(c[id]),
             NEW n \in 1 .. Len(data),
             d = Put(c, id, Store!Overlay(c[id], at, SubSeq(data, 1, n)))
      PROVE  Store!Next
  <2>1. PICK bytes : bytes = Store!Overlay(c[id], at, SubSeq(data, 1, n))
    OBVIOUS
  <2>2. d = Store!With(c, id, bytes)
    BY <1>3, <2>1 DEF Put, Store!With
  <2>3. \E a \in 0 .. Len(c[id]), k \in 1 .. Len(data) :
          d = Store!With(c, id, Store!Overlay(c[id], a, SubSeq(data, 1, k)))
    BY <2>1, <2>2, Zenon
  <2>4. Store!Write(c, d)
    BY <2>3, Zenon DEF Store!Write
  <2> QED BY <1>0, <2>4
<1>4. ASSUME NEW id \in DOMAIN c, d = [i \in DOMAIN c \ {id} |-> c[i]]
      PROVE  Store!Next
  BY <1>0, <1>4 DEF Store!Erase
<1>5. d = << >> => Store!Next
  BY <1>0 DEF Store!Restart
<1> QED BY <1>1, <1>2, <1>3, <1>4, <1>5

\* A new file has an id that the callers may be given, and that no file has.
LEMMA CreatedId ==
  ASSUME StorageInv, MayCreate, NEW tags \in Seq(TagSet), NEW r, r = CreateFile(fs, tags), r.id # 0
  PROVE  r.id \in Ids \ DOMAIN Contents(fs)
<1>1. FsInv(fs) /\ fs.nextId \in Nat \ {0}
  BY DEF StorageInv, FsInv, FileSystem
<1>2. Created(fs, r) /\ Slot \ fs.bits # {} /\ r.id \notin FileIds(fs)
  BY <1>1, CreatedContents
<1>3. fs.nextId < MaxId
  BY <1>2 DEF MayCreate
<1>4. r.id \in Ids
  BY <1>1, <1>2, <1>3, StorageAssumption DEF Created, Ids
<1> QED BY <1>2, <1>4 DEF Contents

\* Every call is a step of the file store, or leaves the contents alone.
LEMMA StoreStep ==
  ASSUME StorageInv, StorageInv', [Next]_vars
  PROVE  Store!Next \/ UNCHANGED Content
<1>1. Content = Contents(fs) /\ FsInv(fs) /\ disk = Formatted /\ FdOk(fs, fdTable)
  BY ContentIs DEF StorageInv
<1>2. Content' = Contents(fs')
  <2>1. PICK m : m = fs' /\ FsInv(m)
    BY DEF StorageInv
  <2>2. \A id \in FileIds(m) : ReadFile(m, id, 0, File(m, id).size) = BytesOf(m, id)
    BY <2>1, WholeRead
  <2>3. Content' = [id \in FileIds(m) |-> ReadFile(m, id, 0, File(m, id).size)]
    BY <2>1 DEF Content
  <2> QED BY <2>1, <2>2, <2>3 DEF Contents
<1>3. PICK c, d : c = Contents(fs) /\ d = Contents(fs')
  OBVIOUS
<1>4. Content = c /\ Content' = d /\ DOMAIN c = FileIds(fs) /\ c = [i \in DOMAIN c |-> c[i]]
  BY <1>1, <1>2, <1>3 DEF Contents
<1>5. /\ (\E id \in Ids \ DOMAIN c : d = Put(c, id, << >>)) => Store!Next
      /\ \A id \in Ids \ DOMAIN c, data \in Chunks : \A n \in 1 .. Len(data) :
           d = Put(c, id, SubSeq(data, 1, n)) => Store!Next
      /\ \A id \in DOMAIN c, data \in Chunks : \A at \in 0 .. Len(c[id]), n \in 1 .. Len(data) :
           d = Put(c, id, Store!Overlay(c[id], at, SubSeq(data, 1, n))) => Store!Next
      /\ \A id \in DOMAIN c : d = [i \in DOMAIN c \ {id} |-> c[i]] => Store!Next
      /\ d = << >> => Store!Next
  BY <1>4, StoreSteps
<1>6. d = c => UNCHANGED Content
  BY <1>4
<1>7. CASE fs' = fs
  BY <1>3, <1>6, <1>7
<1>8. CASE Restart
  <2>1. fs' = Boot(Formatted)
    BY <1>1, <1>8 DEF Restart
  <2>2. d = << >>
    BY <1>3, <2>1, BootedHasNoFile
  <2> QED BY <1>5, <2>2
<1>9. ASSUME NEW tags \in Seq(TagSet), MayCreate, fs' = CreateFile(fs, tags).m
      PROVE  Store!Next \/ UNCHANGED Content
  <2>1. PICK r : r = CreateFile(fs, tags)
    OBVIOUS
  <2>2. CASE r.id = 0
    <3>1. r.m = fs
      BY <1>1, <2>1, <2>2, FileNotCreated
    <3> QED BY <1>7, <1>9, <2>1, <3>1
  <2>3. CASE r.id # 0
    <3>1. Contents(r.m) = Put(Contents(fs), r.id, << >>)
      BY <1>1, <2>1, <2>3, CreatedContents
    <3>2. r.id \in Ids \ DOMAIN Contents(fs)
      BY <1>9, <2>1, <2>3, CreatedId
    <3> QED BY <1>3, <1>5, <1>9, <2>1, <3>1, <3>2
  <2> QED BY <2>2, <2>3
<1>10. ASSUME NEW path \in Names, fs_open(path)
       PROVE  Store!Next \/ UNCHANGED Content
  <2>1. PICK tags : tags = << <<"name", path>>, <<"type", "file">> >> /\ tags \in Seq(TagSet)
    BY TagsOfCallers
  <2>2. QuerySingle(fs, <<"name", path>>).ret = 0 => QuerySingle(fs, <<"name", path>>).ids = << >>
    BY DEF QuerySingle
  <2>3. MayCreate /\ fs' = CreateFile(fs, tags).m
    BY <1>10, <2>1, <2>2 DEF fs_open
  <2> QED BY <1>9, <2>1, <2>3
<1>11. ASSUME NEW s \in FdSlot, NEW data \in Chunks, fs_write(s, data)
       PROVE  Store!Next \/ UNCHANGED Content
  <2>1. PICK id, p : id = fdTable[s].id /\ p = fdTable[s].position
    OBVIOUS
  <2>2. PICK w : w = WriteFile(fs, id, p, data) /\ fs' = w.m /\ s \in DOMAIN fdTable /\ id \in FileIds(fs)
    BY <1>11, <2>1 DEF fs_write
  <2>3. p \in 0 .. File(fs, id).size /\ data \in Seq(Bytes)
    <3>1. p \in Nat /\ p <= File(fs, id).size
      BY <1>1, <2>1, <2>2 DEF FdOk
    <3>2. File(fs, id).size \in Nat
      BY <1>1, <2>2, FileAt
    <3> QED BY <3>1, <3>2, StorageAssumption
  <2>4. w.done \in 0 .. Len(data)
        /\ Contents(w.m) = Put(Contents(fs), id, Store!Overlay(BytesOf(fs, id), p, SubSeq(data, 1, w.done)))
    BY <1>1, <2>2, <2>3, WrittenContents
  <2>5. BytesOf(fs, id) = c[id] /\ id \in DOMAIN c /\ Len(c[id]) = File(fs, id).size
        /\ c[id] \in Seq(Bytes \cup {ZERO})
    <3>1. BytesOf(fs, id) = c[id] /\ id \in DOMAIN c
      BY <1>3, <2>2 DEF Contents
    <3> QED BY <1>1, <2>2, <3>1, WholeRead
  <2>6. PICK n : n = w.done
    OBVIOUS
  <2>7. d = Put(c, id, Store!Overlay(c[id], p, SubSeq(data, 1, n)))
    BY <1>3, <2>2, <2>4, <2>5, <2>6
  <2>8. CASE n = 0
    <3>1. Store!Overlay(c[id], p, SubSeq(data, 1, n)) = c[id]
      BY <2>3, <2>5, <2>8, NothingOver
    <3>2. d = c
      BY <1>4, <2>5, <2>7, <3>1 DEF Put
    <3> QED BY <1>6, <3>2
  <2>9. CASE n # 0
    <3>1. n \in 1 .. Len(data) /\ p \in 0 .. Len(c[id])
      BY <2>3, <2>4, <2>5, <2>6, <2>9
    <3> QED BY <1>5, <2>5, <2>7, <3>1
  <2> QED BY <2>8, <2>9
<1>12. ASSUME NEW tags \in TagLists, NEW data \in Chunks, tagfs_create_file_with_data(tags, data)
       PROVE  Store!Next \/ UNCHANGED Content
  <2>1. PICK r : r = CreateFile(fs, tags) /\ MayCreate
                 /\ fs' = IF r.id = 0 THEN r.m ELSE WriteFile(r.m, r.id, 0, data).m
    BY <1>12 DEF tagfs_create_file_with_data
  <2>2. tags \in Seq(TagSet) /\ data \in Seq(Bytes)
    BY TagsOfCallers, StorageAssumption
  <2>3. CASE r.id = 0
    <3>1. r.m = fs
      BY <1>1, <2>1, <2>2, <2>3, FileNotCreated
    <3> QED BY <1>7, <2>1, <2>3, <3>1
  <2>4. CASE r.id # 0
    <3>1. PICK m, id, w : m = r.m /\ id = r.id /\ w = WriteFile(m, id, 0, data)
      OBVIOUS
    <3>2. /\ FsInv(m) /\ id \notin FileIds(fs) /\ id \in FileIds(m) /\ File(m, id).size = 0
          /\ Contents(m) = Put(c, id, << >>)
      BY <1>1, <1>3, <2>1, <2>2, <2>4, <3>1, CreatedContents
    <3>3. id \in Ids \ DOMAIN c
      BY <1>3, <2>1, <2>2, <2>4, <3>1, CreatedId
    <3>4. 0 \in 0 .. File(m, id).size
      BY <3>2
    <3>5. w.done \in 0 .. Len(data)
          /\ Contents(w.m) = Put(Contents(m), id, Store!Overlay(BytesOf(m, id), 0, SubSeq(data, 1, w.done)))
      BY <2>2, <3>1, <3>2, <3>4, WrittenContents
    <3>6. BytesOf(m, id) = << >>
      <4>1. Len(BytesOf(m, id)) = 0 /\ BytesOf(m, id) \in Seq(Bytes \cup {ZERO})
        BY <3>2, WholeRead
      <4> QED BY <4>1
    <3>7. PICK n, bytes : n = w.done /\ bytes = SubSeq(data, 1, n)
      OBVIOUS
    <3>8. bytes \in Seq(Bytes) /\ (n = 0 => bytes = << >>) /\ n \in 0 .. Len(data)
      BY <2>2, <3>5, <3>7
    <3>9. Store!Overlay(<< >>, 0, bytes) = bytes
      BY <3>8, OverNothing
    <3>10. d = Put(c, id, bytes)
      <4>1. d = Put(Contents(m), id, bytes)
        BY <1>3, <2>1, <2>4, <3>1, <3>5, <3>6, <3>7, <3>9
      <4>2. Put(Put(c, id, << >>), id, bytes) = Put(c, id, bytes)
        BY DEF Put
      <4> QED BY <3>2, <4>1, <4>2
    <3>11. CASE n = 0
      BY <1>5, <3>3, <3>8, <3>10, <3>11
    <3>12. CASE n # 0
      <4>1. n \in 1 .. Len(data)
        BY <3>8, <3>12
      <4> QED BY <1>5, <3>3, <3>7, <3>10, <4>1
    <3> QED BY <3>11, <3>12
  <2> QED BY <2>3, <2>4
<1>13. ASSUME NEW id, NEW t \in TagSet, tagfs_add_tag(id, t)
       PROVE  UNCHANGED Content
  BY <1>1, <1>3, <1>6, <1>13, TagAddedContents DEF tagfs_add_tag
<1>14. ASSUME NEW id, NEW key, tagfs_remove_tag(id, key)
       PROVE  UNCHANGED Content
  BY <1>1, <1>3, <1>6, <1>14, TagRemovedContents DEF tagfs_remove_tag
<1>15. ASSUME NEW id, tagfs_erase_file(id)
       PROVE  Store!Next \/ UNCHANGED Content
  <2>1. fs' = EraseFile(fs, id)
    BY <1>15 DEF tagfs_erase_file
  <2>2. \/ d = c
        \/ id \in DOMAIN c /\ d = [i \in DOMAIN c \ {id} |-> c[i]]
    <3>1. PICK r : r = EraseFile(fs, id)
      OBVIOUS
    <3>2. \/ Contents(r) = Contents(fs)
          \/ id \in FileIds(fs) /\ Contents(r) = [i \in FileIds(fs) \ {id} |-> Contents(fs)[i]]
      BY <1>1, <3>1, ErasedContents
    <3> QED BY <1>3, <1>4, <2>1, <3>1, <3>2
  <2> QED BY <1>5, <1>6, <2>2
<1>16. ASSUME NEW tags \in TagLists, tagfs_create_file(tags)
       PROVE  Store!Next \/ UNCHANGED Content
  BY <1>9, <1>16, TagsOfCallers DEF tagfs_create_file
<1>17. ASSUME NEW id, tagfs_trash_file(id) \/ tagfs_restore_file(id)
       PROVE  UNCHANGED Content
  BY <1>13, <1>14, <1>17, TagsOfCallers DEF tagfs_trash_file, tagfs_restore_file
<1>18. ASSUME NEW id, NEW t \in Tags, tagfs_add_tag(id, t) \/ tagfs_remove_tag(id, t[1])
       PROVE  UNCHANGED Content
  BY <1>13, <1>14, <1>18, TagsOfCallers
<1>19. CASE UNCHANGED vars
  BY <1>7, <1>19 DEF vars
<1>20. \A s \in FdSlot : fs_close(s) \/ fs_read(s, UNITS) => fs' = fs
  BY DEF fs_close, fs_read
<1> QED BY <1>7, <1>8, <1>10, <1>11, <1>12, <1>15, <1>16, <1>17, <1>18, <1>19, <1>20 DEF Next

\* The contents of the files are those of the abstract file store, whatever
\* blocks they lie in: no write, no erasure and no shortage of blocks touches
\* the bytes of another file.
THEOREM DeckImplementsFileStore == Spec => ImplementsFileStore
<1>1. Init => Store!Init
  <2> SUFFICES ASSUME Init PROVE Store!Init
    OBVIOUS
  <2>1. fs = Boot(Formatted)
    BY DEF Init
  <2>2. FileIds(fs) = {}
    BY <2>1, BootedHasNoFile
  <2>3. Content = << >>
    BY <2>2 DEF Content
  <2> QED BY <2>3 DEF Store!Init
<1>2. StorageInv /\ StorageInv' /\ [Next]_vars => [Store!Next]_Content
  BY StoreStep
<1> QED BY <1>1, <1>2, StorageAlways, PTL DEF Spec, ImplementsFileStore, Store!Spec

-------------------------------------------------------------------------------
(***************************************************************************)
(* Queries: while the index has room for one more tag, it has an entry for *)
(* every tag of every file.                                                *)
(***************************************************************************)
Indexed(index, id, t) == t \in DOMAIN index /\ \E k \in DOMAIN index[t] : index[t][k] = id
HasRoom(index) == Cardinality(DOMAIN index) < MAX_TAG_INDEX
TagsIndexed(table, index) ==
  \A s \in Slot : table[s].id # 0 =>
    \A k \in DOMAIN table[s].tags : Indexed(index, table[s].id, table[s].tags[k])
QueryInv(m) == IsFiniteSet(DOMAIN m.index) /\ (HasRoom(m.index) => TagsIndexed(m.table, m.index))

\* From index a to index b nothing is lost.
IndexGrows(a, b) ==
  /\ IsFiniteSet(DOMAIN b) /\ DOMAIN a \subseteq DOMAIN b
  /\ \A i, t : Indexed(a, i, t) => Indexed(b, i, t)

LEMMA Climb ==
  ASSUME NEW n \in Nat, NEW G, 0 \in G, \A k \in 1 .. n : k - 1 \in G => k \in G
  PROVE  \A k \in 0 .. n : k \in G
<1>1. PICK w : w = [k \in 0 .. n |-> k]
  OBVIOUS
<1>2. \A k \in 0 .. n : w[k] = k
  BY <1>1
<1>3. w[0] \in G /\ \A k \in 1 .. n : w[k - 1] \in G => w[k] \in G
  BY <1>2
<1>4. \A k \in 0 .. n : w[k] \in G
  BY <1>3, LoopKeeps
<1> QED BY <1>2, <1>4

LEMMA RoomBefore ==
  ASSUME NEW a, NEW b, IndexGrows(a, b), HasRoom(b)
  PROVE  HasRoom(a) /\ IsFiniteSet(DOMAIN a)
<1>1. PICK A, B : A = DOMAIN a /\ B = DOMAIN b
  OBVIOUS
<1>2. A \in SUBSET B /\ IsFiniteSet(B)
  BY <1>1 DEF IndexGrows
<1>3. IsFiniteSet(A) /\ Cardinality(A) <= Cardinality(B)
  BY <1>2, FS_Subset
<1>4. Cardinality(A) \in Nat /\ Cardinality(B) \in Nat
  BY <1>2, <1>3, FS_CardinalityType
<1> QED BY <1>1, <1>3, <1>4, StorageConstants DEF HasRoom

\* A tag gets an entry, or the index has no room.
LEMMA EntryAdded ==
  ASSUME NEW index \in Index, IsFiniteSet(DOMAIN index), NEW id \in Nat, NEW t \in TagSet,
         NEW r, r = AddToEntry(index, id, t)
  PROVE  IndexGrows(index, r) /\ (HasRoom(r) => Indexed(r, id, t))
<1>1. index \in [DOMAIN index -> Seq(Nat)]
  BY IndexType
<1>2. CASE t \in DOMAIN index /\ ~ \E k \in DOMAIN index[t] : index[t][k] = id
  <2>1. PICK q, e : q = index[t] /\ e = Append(q, id) /\ q \in Seq(Nat)
    BY <1>1, <1>2
  <2>2. r = [index EXCEPT ![t] = e]
    BY <1>2, <2>1 DEF AddToEntry
  <2>3. DOMAIN r = DOMAIN index /\ r[t] = e /\ \A u \in DOMAIN index : u # t => r[u] = index[u]
    BY <1>1, <1>2, <2>2
  <2>4. /\ DOMAIN q = 1 .. Len(q) /\ DOMAIN e = 1 .. Len(q) + 1 /\ Len(q) \in Nat
        /\ e[Len(q) + 1] = id /\ \A k \in 1 .. Len(q) : e[k] = q[k]
    BY <2>1
  <2>5. \E k \in DOMAIN e : e[k] = id
    BY <2>4
  <2>6. \A i : (\E k \in DOMAIN q : q[k] = i) => \E k \in DOMAIN e : e[k] = i
    BY <2>4
  <2>7. \A i, u : Indexed(index, i, u) => Indexed(r, i, u)
    <3>1. ASSUME NEW i, NEW u, Indexed(index, i, u) PROVE Indexed(r, i, u)
      <4>1. CASE u = t
        <5>1. \E k \in DOMAIN q : q[k] = i
          BY <2>1, <3>1, <4>1 DEF Indexed
        <5>2. \E k \in DOMAIN r[t] : r[t][k] = i
          BY <2>3, <2>6, <5>1
        <5>3. t \in DOMAIN r
          BY <1>2, <2>3
        <5> QED BY <4>1, <5>2, <5>3 DEF Indexed
      <4>2. CASE u # t
        BY <2>3, <3>1, <4>2 DEF Indexed
      <4> QED BY <4>1, <4>2
    <3> QED BY <3>1
  <2> QED BY <1>2, <2>3, <2>5, <2>7 DEF IndexGrows, Indexed
<1>3. CASE t \notin DOMAIN index /\ ~(Cardinality(DOMAIN index) >= MAX_TAG_INDEX)
  <2>1. r = [u \in DOMAIN index \cup {t} |-> IF u = t THEN <<id>> ELSE index[u]]
    BY <1>3 DEF AddToEntry
  <2>2. /\ DOMAIN r = DOMAIN index \cup {t} /\ r[t] = <<id>>
        /\ \A u \in DOMAIN index : r[u] = index[u]
    BY <1>3, <2>1
  <2>3. \A i, u : Indexed(index, i, u) => Indexed(r, i, u)
    BY <2>2 DEF Indexed
  <2>4. IsFiniteSet(DOMAIN r)
    <3>1. IsFiniteSet(DOMAIN index \cup {t})
      BY FS_AddElement
    <3> QED BY <2>2, <3>1
  <2>5. DOMAIN <<id>> = {1} /\ <<id>>[1] = id
    OBVIOUS
  <2>6. Indexed(r, id, t)
    BY <2>2, <2>5 DEF Indexed
  <2> QED BY <2>2, <2>3, <2>4, <2>6 DEF IndexGrows
<1>4. CASE t \in DOMAIN index /\ \E k \in DOMAIN index[t] : index[t][k] = id
  <2>1. r = index
    BY <1>4 DEF AddToEntry
  <2> QED BY <1>4, <2>1 DEF IndexGrows, Indexed
<1>5. CASE t \notin DOMAIN index /\ Cardinality(DOMAIN index) >= MAX_TAG_INDEX
  <2>1. r = index
    BY <1>5 DEF AddToEntry
  <2>2. ~ HasRoom(r)
    <3>1. Cardinality(DOMAIN index) \in Nat
      BY FS_CardinalityType
    <3> QED BY <1>5, <2>1, <3>1, StorageConstants DEF HasRoom
  <2> QED BY <2>1, <2>2 DEF IndexGrows
<1> QED BY <1>2, <1>3, <1>4, <1>5

\* tagfs_index_add_file: all the tags of a file get an entry, or the index is full.
LEMMA FileIndexed ==
  ASSUME NEW index \in Index, IsFiniteSet(DOMAIN index), NEW ids, ids \subseteq Nat,
         Naming(index, ids), NEW id \in ids, NEW tags \in Seq(TagSet),
         NEW r, r = IndexAddFile(index, id, tags)
  PROVE  /\ IndexGrows(index, r)
         /\ HasRoom(r) => \A k \in 1 .. Len(tags) : Indexed(r, id, tags[k])
<1>1. PICK g : IsIndexing(g, index, id, tags, ids)
  BY IndexRun
<1>2. PICK n : n = Len(tags) /\ n \in Nat
  OBVIOUS
<1>3. /\ g[0] = index /\ r = g[n]
      /\ \A k \in 1 .. n : g[k] = AddToEntry(g[k - 1], id, tags[k])
      /\ \A k \in 0 .. n : g[k] \in Index
  BY <1>1, <1>2 DEF IsIndexing
<1> DEFINE Done(k) == /\ IndexGrows(index, g[k])
                      /\ HasRoom(g[k]) => \A j \in 1 .. k : Indexed(g[k], id, tags[j])
           G == {k \in 0 .. n : Done(k)}
<1>4. 0 \in G
  <2>1. IndexGrows(index, index)
    BY DEF IndexGrows
  <2> QED BY <1>2, <1>3, <2>1
<1>5. ASSUME NEW k \in 1 .. n, k - 1 \in G PROVE k \in G
  <2>1. PICK a, b, t : a = g[k - 1] /\ b = g[k] /\ t = tags[k]
    OBVIOUS
  <2>2. a \in Index /\ b = AddToEntry(a, id, t) /\ t \in TagSet /\ id \in Nat
    <3>1. k - 1 \in 0 .. n /\ k \in 1 .. Len(tags)
      BY <1>2
    <3> QED BY <1>3, <2>1, <3>1
  <2>3. /\ IndexGrows(index, a)
        /\ HasRoom(a) => \A j \in 1 .. k - 1 : Indexed(a, id, tags[j])
    BY <1>5, <2>1
  <2>4. IndexGrows(a, b) /\ (HasRoom(b) => Indexed(b, id, t))
    <3>1. IsFiniteSet(DOMAIN a)
      BY <2>3 DEF IndexGrows
    <3> QED BY <2>2, <3>1, EntryAdded
  <2>5. IndexGrows(index, b)
    BY <2>3, <2>4 DEF IndexGrows
  <2>6. ASSUME HasRoom(b), NEW j \in 1 .. k PROVE Indexed(b, id, tags[j])
    <3>1. CASE j = k
      BY <2>1, <2>4, <2>6, <3>1
    <3>2. CASE j # k
      <4>1. HasRoom(a)
        BY <2>4, <2>6, RoomBefore
      <4>2. j \in 1 .. k - 1
        BY <3>2
      <4>3. Indexed(a, id, tags[j])
        BY <2>3, <4>1, <4>2
      <4> QED BY <2>4, <4>3 DEF IndexGrows
    <3> QED BY <3>1, <3>2
  <2>7. k \in 0 .. n
    BY <1>2
  <2> QED BY <2>1, <2>5, <2>6, <2>7
<1>6. n \in G
  <2> HIDE DEF G
  <2>1. \A k \in 0 .. n : k \in G
    BY <1>2, <1>4, <1>5, Climb
  <2> QED BY <1>2, <2>1
<1> QED BY <1>2, <1>3, <1>6

\* A step that loses nothing from the index, and indexes the tags it adds.
LEMMA StillIndexed ==
  ASSUME NEW m, QueryInv(m), NEW r, IndexGrows(m.index, r.index),
         HasRoom(r.index) =>
           \A s \in Slot : r.table[s].id # 0 => \A k \in DOMAIN r.table[s].tags :
             \/ /\ r.table[s].id = m.table[s].id
                /\ \E j \in DOMAIN m.table[s].tags : r.table[s].tags[k] = m.table[s].tags[j]
             \/ Indexed(r.index, r.table[s].id, r.table[s].tags[k])
  PROVE  QueryInv(r)
<1>1. IsFiniteSet(DOMAIN r.index)
  BY DEF IndexGrows
<1>2. ASSUME HasRoom(r.index) PROVE TagsIndexed(r.table, r.index)
  <2>1. TagsIndexed(m.table, m.index)
    <3>1. HasRoom(m.index)
      BY <1>2, RoomBefore
    <3> QED BY <3>1 DEF QueryInv
  <2>2. ASSUME NEW s \in Slot, r.table[s].id # 0, NEW k \in DOMAIN r.table[s].tags
        PROVE  Indexed(r.index, r.table[s].id, r.table[s].tags[k])
    <3>1. CASE /\ r.table[s].id = m.table[s].id
               /\ \E j \in DOMAIN m.table[s].tags : r.table[s].tags[k] = m.table[s].tags[j]
      <4>1. PICK j \in DOMAIN m.table[s].tags : r.table[s].tags[k] = m.table[s].tags[j]
        BY <3>1
      <4>2. Indexed(m.index, m.table[s].id, m.table[s].tags[j])
        BY <2>1, <2>2, <3>1, <4>1 DEF TagsIndexed
      <4> QED BY <3>1, <4>1, <4>2 DEF IndexGrows
    <3> QED BY <1>2, <2>2, <3>1
  <2> QED BY <2>2 DEF TagsIndexed
<1> QED BY <1>1, <1>2 DEF QueryInv

LEMMA BootedIndexed == QueryInv(Boot(Formatted))
<1>1. PICK r : r = Boot(Formatted)
  OBVIOUS
<1>2. r.index = << >> /\ r.table = [i \in Slot |-> NoInode]
  <2>1. IndexRebuild(Formatted) = << >>
    BY DEF IndexRebuild, Formatted
  <2> QED BY <1>1, <2>1 DEF Boot, Booted, Formatted
<1>3. DOMAIN r.index = {} /\ IsFiniteSet({})
  <2>1. DOMAIN << >> = {}
    OBVIOUS
  <2> QED BY <1>2, <2>1, FS_EmptySet
<1>4. \A s \in Slot : r.table[s].id = 0
  BY <1>2 DEF NoInode
<1> QED BY <1>1, <1>3, <1>4 DEF QueryInv, TagsIndexed

\* tagfs_write_file touches neither tags nor index.
LEMMA WrittenIndexed ==
  ASSUME NEW m, FsInv(m), QueryInv(m), NEW id \in FileIds(m), NEW data \in Seq(Bytes),
         NEW offset \in 0 .. File(m, id).size, NEW r, r = WriteFile(m, id, offset, data).m
  PROVE  QueryInv(r)
<1>1. PICK s : s = SlotOf(m, id) /\ s \in UsedSlots(m)
  BY SlotOfFile DEF FsInv, FileSystem
<1>2. offset \in 0 .. m.table[s].size
  BY <1>1 DEF File
<1>3. PICK v : v = WriteFile(m, id, offset, data)
  OBVIOUS
<1>4. \E w : WriteDone(m, s, offset, data, w, v)
  BY <1>1, <1>2, <1>3, WriteFields
<1>5. r.index = m.index /\ \A t \in Slot : r.table[t].id = m.table[t].id /\ r.table[t].tags = m.table[t].tags
  BY <1>3, <1>4 DEF WriteDone
<1> QED BY <1>5 DEF QueryInv, TagsIndexed

LEMMA CreatedIndexed ==
  ASSUME NEW m, FsInv(m), QueryInv(m), NEW tags \in Seq(TagSet), NEW r, r = CreateFile(m, tags)
  PROVE  QueryInv(r.m)
<1> DEFINE empty == {s \in Slot : m.table[s].id = 0}
<1>1. /\ m \in FileSystem /\ m.table \in [Slot -> Inode] /\ m.nextId \in Nat /\ m.index \in Index
      /\ Naming(m.index, FileIds(m))
  BY DEF FsInv, FileSystem, IndexInv
<1>2. CASE Len(tags) > MAX_TAGS \/ Slot \ m.bits = {} \/ empty = {}
  <2>1. Slot \ m.bits # {} => empty # {}
    BY SlotFree
  <2>2. r.m = m
    BY <1>2, <2>1 DEF CreateFile
  <2> QED BY <2>2
<1>3. CASE ~ (Len(tags) > MAX_TAGS \/ Slot \ m.bits = {} \/ empty = {})
  <2>1. PICK id, s, ix, f : /\ id = m.nextId + 1 /\ s = Min(empty) /\ f = NewInode(id, tags)
                            /\ ix = IndexAddFile(m.index, id, tags)
    OBVIOUS
  <2>2. s \in Slot
    <3>1. empty \subseteq Nat /\ empty # {}
      BY <1>3, StorageConstants DEF Slot
    <3>2. s \in empty
      <4> HIDE DEF empty
      <4> QED BY <2>1, <3>1, LeastMember
    <3> QED BY <3>2
  <2>3. PICK u : u = [m EXCEPT !.bits = m.bits \cup {Min(Slot \ m.bits)}, !.freeInodes = m.freeInodes - 1,
                               !.nextId = id]
    OBVIOUS
  <2>4. u.table = m.table /\ u.index = m.index
    BY <1>1, <2>3 DEF FileSystem
  <2>5. r = Insert(u, id, tags)
    BY <1>1, <1>3, <2>1, <2>3 DEF CreateFile
  <2>6. PICK T : T = [m.table EXCEPT ![s] = f]
    OBVIOUS
  <2>7. r.m = [u EXCEPT !.table = T, !.index = ix]
    <3>1. {t \in Slot : u.table[t].id = 0} = empty
      BY <2>4
    <3>2. r = [m |-> [u EXCEPT !.table[Min(empty)] = NewInode(id, tags),
                               !.index = IndexAddFile(u.index, id, tags)],
               id |-> id]
      BY <1>3, <2>5, <3>1 DEF Insert
    <3>3. r.m = [u EXCEPT !.table = [u.table EXCEPT ![s] = f], !.index = ix]
      BY <2>1, <2>4, <3>2
    <3> QED BY <2>4, <2>6, <3>3
  <2>8. PICK v : v = r.m
    OBVIOUS
  <2>9. v.table = T /\ v.index = ix
    BY <1>1, <2>3, <2>7, <2>8 DEF FileSystem
  <2>10. T[s] = f /\ \A t \in Slot : t # s => T[t] = m.table[t]
    BY <1>1, <2>2, <2>6
  <2>11. f.id = id /\ f.tags = tags /\ DOMAIN tags = 1 .. Len(tags)
    BY <2>1 DEF NewInode, NoInode
  <2>12. IndexGrows(m.index, ix) /\ (HasRoom(ix) => \A k \in 1 .. Len(tags) : Indexed(ix, id, tags[k]))
    <3>1. PICK ids : ids = FileIds(m) \cup {id}
      OBVIOUS
    <3>2. ids \subseteq Nat /\ id \in ids /\ Naming(m.index, ids)
      <4>1. FileIds(m) \subseteq Nat
        BY <1>1 DEF FileIds, Inode
      <4> QED BY <1>1, <2>1, <3>1, <4>1 DEF Naming
    <3>3. IsFiniteSet(DOMAIN m.index) /\ m.index \in Index
      BY <1>1 DEF QueryInv
    <3> QED BY <2>1, <3>2, <3>3, FileIndexed
  <2>13. HasRoom(v.index) =>
           \A t \in Slot : v.table[t].id # 0 => \A k \in DOMAIN v.table[t].tags :
             \/ /\ v.table[t].id = m.table[t].id
                /\ \E j \in DOMAIN m.table[t].tags : v.table[t].tags[k] = m.table[t].tags[j]
             \/ Indexed(v.index, v.table[t].id, v.table[t].tags[k])
    BY <2>9, <2>10, <2>11, <2>12
  <2>14. IndexGrows(m.index, v.index)
    BY <2>9, <2>12
  <2>15. QueryInv(v)
    BY <2>13, <2>14, StillIndexed
  <2> QED BY <2>8, <2>15
<1> QED BY <1>2, <1>3

LEMMA TagAddedIndexed ==
  ASSUME NEW m, FsInv(m), QueryInv(m), NEW id, NEW t \in TagSet, NEW r, r = AddTag(m, id, t)
  PROVE  QueryInv(r)
<1>1. CASE r = m
  BY <1>1
<1>2. CASE r # m
  <2>1. id \in FileIds(m)
    BY <1>2 DEF AddTag
  <2>2. /\ m \in FileSystem /\ m.table \in [Slot -> Inode] /\ m.index \in Index /\ InodeInv(m)
        /\ Naming(m.index, FileIds(m))
    BY DEF FsInv, FileSystem, IndexInv
  <2>3. PICK s, q, ix : /\ s = SlotOf(m, id) /\ q = Append(m.table[s].tags, t)
                        /\ ix = IndexAddFile(m.index, id, <<t>>)
    OBVIOUS
  <2>4. s \in Slot /\ m.table[s].id = id
    BY <2>1, <2>2, <2>3, SlotOfFile DEF UsedSlots
  <2>5. PICK f, T : f = [m.table[s] EXCEPT !.tags = q] /\ T = [m.table EXCEPT ![s] = f]
    OBVIOUS
  <2>6. r = [m EXCEPT !.table = T, !.index = ix]
    <3>1. r = [m EXCEPT !.table[s].tags = q, !.index = ix]
      BY <1>2, <2>3 DEF AddTag
    <3> QED BY <2>2, <2>5, <3>1
  <2>7. r.table = T /\ r.index = ix
    BY <2>2, <2>6 DEF FileSystem
  <2>8. T[s] = f /\ \A u \in Slot : u # s => T[u] = m.table[u]
    BY <2>2, <2>4, <2>5
  <2>9. f.id = id /\ f.tags = q
    BY <2>2, <2>4, <2>5 DEF Inode
  <2>10. IndexGrows(m.index, ix) /\ (HasRoom(ix) => Indexed(ix, id, t))
    <3>1. FileIds(m) \subseteq Nat
      BY <2>2 DEF FileIds, Inode
    <3>2. PICK l : l = <<t>> /\ l \in Seq(TagSet) /\ 1 \in 1 .. Len(l) /\ l[1] = t
      <4>1. <<t>> \in Seq(TagSet) /\ 1 \in 1 .. Len(<<t>>) /\ <<t>>[1] = t
        OBVIOUS
      <4> QED BY <4>1
    <3>3. IsFiniteSet(DOMAIN m.index)
      BY DEF QueryInv
    <3>4. /\ IndexGrows(m.index, ix)
          /\ HasRoom(ix) => \A k \in 1 .. Len(l) : Indexed(ix, id, l[k])
      BY <2>1, <2>2, <2>3, <3>1, <3>2, <3>3, FileIndexed
    <3> QED BY <3>2, <3>4
  <2>11. \A k \in DOMAIN q : q[k] = t \/ \E j \in DOMAIN m.table[s].tags : q[k] = m.table[s].tags[j]
    <3>1. PICK p : p = m.table[s].tags /\ p \in Seq(TagSet)
      BY <2>2, <2>4 DEF Inode
    <3>2. \A k \in DOMAIN q : q[k] = t \/ (k \in DOMAIN p /\ q[k] = p[k])
      BY <2>3, <3>1
    <3> QED BY <3>1, <3>2
  <2>12. HasRoom(r.index) =>
           \A u \in Slot : r.table[u].id # 0 => \A k \in DOMAIN r.table[u].tags :
             \/ /\ r.table[u].id = m.table[u].id
                /\ \E j \in DOMAIN m.table[u].tags : r.table[u].tags[k] = m.table[u].tags[j]
             \/ Indexed(r.index, r.table[u].id, r.table[u].tags[k])
    BY <2>4, <2>7, <2>8, <2>9, <2>10, <2>11
  <2>13. IndexGrows(m.index, r.index)
    BY <2>7, <2>10
  <2> QED BY <2>12, <2>13, StillIndexed
<1> QED BY <1>1, <1>2

\* A removed tag stays in the index: the file has fewer tags, and all are indexed.
LEMMA TagRemovedIndexed ==
  ASSUME NEW m, FsInv(m), QueryInv(m), NEW id, NEW key, NEW r, r = RemoveTag(m, id, key)
  PROVE  QueryInv(r)
<1>1. CASE r = m
  BY <1>1
<1>2. CASE r # m
  <2>1. PICK s, tags, keyed : /\ s = SlotOf(m, id) /\ tags = m.table[s].tags
                              /\ keyed = {k \in DOMAIN tags : tags[k][1] = key}
    OBVIOUS
  <2>2. id \in FileIds(m) /\ keyed # {}
    BY <1>2, <2>1 DEF RemoveTag, File
  <2>3. m \in FileSystem /\ m.table \in [Slot -> Inode] /\ InodeInv(m)
    BY DEF FsInv, FileSystem
  <2>4. s \in Slot
    BY <2>1, <2>2, <2>3, SlotOfFile DEF UsedSlots
  <2>5. tags \in Seq(TagSet) /\ DOMAIN tags = 1 .. Len(tags) /\ Len(tags) \in Nat
    BY <2>1, <2>3, <2>4 DEF Inode
  <2>6. PICK i, q : i = Min(keyed) /\ q = RemoveAt(tags, i)
    OBVIOUS
  <2>7. i \in 1 .. Len(tags)
    <3>1. keyed \subseteq Nat
      BY <2>1, <2>5
    <3>2. i \in keyed
      BY <2>2, <2>6, <3>1, LeastMember
    <3> QED BY <2>1, <2>5, <3>2
  <2>8. /\ q \in Seq(TagSet) /\ Len(q) = Len(tags) - 1
        /\ \A j \in 1 .. Len(tags) - 1 : q[j] = IF j < i THEN tags[j] ELSE tags[j + 1]
    BY <2>5, <2>6, <2>7, RemoveAtFields
  <2>9. \A k \in DOMAIN q : \E j \in DOMAIN tags : q[k] = tags[j]
    <3>1. ASSUME NEW k \in DOMAIN q PROVE \E j \in DOMAIN tags : q[k] = tags[j]
      <4>1. k \in 1 .. Len(tags) - 1 /\ k \in DOMAIN tags /\ k + 1 \in DOMAIN tags
        BY <2>5, <2>8
      <4> QED BY <2>8, <4>1
    <3> QED BY <3>1
  <2>10. PICK f, T : f = [m.table[s] EXCEPT !.tags = q] /\ T = [m.table EXCEPT ![s] = f]
    OBVIOUS
  <2>11. r = [m EXCEPT !.table = T]
    <3>1. r = [m EXCEPT !.table[s].tags = q]
      BY <1>2, <2>1, <2>2, <2>6 DEF RemoveTag, File
    <3> QED BY <2>3, <2>10, <3>1
  <2>12. r.table = T /\ r.index = m.index
    BY <2>3, <2>11 DEF FileSystem
  <2>13. T[s] = f /\ \A u \in Slot : u # s => T[u] = m.table[u]
    BY <2>3, <2>4, <2>10
  <2>14. f.id = m.table[s].id /\ f.tags = q
    BY <2>3, <2>4, <2>10 DEF Inode
  <2>15. HasRoom(r.index) =>
           \A u \in Slot : r.table[u].id # 0 => \A k \in DOMAIN r.table[u].tags :
             \/ /\ r.table[u].id = m.table[u].id
                /\ \E j \in DOMAIN m.table[u].tags : r.table[u].tags[k] = m.table[u].tags[j]
             \/ Indexed(r.index, r.table[u].id, r.table[u].tags[k])
    BY <2>1, <2>9, <2>12, <2>13, <2>14
  <2>16. IndexGrows(m.index, r.index)
    BY <2>12 DEF IndexGrows, QueryInv
  <2> QED BY <2>15, <2>16, StillIndexed
<1> QED BY <1>1, <1>2

\* An erased file takes no other file's entry with it.
LEMMA OthersStayIndexed ==
  ASSUME NEW index \in Index, NEW id, NEW i, i # id, NEW t, Indexed(index, i, t),
         NEW r, r = IndexRemoveFile(index, id)
  PROVE  Indexed(r, i, t)
<1>1. index \in [DOMAIN index -> Seq(Nat)] /\ t \in DOMAIN index /\ DOMAIN r = DOMAIN index
  BY IndexType DEF Indexed, IndexRemoveFile
<1>2. PICK q, at : q = index[t] /\ at = {k \in DOMAIN q : q[k] = id} /\ q \in Seq(Nat)
  BY <1>1
<1>3. r[t] = IF at = {} THEN q ELSE RemoveAt(q, Min(at))
  BY <1>1, <1>2 DEF IndexRemoveFile
<1>4. PICK k : k \in 1 .. Len(q) /\ q[k] = i
  BY <1>2 DEF Indexed
<1>5. CASE at = {}
  BY <1>1, <1>2, <1>3, <1>5 DEF Indexed
<1>6. CASE at # {}
  <2>1. PICK j, e : j = Min(at) /\ e = RemoveAt(q, j)
    OBVIOUS
  <2>2. j \in 1 .. Len(q) /\ q[j] = id
    <3>1. at \subseteq Nat
      BY <1>2
    <3>2. j \in at
      BY <1>6, <2>1, <3>1, LeastMember
    <3> QED BY <1>2, <3>2
  <2>3. /\ e \in Seq(Nat) /\ Len(e) = Len(q) - 1
        /\ \A z \in 1 .. Len(q) - 1 : e[z] = IF z < j THEN q[z] ELSE q[z + 1]
    <3>1. q \in Seq(Nat) /\ j \in 1 .. Len(q)
      BY <1>2, <2>2
    <3>2. /\ RemoveAt(q, j) \in Seq(Nat) /\ Len(RemoveAt(q, j)) = Len(q) - 1
          /\ \A z \in 1 .. Len(q) - 1 : RemoveAt(q, j)[z] = IF z < j THEN q[z] ELSE q[z + 1]
      BY ONLY <3>1, RemoveAtFields
    <3> QED BY ONLY <2>1, <3>2
  <2>4. PICK z : z = IF k < j THEN k ELSE k - 1
    OBVIOUS
  <2>5. k # j /\ Len(q) \in Nat
    BY <1>2, <1>4, <2>2
  <2>6. z \in 1 .. Len(q) - 1 /\ k = IF z < j THEN z ELSE z + 1
    BY <1>4, <2>2, <2>4, <2>5
  <2>7. z \in DOMAIN e /\ e[z] = i
    BY <1>4, <2>3, <2>6
  <2>8. r[t] = e
    BY <1>3, <1>6, <2>1
  <2> QED BY <1>1, <2>7, <2>8 DEF Indexed
<1> QED BY <1>5, <1>6

LEMMA ErasedIndexed ==
  ASSUME NEW m, FsInv(m), QueryInv(m), NEW id, NEW r, r = EraseFile(m, id)
  PROVE  QueryInv(r)
<1> DEFINE blocks == {File(m, id).direct[i] : i \in 0 .. DIRECT - 1} \ {0}
<1>1. m \in FileSystem /\ m.table \in [Slot -> Inode] /\ m.index \in Index /\ InodeInv(m)
  BY DEF FsInv, FileSystem
<1>2. CASE r = m
  BY <1>2
<1>3. ASSUME NEW z, r = [m EXCEPT !.stopped = z] PROVE QueryInv(r)
  <2>1. r.table = m.table /\ r.index = m.index
    BY <1>1, <1>3 DEF FileSystem
  <2> QED BY <2>1 DEF QueryInv
<1>4. CASE /\ id \in FileIds(m)
           /\ r = [m EXCEPT !.used = @ \ blocks, !.freeBlocks = @ + Cardinality(blocks),
                            !.index = IndexRemoveFile(@, id),
                            !.table[SlotOf(m, id)] = NoInode,
                            !.bits = @ \ {id}, !.freeInodes = @ + 1]
  <2>1. PICK s, T : s = SlotOf(m, id) /\ T = [m.table EXCEPT ![s] = NoInode]
    OBVIOUS
  <2>2. PICK a, b, c, d, e : /\ a = m.used \ blocks /\ b = m.freeBlocks + Cardinality(blocks)
                             /\ c = IndexRemoveFile(m.index, id) /\ d = m.bits \ {id}
                             /\ e = m.freeInodes + 1
    OBVIOUS
  <2>3. r.table = T /\ r.index = c
    <3>1. r = [m EXCEPT !.used = a, !.freeBlocks = b, !.index = c, !.table = T,
                        !.bits = d, !.freeInodes = e]
      BY <1>4, <2>1, <2>2
    <3> QED BY <1>1, <3>1 DEF FileSystem
  <2>4. s \in Slot /\ m.table[s].id = id /\ \A t \in Slot : m.table[t].id = id => t = s
    BY <1>1, <1>4, <2>1, SlotOfFile DEF UsedSlots
  <2>5. T[s] = NoInode /\ \A t \in Slot : t # s => T[t] = m.table[t]
    BY <1>1, <2>1, <2>4
  <2>6. DOMAIN c = DOMAIN m.index
    BY <2>2 DEF IndexRemoveFile
  <2>7. ASSUME HasRoom(c), NEW t \in Slot, T[t].id # 0, NEW k \in DOMAIN T[t].tags
        PROVE  Indexed(c, T[t].id, T[t].tags[k])
    <3>1. t # s /\ T[t] = m.table[t] /\ m.table[t].id # id
      BY <2>4, <2>5, <2>7 DEF NoInode
    <3>2. PICK i, x : i = m.table[t].id /\ x = m.table[t].tags[k]
      OBVIOUS
    <3>3. Indexed(m.index, i, x)
      BY <2>6, <2>7, <3>1, <3>2 DEF QueryInv, HasRoom, TagsIndexed
    <3>4. i # id
      BY <3>1, <3>2
    <3>5. Indexed(c, i, x)
      BY <1>1, <2>2, <3>3, <3>4, OthersStayIndexed
    <3> QED BY <3>1, <3>2, <3>5
  <2> QED BY <2>3, <2>6, <2>7 DEF QueryInv, TagsIndexed
<1>5. \/ r = m
      \/ \E z \in Stop : r = [m EXCEPT !.stopped = z]
      \/ /\ id \in FileIds(m)
         /\ r = [m EXCEPT !.used = @ \ blocks, !.freeBlocks = @ + Cardinality(blocks),
                          !.index = IndexRemoveFile(@, id),
                          !.table[SlotOf(m, id)] = NoInode,
                          !.bits = @ \ {id}, !.freeInodes = @ + 1]
  BY DEF EraseFile, Stop
<1> QED BY <1>2, <1>3, <1>4, <1>5

LEMMA QueryStep ==
  ASSUME StorageInv, QueryInv(fs), [Next]_vars
  PROVE  QueryInv(fs')
<1>1. disk = Formatted /\ FsInv(fs) /\ FdOk(fs, fdTable)
  BY DEF StorageInv
<1>2. CASE fs' = fs
  BY <1>2
<1>3. CASE Restart
  BY <1>1, <1>3, BootedIndexed DEF Restart
<1>4. ASSUME NEW tags \in Seq(TagSet), fs' = CreateFile(fs, tags).m PROVE QueryInv(fs')
  <2>1. PICK r : r = CreateFile(fs, tags)
    OBVIOUS
  <2>2. QueryInv(r.m)
    BY <1>1, <2>1, CreatedIndexed
  <2> QED BY <1>4, <2>1, <2>2
<1>5. ASSUME NEW path \in Names, fs_open(path) PROVE QueryInv(fs')
  <2>1. PICK tags : tags = << <<"name", path>>, <<"type", "file">> >> /\ tags \in Seq(TagSet)
    BY TagsOfCallers
  <2>2. QuerySingle(fs, <<"name", path>>).ret = 0 => QuerySingle(fs, <<"name", path>>).ids = << >>
    BY DEF QuerySingle
  <2>3. fs' = CreateFile(fs, tags).m
    BY <1>5, <2>1, <2>2 DEF fs_open
  <2> QED BY <1>4, <2>1, <2>3
<1>6. ASSUME NEW s \in FdSlot, NEW data \in Chunks, fs_write(s, data) PROVE QueryInv(fs')
  <2>1. PICK id, p : id = fdTable[s].id /\ p = fdTable[s].position
    OBVIOUS
  <2>2. PICK w : w = WriteFile(fs, id, p, data) /\ fs' = w.m /\ s \in DOMAIN fdTable /\ id \in FileIds(fs)
    BY <1>6, <2>1 DEF fs_write
  <2>3. p \in 0 .. File(fs, id).size /\ data \in Seq(Bytes)
    <3>1. p \in Nat /\ p <= File(fs, id).size
      BY <1>1, <2>1, <2>2 DEF FdOk
    <3>2. File(fs, id).size \in Nat
      BY <1>1, <2>2, FileAt
    <3> QED BY <3>1, <3>2, StorageAssumption
  <2>4. QueryInv(w.m)
    BY <1>1, <2>2, <2>3, WrittenIndexed
  <2> QED BY <2>2, <2>4
<1>7. ASSUME NEW tags \in TagLists, NEW data \in Chunks, tagfs_create_file_with_data(tags, data)
      PROVE  QueryInv(fs')
  <2>1. PICK r : r = CreateFile(fs, tags)
                 /\ fs' = IF r.id = 0 THEN r.m ELSE WriteFile(r.m, r.id, 0, data).m
    BY <1>7 DEF tagfs_create_file_with_data
  <2>2. tags \in Seq(TagSet) /\ data \in Seq(Bytes)
    BY TagsOfCallers, StorageAssumption
  <2>3. QueryInv(r.m)
    BY <1>1, <2>1, <2>2, CreatedIndexed
  <2>4. CASE r.id # 0
    <3>1. PICK m, id : m = r.m /\ id = r.id
      OBVIOUS
    <3>2. FsInv(m) /\ id \in FileIds(m) /\ File(m, id).size = 0
      BY <1>1, <2>1, <2>2, <2>4, <3>1, CreatedContents
    <3>3. 0 \in 0 .. File(m, id).size /\ QueryInv(m)
      BY <2>3, <3>1, <3>2
    <3>4. QueryInv(WriteFile(m, id, 0, data).m)
      BY <2>2, <3>2, <3>3, WrittenIndexed
    <3> QED BY <2>1, <2>4, <3>1, <3>4
  <2> QED BY <2>1, <2>3, <2>4
<1>8. ASSUME NEW tags \in TagLists, tagfs_create_file(tags) PROVE QueryInv(fs')
  BY <1>4, <1>8, TagsOfCallers DEF tagfs_create_file
<1>9. ASSUME NEW id, NEW t \in TagSet, tagfs_add_tag(id, t) PROVE QueryInv(fs')
  BY <1>1, <1>9, TagAddedIndexed DEF tagfs_add_tag
<1>10. ASSUME NEW id, NEW key, tagfs_remove_tag(id, key) PROVE QueryInv(fs')
  BY <1>1, <1>10, TagRemovedIndexed DEF tagfs_remove_tag
<1>11. ASSUME NEW id, tagfs_erase_file(id) PROVE QueryInv(fs')
  BY <1>1, <1>11, ErasedIndexed DEF tagfs_erase_file
<1>12. ASSUME NEW id, tagfs_trash_file(id) \/ tagfs_restore_file(id) PROVE QueryInv(fs')
  BY <1>9, <1>10, <1>12, TagsOfCallers DEF tagfs_trash_file, tagfs_restore_file
<1>13. ASSUME NEW id, NEW t \in Tags, tagfs_add_tag(id, t) \/ tagfs_remove_tag(id, t[1])
       PROVE  QueryInv(fs')
  BY <1>9, <1>10, <1>13, TagsOfCallers
<1>14. \A s \in FdSlot : fs_close(s) \/ fs_read(s, UNITS) => fs' = fs
  BY DEF fs_close, fs_read
<1>15. UNCHANGED vars => fs' = fs
  BY DEF vars
<1> QED BY <1>2, <1>3, <1>5, <1>6, <1>7, <1>8, <1>11, <1>12, <1>13, <1>14, <1>15 DEF Next

\* The lists of ids that queries work with: ids of files, each once.
Has(q, i) == \E k \in DOMAIN q : q[k] = i
Listing(q, ids) ==
  /\ q \in Seq(Nat) /\ \A k \in 1 .. Len(q) : q[k] \in ids
  /\ \A j, k \in 1 .. Len(q) : q[j] = q[k] => j = k

\* The filter of a conjunction keeps every candidate that fits.
IsKeeping(g, ids, S) ==
  /\ g[0] = << >> /\ Kept(ids, S) = g[Len(ids)]
  /\ \A k \in 1 .. Len(ids) : g[k] = Keep(g[k - 1], ids[k], S)

LEMMA KeptRun ==
  ASSUME NEW ids \in Seq(Nat), NEW S
  PROVE  \E g : IsKeeping(g, ids, S)
<1> DEFINE n == Len(ids)
           F == [k \in 1 .. n |-> [q \in Seq(Nat) |-> Keep(q, ids[k], S)]]
           Turns(q) == [k \in 0 .. n |-> IF k = 0 THEN << >> ELSE Keep(q[k - 1], ids[k], S)]
           loop == CHOOSE q : q = Turns(q)
<1>0. n \in Nat /\ << >> \in Seq(Nat)
  OBVIOUS
<1>a. \A q \in Seq(Nat), k \in 1 .. n : Keep(q, ids[k], S) \in Seq(Nat)
  BY DEF Keep
<1>1. \E q : q = Turns(q)
  <2>1. PICK j, y, T, G : j = n /\ j \in Nat /\ y = << >> /\ T = Seq(Nat) /\ y \in T
                          /\ G = F /\ G \in [1 .. j -> [T -> T]]
    <3>1. F \in [1 .. n -> [Seq(Nat) -> Seq(Nat)]]
      <4> HIDE DEF n
      <4> QED BY <1>a
    <3> HIDE DEF F, n
    <3> QED BY <1>0, <3>1
  <2>2. PICK g : g \in [0 .. n -> Seq(Nat)] /\ g[0] = << >> /\ \A k \in 1 .. n : g[k] = G[k][g[k - 1]]
    <3> HIDE DEF F, n
    <3>1. \E g : IsRun(g, T, j, y, G)
      BY <2>1, LoopRuns
    <3> QED BY <2>1, <3>1 DEF IsRun
  <2>3. ASSUME NEW k \in 0 .. n, k # 0
        PROVE  g[k] = Keep(g[k - 1], ids[k], S)
    <3>1. k \in 1 .. n /\ k - 1 \in 0 .. n
      BY <1>0, <2>3
    <3> HIDE DEF n
    <3>2. g[k - 1] \in Seq(Nat)
      BY <2>2, <3>1
    <3>3. G[k][g[k - 1]] = Keep(g[k - 1], ids[k], S)
      BY <2>1, <3>1, <3>2
    <3> QED BY <2>2, <3>1, <3>3
  <2>4. g = Turns(g)
    <3> HIDE DEF n
    <3> QED BY <2>2, <2>3
  <2> QED BY <2>4
<1>2. loop = Turns(loop)
  BY <1>1
<1>3. Kept(ids, S) = loop[n]
  BY DEF Kept
<1> HIDE DEF loop
<1>4. loop[0] = << >> /\ \A k \in 1 .. n : loop[k] = Keep(loop[k - 1], ids[k], S)
  <2>1. loop[0] = << >>
    BY <1>0, <1>2
  <2>2. ASSUME NEW k \in 1 .. n PROVE loop[k] = Keep(loop[k - 1], ids[k], S)
    <3>1. k \in 0 .. n /\ k # 0
      BY <1>0
    <3>2. loop[k] = Turns(loop)[k]
      BY <1>2
    <3> QED BY <3>1, <3>2
  <2> QED BY <2>1, <2>2
<1> QED BY <1>3, <1>4 DEF IsKeeping

LEMMA KeptHas ==
  ASSUME NEW ids \in Seq(Nat), NEW S, NEW r, r = Kept(ids, S)
  PROVE  /\ r \in Seq(Nat) /\ Len(r) <= Len(ids)
         /\ \A k \in 1 .. Len(ids) : ids[k] \in S => Has(r, ids[k])
<1>1. PICK g : IsKeeping(g, ids, S)
  BY KeptRun
<1>2. PICK n : n = Len(ids) /\ n \in Nat
  OBVIOUS
<1>3. g[0] = << >> /\ r = g[n] /\ \A k \in 1 .. n : g[k] = Keep(g[k - 1], ids[k], S)
  BY <1>1, <1>2 DEF IsKeeping
<1> DEFINE Done(k) == /\ g[k] \in Seq(Nat) /\ Len(g[k]) <= k
                      /\ \A j \in 1 .. k : ids[j] \in S => Has(g[k], ids[j])
           G == {k \in 0 .. n : Done(k)}
<1>4. 0 \in G
  <2>1. << >> \in Seq(Nat) /\ Len(<< >>) = 0
    OBVIOUS
  <2>2. g[0] \in Seq(Nat) /\ Len(g[0]) <= 0
    BY <1>3, <2>1
  <2>3. 1 .. 0 = {} /\ 0 \in 0 .. n
    BY <1>2
  <2> QED BY <2>2, <2>3
<1>5. ASSUME NEW k \in 1 .. n, k - 1 \in G PROVE k \in G
  <2>1. PICK a, b, i : a = g[k - 1] /\ b = g[k] /\ i = ids[k]
    OBVIOUS
  <2>2. b = Keep(a, i, S) /\ a \in Seq(Nat) /\ i \in Nat /\ Len(a) <= k - 1
        /\ \A j \in 1 .. k - 1 : ids[j] \in S => Has(a, ids[j])
    <3>1. Done(k - 1)
      BY <1>5
    <3>2. i \in Nat
      BY <1>2, <2>1
    <3> QED BY <1>3, <2>1, <3>1, <3>2
  <2>3. b \in Seq(Nat) /\ Len(b) <= k
    BY <2>2 DEF Keep
  <2>4. (\A z : Has(a, z) => Has(b, z)) /\ (i \in S => Has(b, i))
    <3>1. CASE i \in S
      <4>1. b = Append(a, i)
        BY <2>2, <3>1 DEF Keep
      <4>2. DOMAIN b = 1 .. Len(a) + 1 /\ DOMAIN a = 1 .. Len(a) /\ b[Len(a) + 1] = i /\ Len(a) \in Nat
            /\ \A z \in 1 .. Len(a) : b[z] = a[z]
        BY <2>2, <4>1
      <4> QED BY <4>2 DEF Has
    <3>2. CASE i \notin S
      BY <2>2, <3>2 DEF Keep
    <3> QED BY <3>1, <3>2
  <2>5. \A j \in 1 .. k : j = k \/ j \in 1 .. k - 1
    OBVIOUS
  <2>6. \A j \in 1 .. k : ids[j] \in S => Has(b, ids[j])
    BY <2>1, <2>2, <2>4, <2>5
  <2>7. k \in 0 .. n
    BY <1>2
  <2> QED BY <2>1, <2>3, <2>6, <2>7
<1>6. n \in G
  <2> HIDE DEF G
  <2>1. \A k \in 0 .. n : k \in G
    BY <1>2, <1>4, <1>5, Climb
  <2> QED BY <1>2, <2>1
<1> QED BY <1>2, <1>3, <1>6

\* The marks of a disjunction: every id they reach is listed, none twice.
IsSeeing(g, found, ids) ==
  /\ g[0] = found /\ Seen(found, ids) = g[Len(ids)]
  /\ \A k \in 1 .. Len(ids) : g[k] = See(g[k - 1], ids[k])

LEMMA SeenRun ==
  ASSUME NEW found \in Seq(Nat), NEW ids \in Seq(Nat)
  PROVE  \E g : IsSeeing(g, found, ids)
<1> DEFINE n == Len(ids)
           F == [k \in 1 .. n |-> [q \in Seq(Nat) |-> See(q, ids[k])]]
           Turns(q) == [k \in 0 .. n |-> IF k = 0 THEN found ELSE See(q[k - 1], ids[k])]
           loop == CHOOSE q : q = Turns(q)
<1>0. n \in Nat
  OBVIOUS
<1>a. \A q \in Seq(Nat), k \in 1 .. n : See(q, ids[k]) \in Seq(Nat)
  BY DEF See
<1>1. \E q : q = Turns(q)
  <2>1. PICK j, y, T, G : j = n /\ j \in Nat /\ y = found /\ T = Seq(Nat) /\ y \in T
                          /\ G = F /\ G \in [1 .. j -> [T -> T]]
    <3>1. F \in [1 .. n -> [Seq(Nat) -> Seq(Nat)]]
      <4> HIDE DEF n
      <4> QED BY <1>a
    <3> HIDE DEF F, n
    <3> QED BY <1>0, <3>1
  <2>2. PICK g : g \in [0 .. n -> Seq(Nat)] /\ g[0] = found /\ \A k \in 1 .. n : g[k] = G[k][g[k - 1]]
    <3> HIDE DEF F, n
    <3>1. \E g : IsRun(g, T, j, y, G)
      BY <2>1, LoopRuns
    <3> QED BY <2>1, <3>1 DEF IsRun
  <2>3. ASSUME NEW k \in 0 .. n, k # 0
        PROVE  g[k] = See(g[k - 1], ids[k])
    <3>1. k \in 1 .. n /\ k - 1 \in 0 .. n
      BY <1>0, <2>3
    <3> HIDE DEF n
    <3>2. g[k - 1] \in Seq(Nat)
      BY <2>2, <3>1
    <3>3. G[k][g[k - 1]] = See(g[k - 1], ids[k])
      BY <2>1, <3>1, <3>2
    <3> QED BY <2>2, <3>1, <3>3
  <2>4. g = Turns(g)
    <3> HIDE DEF n
    <3> QED BY <2>2, <2>3
  <2> QED BY <2>4
<1>2. loop = Turns(loop)
  BY <1>1
<1>3. Seen(found, ids) = loop[n]
  BY DEF Seen
<1> HIDE DEF loop
<1>4. loop[0] = found /\ \A k \in 1 .. n : loop[k] = See(loop[k - 1], ids[k])
  <2>1. loop[0] = found
    BY <1>0, <1>2
  <2>2. ASSUME NEW k \in 1 .. n PROVE loop[k] = See(loop[k - 1], ids[k])
    <3>1. k \in 0 .. n /\ k # 0
      BY <1>0
    <3>2. loop[k] = Turns(loop)[k]
      BY <1>2
    <3> QED BY <3>1, <3>2
  <2> QED BY <2>1, <2>2
<1> QED BY <1>3, <1>4 DEF IsSeeing

LEMMA SeeLists ==
  ASSUME NEW ids, NEW a, Listing(a, ids), NEW i \in ids, i \in Nat, NEW b, b = See(a, i)
  PROVE  Listing(b, ids) /\ (\A z : Has(a, z) => Has(b, z)) /\ (i < MAX_FILES => Has(b, i))
<1>1. a \in Seq(Nat) /\ (\A k \in 1 .. Len(a) : a[k] \in ids)
      /\ \A j, k \in 1 .. Len(a) : a[j] = a[k] => j = k
  BY DEF Listing
<1>2. CASE i < MAX_FILES /\ i \notin ToSet(a)
  <2>1. b = Append(a, i)
    BY <1>2 DEF See
  <2>2. DOMAIN b = 1 .. Len(a) + 1 /\ DOMAIN a = 1 .. Len(a) /\ b[Len(a) + 1] = i /\ Len(a) \in Nat
        /\ b \in Seq(Nat) /\ Len(b) = Len(a) + 1 /\ \A z \in 1 .. Len(a) : b[z] = a[z]
    BY <1>1, <2>1
  <2>3. \A k \in 1 .. Len(b) : (k \in 1 .. Len(a) /\ b[k] = a[k]) \/ (k = Len(a) + 1 /\ b[k] = i)
    BY <2>2
  <2>4. \A k \in 1 .. Len(a) : a[k] # i
    BY <1>2, <2>2 DEF ToSet
  <2>5. \A k \in 1 .. Len(b) : b[k] \in ids
    BY <1>1, <2>3
  <2>6. ASSUME NEW j \in 1 .. Len(b), NEW k \in 1 .. Len(b), b[j] = b[k] PROVE j = k
    <3>1. CASE j \in 1 .. Len(a) /\ b[j] = a[j]
      <4>1. k \in 1 .. Len(a) /\ b[k] = a[k]
        BY <2>3, <2>4, <2>6, <3>1
      <4> QED BY <1>1, <2>6, <3>1, <4>1
    <3>2. CASE j = Len(a) + 1 /\ b[j] = i
      BY <2>3, <2>4, <2>6, <3>2
    <3> QED BY <2>3, <3>1, <3>2
  <2>7. Listing(b, ids)
    BY <2>2, <2>5, <2>6 DEF Listing
  <2> QED BY <2>2, <2>7 DEF Has
<1>3. CASE ~ (i < MAX_FILES /\ i \notin ToSet(a))
  <2>1. b = a
    BY <1>3 DEF See
  <2> QED BY <1>3, <2>1 DEF Has, ToSet
<1> QED BY <1>2, <1>3

LEMMA SeenLists ==
  ASSUME NEW files, NEW found, Listing(found, files), NEW ids, Listing(ids, files),
         NEW r, r = Seen(found, ids)
  PROVE  /\ Listing(r, files) /\ \A z : Has(found, z) => Has(r, z)
         /\ \A k \in 1 .. Len(ids) : ids[k] < MAX_FILES => Has(r, ids[k])
<1>1. PICK g : IsSeeing(g, found, ids)
  BY SeenRun DEF Listing
<1>2. PICK n : n = Len(ids) /\ n \in Nat
  BY DEF Listing
<1>3. g[0] = found /\ r = g[n] /\ \A k \in 1 .. n : g[k] = See(g[k - 1], ids[k])
  BY <1>1, <1>2 DEF IsSeeing
<1> DEFINE Done(k) == /\ Listing(g[k], files) /\ \A z : Has(found, z) => Has(g[k], z)
                      /\ \A j \in 1 .. k : ids[j] < MAX_FILES => Has(g[k], ids[j])
           G == {k \in 0 .. n : Done(k)}
<1>4. 0 \in G
  BY <1>2, <1>3
<1>5. ASSUME NEW k \in 1 .. n, k - 1 \in G PROVE k \in G
  <2>1. PICK a, b, i : a = g[k - 1] /\ b = g[k] /\ i = ids[k]
    OBVIOUS
  <2>2. /\ b = See(a, i) /\ Listing(a, files) /\ \A z : Has(found, z) => Has(a, z)
        /\ \A j \in 1 .. k - 1 : ids[j] < MAX_FILES => Has(a, ids[j])
    BY <1>3, <1>5, <2>1
  <2>3. i \in files /\ i \in Nat
    BY <1>2, <2>1 DEF Listing
  <2>4. Listing(b, files) /\ (\A z : Has(a, z) => Has(b, z)) /\ (i < MAX_FILES => Has(b, i))
    BY <2>2, <2>3, SeeLists
  <2>5. \A j \in 1 .. k : j = k \/ j \in 1 .. k - 1
    OBVIOUS
  <2>6. \A j \in 1 .. k : ids[j] < MAX_FILES => Has(b, ids[j])
    BY <2>1, <2>2, <2>4, <2>5
  <2>7. k \in 0 .. n /\ \A z : Has(found, z) => Has(b, z)
    BY <1>2, <2>2, <2>4
  <2> QED BY <2>1, <2>4, <2>6, <2>7
<1>6. n \in G
  <2> HIDE DEF G
  <2>1. \A k \in 0 .. n : k \in G
    BY <1>2, <1>4, <1>5, Climb
  <2> QED BY <1>2, <2>1
<1> QED BY <1>2, <1>3, <1>6

\* No list of files is longer than there are files, and none is cut.
Few(ids) == Cardinality(ids) <= MAX_RESULTS
Fits(n, ids) == n <= Cardinality(ids) /\ n <= INODES

LEMMA FilesFinite ==
  ASSUME NEW m
  PROVE  IsFiniteSet(FileIds(m)) /\ Cardinality(FileIds(m)) <= INODES
<1>1. PICK F, I : F = FileIds(m) /\ I = {m.table[s].id : s \in Slot}
  OBVIOUS
<1>2. IsFiniteSet(F) /\ Cardinality(F) <= INODES
  <2>1. IsFiniteSet(I) /\ Cardinality(I) <= INODES
    <3>1. PICK f : f = [s \in Slot |-> m.table[s].id]
      OBVIOUS
    <3>2. f \in Surjection(Slot, I)
      BY <1>1, <3>1 DEF Surjection
    <3>3. IsFiniteSet(I) /\ Cardinality(I) <= Cardinality(Slot)
      <4>1. IsFiniteSet(Slot)
        BY BlocksFinite
      <4> QED BY <3>2, <4>1, FS_Surjection
    <3> QED BY <3>3, BlocksFinite
  <2>2. F \in SUBSET I
    BY <1>1 DEF FileIds
  <2>3. IsFiniteSet(F) /\ Cardinality(F) <= Cardinality(I)
    BY <2>1, <2>2, FS_Subset
  <2>4. Cardinality(F) \in Nat /\ Cardinality(I) \in Nat
    BY <2>1, <2>3, FS_CardinalityType
  <2> QED BY <2>1, <2>3, <2>4, StorageConstants
<1> QED BY <1>1, <1>2

LEMMA ListingFits ==
  ASSUME NEW m, FsInv(m), NEW q, Listing(q, FileIds(m))
  PROVE  Fits(Len(q), FileIds(m))
<1>1. PICK F : F = FileIds(m)
  OBVIOUS
<1>2. IsFiniteSet(F) /\ Cardinality(F) <= INODES
  BY <1>1, FilesFinite
<1>3. PICK P : P = 1 .. Len(q) /\ Len(q) \in Nat
  BY DEF Listing
<1>4. Cardinality(P) <= Cardinality(F)
  <2>1. PICK f : f = [k \in P |-> q[k]]
    OBVIOUS
  <2>2. f \in [P -> F] /\ \A j, k \in P : f[j] = f[k] => j = k
    BY <1>1, <1>3, <2>1 DEF Listing
  <2>3. f \in Injection(P, F)
    BY <2>2 DEF Injection, IsInjective
  <2> QED BY <1>2, <2>3, FS_Injection
<1>5. Cardinality(P) = Len(q)
  <2>1. 1 \in Int /\ Len(q) \in Int
    BY <1>3
  <2>2. Cardinality(1 .. Len(q)) = IF 1 > Len(q) THEN 0 ELSE Len(q) - 1 + 1
    BY <2>1, FS_Interval
  <2> QED BY <1>3, <2>2
<1>6. Cardinality(F) \in Nat
  BY <1>2, FS_CardinalityType
<1>7. Len(q) <= Cardinality(F) /\ Len(q) <= INODES
  BY <1>2, <1>3, <1>4, <1>5, <1>6, StorageConstants
<1> QED BY <1>1, <1>7 DEF Fits

LEMMA FewFit ==
  ASSUME NEW m, FsInv(m), Few(FileIds(m)), NEW n \in Nat, Fits(n, FileIds(m))
  PROVE  n <= MAX_RESULTS /\ MAX_RESULTS \in Nat
<1>1. PICK F, c : F = FileIds(m) /\ c = Cardinality(F)
  OBVIOUS
<1>2. IsFiniteSet(F)
  BY <1>1, FilesFinite
<1>3. c \in Nat
  BY <1>1, <1>2, FS_CardinalityType
<1> QED BY <1>1, <1>3, StorageConstants DEF Fits, Few

LEMMA CutWhole ==
  ASSUME NEW q \in Seq(Nat), NEW n \in Nat, Len(q) <= n
  PROVE  Cut(q, n) = q
<1>1. PICK l, S : l = Len(q) /\ S = {n, l} /\ l \in Nat
  <2>1. Len(q) \in Nat
    OBVIOUS
  <2> QED BY <2>1
<1>2. Min(S) \in S /\ \A t \in S : Min(S) <= t
  <2>1. S \subseteq Nat /\ S # {}
    BY <1>1
  <2> QED BY <2>1, LeastMember
<1>3. Min(S) = l
  BY <1>1, <1>2
<1>4. SubSeq(q, 1, Len(q)) = q
  OBVIOUS
<1> QED BY <1>1, <1>3, <1>4 DEF Cut

\* The index gives every file with the tag, each once.
LEMMA SingleLists ==
  ASSUME NEW m, FsInv(m), Few(FileIds(m)), NEW t, NEW q, q = QuerySingle(m, t).ids
  PROVE  /\ Listing(q, FileIds(m))
         /\ t \in DOMAIN m.index => q = m.index[t]
         /\ \A i : Indexed(m.index, i, t) => Has(q, i)
<1>1. m.index \in [DOMAIN m.index -> Seq(Nat)] /\ Naming(m.index, FileIds(m))
  BY IndexType DEF FsInv, FileSystem, IndexInv
<1>2. CASE t \in DOMAIN m.index
  <2>1. PICK l : l = m.index[t] /\ l \in Seq(Nat)
    BY <1>1, <1>2
  <2>2. Listing(l, FileIds(m))
    BY <1>1, <1>2, <2>1 DEF Naming, Listing
  <2>3. Fits(Len(l), FileIds(m))
    BY <2>2, ListingFits
  <2>4. Cut(l, MAX_RESULTS) = l
    <3>1. Len(l) <= MAX_RESULTS /\ MAX_RESULTS \in Nat
      BY <2>3, FewFit
    <3> QED BY <2>1, <3>1, CutWhole
  <2>5. q = l
    BY <1>2, <2>1, <2>4 DEF QuerySingle
  <2> QED BY <2>1, <2>2, <2>5 DEF Indexed, Has
<1>3. CASE t \notin DOMAIN m.index
  <2>1. q = << >>
    BY <1>3 DEF QuerySingle
  <2>2. << >> \in Seq(Nat) /\ Len(<< >>) = 0
    OBVIOUS
  <2> QED BY <1>3, <2>1, <2>2 DEF Indexed, Listing
<1> QED BY <1>2, <1>3

IsAnyOf(g, m, tags) ==
  /\ g[0] = << >> /\ QueryOr(m, tags) = Cut(g[Len(tags)], MAX_RESULTS)
  /\ \A k \in 1 .. Len(tags) : g[k] = Seen(g[k - 1], QuerySingle(m, tags[k]).ids)

LEMMA AnyOfRun ==
  ASSUME NEW m, FsInv(m), Few(FileIds(m)), NEW tags, Len(tags) \in Nat
  PROVE  \E g : IsAnyOf(g, m, tags)
<1> DEFINE S == {q \in Seq(Nat) : Listing(q, FileIds(m))}
           n == Len(tags)
           F == [k \in 1 .. n |-> [q \in S |-> Seen(q, QuerySingle(m, tags[k]).ids)]]
           Turns(q) == [k \in 0 .. n |-> IF k = 0 THEN << >> ELSE Seen(q[k - 1], QuerySingle(m, tags[k]).ids)]
           loop == CHOOSE q : q = Turns(q)
<1>0. n \in Nat /\ << >> \in S
  <2>1. << >> \in Seq(Nat) /\ Len(<< >>) = 0
    OBVIOUS
  <2> QED BY <2>1 DEF Listing
<1>a. \A q \in S, k \in 1 .. n : Seen(q, QuerySingle(m, tags[k]).ids) \in S
  <2>1. ASSUME NEW q \in S, NEW k \in 1 .. n PROVE Seen(q, QuerySingle(m, tags[k]).ids) \in S
    <3>1. PICK l, r : l = QuerySingle(m, tags[k]).ids /\ r = Seen(q, l)
      OBVIOUS
    <3>2. Listing(l, FileIds(m))
      BY <3>1, SingleLists
    <3>3. Listing(r, FileIds(m))
      BY <3>1, <3>2, SeenLists
    <3> QED BY <3>1, <3>3 DEF Listing
  <2> QED BY <2>1
<1>1. \E q : q = Turns(q)
  <2>1. PICK j, y, T, G : j = n /\ j \in Nat /\ y = << >> /\ T = S /\ y \in T
                          /\ G = F /\ G \in [1 .. j -> [T -> T]]
    <3>1. F \in [1 .. n -> [S -> S]]
      <4> HIDE DEF S, n
      <4> QED BY <1>a
    <3> HIDE DEF F, S, n
    <3> QED BY <1>0, <3>1
  <2>2. PICK g : g \in [0 .. n -> S] /\ g[0] = << >> /\ \A k \in 1 .. n : g[k] = G[k][g[k - 1]]
    <3> HIDE DEF F, S, n
    <3>1. \E g : IsRun(g, T, j, y, G)
      BY <2>1, LoopRuns
    <3> QED BY <2>1, <3>1 DEF IsRun
  <2>3. ASSUME NEW k \in 0 .. n, k # 0
        PROVE  g[k] = Seen(g[k - 1], QuerySingle(m, tags[k]).ids)
    <3>1. k \in 1 .. n /\ k - 1 \in 0 .. n
      BY <1>0, <2>3
    <3> HIDE DEF S, n
    <3>2. g[k - 1] \in S
      BY <2>2, <3>1
    <3>3. G[k][g[k - 1]] = Seen(g[k - 1], QuerySingle(m, tags[k]).ids)
      BY <2>1, <3>1, <3>2
    <3> QED BY <2>2, <3>1, <3>3
  <2>4. g = Turns(g)
    <3> HIDE DEF S, n
    <3> QED BY <2>2, <2>3
  <2> QED BY <2>4
<1>2. loop = Turns(loop)
  BY <1>1
<1>3. QueryOr(m, tags) = Cut(loop[n], MAX_RESULTS)
  BY DEF QueryOr
<1> HIDE DEF loop
<1>4. loop[0] = << >> /\ \A k \in 1 .. n : loop[k] = Seen(loop[k - 1], QuerySingle(m, tags[k]).ids)
  <2>1. loop[0] = << >>
    BY <1>0, <1>2
  <2>2. ASSUME NEW k \in 1 .. n PROVE loop[k] = Seen(loop[k - 1], QuerySingle(m, tags[k]).ids)
    <3>1. k \in 0 .. n /\ k # 0
      BY <1>0
    <3>2. loop[k] = Turns(loop)[k]
      BY <1>2
    <3> QED BY <3>1, <3>2
  <2> QED BY <2>1, <2>2
<1> QED BY <1>3, <1>4 DEF IsAnyOf

LEMMA TagIndexed ==
  ASSUME NEW m, FsInv(m), QueryInv(m), HasRoom(m.index), NEW id, NEW t, HasTag(m, id, t)
  PROVE  Indexed(m.index, id, t)
<1>1. id \in FileIds(m) /\ m.table \in [Slot -> Inode] /\ InodeInv(m)
  BY DEF HasTag, FsInv, FileSystem
<1>2. PICK s : s = SlotOf(m, id) /\ s \in Slot /\ m.table[s].id = id /\ id # 0
  BY <1>1, SlotOfFile DEF UsedSlots
<1>3. PICK k : k \in DOMAIN m.table[s].tags /\ m.table[s].tags[k] = t
  BY <1>2 DEF HasTag, File
<1> QED BY <1>2, <1>3 DEF QueryInv, TagsIndexed

LEMMA AllOfFinds ==
  ASSUME NEW m, FsInv(m), QueryInv(m), HasRoom(m.index), Few(FileIds(m)),
         NEW tags, Len(tags) \in Nat \ {0}, DOMAIN tags = 1 .. Len(tags),
         NEW id \in FileIds(m), \A k \in DOMAIN tags : HasTag(m, id, tags[k])
  PROVE  id \in ToSet(QueryAnd(m, tags))
<1>1. PICK t, l : t = tags[1] /\ l = m.index[t]
  OBVIOUS
<1>2. Indexed(m.index, id, t)
  <2>1. HasTag(m, id, t)
    BY <1>1
  <2> QED BY <2>1, TagIndexed
<1>3. Listing(l, FileIds(m)) /\ Has(l, id) /\ t \in DOMAIN m.index
  <2>1. PICK q : q = QuerySingle(m, t).ids
    OBVIOUS
  <2>2. /\ Listing(q, FileIds(m)) /\ (t \in DOMAIN m.index => q = m.index[t])
        /\ \A i : Indexed(m.index, i, t) => Has(q, i)
    BY <2>1, SingleLists
  <2> QED BY <1>1, <1>2, <2>2 DEF Indexed
<1>4. l \in Seq(Nat) /\ Len(l) <= INODES /\ Len(l) <= MAX_RESULTS
  <2>1. Fits(Len(l), FileIds(m))
    BY <1>3, ListingFits
  <2> QED BY <1>3, <2>1, FewFit DEF Listing, Fits
<1>5. Cut(l, MAX_FILES) = l
  <2>1. Len(l) <= MAX_FILES /\ MAX_FILES \in Nat
    BY <1>4, StorageConstants
  <2> QED BY <1>4, <2>1, CutWhole
<1>6. PICK fit, r : /\ fit = {i \in ToSet(l) : \A k \in 2 .. Len(tags) : HasTag(m, i, tags[k])}
                    /\ r = Kept(l, fit)
  OBVIOUS
<1>7. QueryAnd(m, tags) = Cut(r, MAX_RESULTS)
  BY <1>1, <1>3, <1>5, <1>6 DEF QueryAnd
<1>8. r \in Seq(Nat) /\ Len(r) <= Len(l) /\ \A k \in 1 .. Len(l) : l[k] \in fit => Has(r, l[k])
  BY <1>4, <1>6, KeptHas
<1>9. id \in fit
  <2>1. id \in ToSet(l)
    BY <1>3 DEF Has, ToSet
  <2>2. \A k \in 2 .. Len(tags) : k \in DOMAIN tags
    OBVIOUS
  <2> QED BY <1>6, <2>1, <2>2
<1>10. Has(r, id)
  <2>1. PICK k : k \in 1 .. Len(l) /\ l[k] = id
    BY <1>3, <1>4 DEF Has
  <2> QED BY <1>8, <1>9, <2>1
<1>11. Cut(r, MAX_RESULTS) = r
  <2>1. Len(r) <= MAX_RESULTS /\ MAX_RESULTS \in Nat
    BY <1>4, <1>8, StorageConstants
  <2> QED BY <1>8, <2>1, CutWhole
<1> QED BY <1>7, <1>10, <1>11 DEF Has, ToSet

LEMMA AnyOfFinds ==
  ASSUME NEW m, FsInv(m), QueryInv(m), HasRoom(m.index), Few(FileIds(m)),
         m.nextId < MAX_FILES, NEW tags, Len(tags) \in Nat, DOMAIN tags = 1 .. Len(tags),
         NEW id \in FileIds(m), \E k \in DOMAIN tags : HasTag(m, id, tags[k])
  PROVE  id \in ToSet(QueryOr(m, tags))
<1>1. PICK g : IsAnyOf(g, m, tags)
  BY AnyOfRun
<1>2. PICK n, c : n = Len(tags) /\ n \in Nat /\ c \in 1 .. n /\ HasTag(m, id, tags[c])
  OBVIOUS
<1>3. /\ g[0] = << >> /\ QueryOr(m, tags) = Cut(g[n], MAX_RESULTS)
      /\ \A k \in 1 .. n : g[k] = Seen(g[k - 1], QuerySingle(m, tags[k]).ids)
  BY <1>1, <1>2 DEF IsAnyOf
<1>4. id < MAX_FILES /\ Indexed(m.index, id, tags[c])
  <2>1. m.table \in [Slot -> Inode] /\ InodeInv(m) /\ m.nextId \in Nat
    BY DEF FsInv, FileSystem
  <2>2. PICK s : s \in Slot /\ m.table[s].id = id
    BY DEF FileIds
  <2>3. id \in Nat /\ id <= m.nextId
    BY <2>1, <2>2 DEF Inode, InodeInv
  <2>4. id < MAX_FILES
    BY <2>1, <2>3, StorageConstants
  <2>5. Indexed(m.index, id, tags[c])
    BY <1>2, TagIndexed
  <2> QED BY <2>4, <2>5
<1> DEFINE G == {k \in 0 .. n : Listing(g[k], FileIds(m)) /\ (c <= k => Has(g[k], id))}
<1>5. 0 \in G
  <2>1. << >> \in Seq(Nat) /\ Len(<< >>) = 0
    OBVIOUS
  <2>2. Listing(g[0], FileIds(m))
    BY <1>3, <2>1 DEF Listing
  <2>3. ~ (c <= 0)
    BY <1>2
  <2> QED BY <1>2, <2>2, <2>3
<1>6. ASSUME NEW k \in 1 .. n, k - 1 \in G PROVE k \in G
  <2>1. PICK a, b, t, q : a = g[k - 1] /\ b = g[k] /\ t = tags[k] /\ q = QuerySingle(m, t).ids
    OBVIOUS
  <2>2. b = Seen(a, q) /\ Listing(a, FileIds(m)) /\ (c <= k - 1 => Has(a, id))
    BY <1>3, <1>6, <2>1
  <2>3. Listing(q, FileIds(m)) /\ (Indexed(m.index, id, t) => Has(q, id))
    BY <2>1, SingleLists
  <2>4. /\ Listing(b, FileIds(m)) /\ \A z : Has(a, z) => Has(b, z)
        /\ \A j \in 1 .. Len(q) : q[j] < MAX_FILES => Has(b, q[j])
    BY <2>2, <2>3, SeenLists
  <2>5. ASSUME c <= k PROVE Has(b, id)
    <3>1. CASE c = k
      <4>1. Has(q, id)
        BY <1>4, <2>1, <2>3, <3>1
      <4>2. PICK j : j \in 1 .. Len(q) /\ q[j] = id
        BY <2>3, <4>1 DEF Has, Listing
      <4> QED BY <1>4, <2>4, <4>2
    <3>2. CASE c # k
      <4>1. c <= k - 1
        BY <1>2, <2>5, <3>2
      <4> QED BY <2>2, <2>4, <4>1
    <3> QED BY <3>1, <3>2
  <2>6. k \in 0 .. n
    BY <1>2
  <2> QED BY <2>1, <2>4, <2>5, <2>6
<1>7. n \in G
  <2> HIDE DEF G
  <2>1. \A k \in 0 .. n : k \in G
    BY <1>2, <1>5, <1>6, Climb
  <2> QED BY <1>2, <2>1
<1>8. PICK r : r = g[n] /\ Listing(r, FileIds(m)) /\ Has(r, id)
  BY <1>2, <1>7
<1>9. Cut(r, MAX_RESULTS) = r
  <2>1. r \in Seq(Nat) /\ Fits(Len(r), FileIds(m))
    BY <1>8, ListingFits DEF Listing
  <2>2. Len(r) <= MAX_RESULTS /\ MAX_RESULTS \in Nat
    BY <2>1, FewFit
  <2> QED BY <2>1, <2>2, CutWhole
<1> QED BY <1>3, <1>8, <1>9 DEF Has, ToSet

\* A query misses no file as long as the index has an entry left, there are not
\* more files than a list of results holds, and the ids given out have marks:
\* every tag of every file is in the index, whatever was created, tagged,
\* written and erased before.
THEOREM QueriesFindAll == Spec => []QueriesMissNothing
<1>1. Init => QueryInv(fs)
  BY BootedIndexed DEF Init
<1>2. StorageInv /\ QueryInv(fs) /\ [Next]_vars => QueryInv(fs)'
  BY QueryStep
<1>3. StorageInv /\ QueryInv(fs) => QueriesMissNothing
  <2> SUFFICES ASSUME StorageInv, QueryInv(fs), QueriesFit PROVE QueriesMissNothing
    BY DEF QueriesMissNothing
  <2>0. HasRoom(fs.index) /\ fs.nextId < MAX_FILES /\ Few(FileIds(fs))
    BY DEF QueriesFit, HasRoom, Few
  <2>1. FsInv(fs)
    BY DEF StorageInv
  <2>2. ASSUME NEW tags \in UpTo(Tags, 2) \ {<< >>}
        PROVE  Len(tags) \in Nat \ {0} /\ DOMAIN tags = 1 .. Len(tags)
    <3>1. PICK n : n \in 0 .. 2 /\ tags \in [1 .. n -> Tags]
      BY DEF UpTo
    <3>2. n # 0
      <4>1. tags \in [1 .. 0 -> Tags] => tags = << >>
        OBVIOUS
      <4> QED BY <3>1, <4>1
    <3>3. tags \in Seq(Tags)
      BY <3>1
    <3>4. DOMAIN tags = 1 .. n
      BY <3>1
    <3>5. Len(tags) = n
      BY <3>1, <3>3, <3>4
    <3> QED BY <3>1, <3>2, <3>4, <3>5
  <2>3. ASSUME NEW tags \in UpTo(Tags, 2) \ {<< >>}, NEW id \in FileIds(fs)
        PROVE  /\ (\A k \in DOMAIN tags : HasTag(fs, id, tags[k])) => id \in ToSet(QueryAnd(fs, tags))
               /\ (\E k \in DOMAIN tags : HasTag(fs, id, tags[k])) => id \in ToSet(QueryOr(fs, tags))
    <3>1. Len(tags) \in Nat \ {0} /\ DOMAIN tags = 1 .. Len(tags)
      BY <2>2
    <3>2. (\A k \in DOMAIN tags : HasTag(fs, id, tags[k])) => id \in ToSet(QueryAnd(fs, tags))
      BY <2>0, <2>1, <3>1, AllOfFinds
    <3>3. (\E k \in DOMAIN tags : HasTag(fs, id, tags[k])) => id \in ToSet(QueryOr(fs, tags))
      BY <2>0, <2>1, <3>1, AnyOfFinds
    <3> QED BY <3>2, <3>3
  <2> QED BY <2>3 DEF QueriesMissNothing
<1> QED BY <1>1, <1>2, <1>3, StorageAlways, PTL DEF Spec

===============================================================================
