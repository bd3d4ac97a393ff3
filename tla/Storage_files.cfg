SPECIFICATION Spec
CONSTANTS
  TOTAL_BLOCKS = 3
  DATA_START = 1
  UNITS = 2
  DIRECT = 3
  INODES = 3
  INODE_BITS = 6
  MAX_TAGS = 2
  MAX_TAG_INDEX = 3
  MAX_RESULTS = 2
  MAX_FILES = 5
  Tags <- TwoTags
  Bytes = {"x", "y"}
  HAS_DISK = TRUE
  MAX_OPEN_FILES = 1
  Names <- OneName
  TagLists <- TaggedOrTooMany
  Chunks <- ThreeBytes
  MaxId = 5
INVARIANTS BlocksOwned NoHoles IndexNamesFiles QueriesMissNothing
PROPERTY ImplementsFileStore
CHECK_DEADLOCK FALSE
