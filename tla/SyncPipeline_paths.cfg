SPECIFICATION SyncFairSpec
CONSTANTS
  MaxEvents = 3
  Kinds <- EveryPath
  PollIds = {0, 2}
  Outcomes = {"result", "empty", "error"}
  RING = 3
  BUCKETS = 4
  CAPACITY = 2
  BATCH = 1
  STEPS = 2
  QUEUE = 8
  CACHE = 2
  Hash <- HashOfIds
  Spread = FALSE
INVARIANTS QueuedOnceAndCurrent OwnResult
PROPERTY ImplementsService EveryRequestResolved
