SPECIFICATION CoreSpec
CONSTANTS
  MaxEvents = 3
  Kinds <- ServedOrNot
  PollIds = {0}
  Outcomes = {"result", "error"}
  RING = 1
  BUCKETS = 1
  CAPACITY = 2
  BATCH = 1
  STEPS = 2
  QUEUE = 2
  CACHE = 2
  Hash <- HashOfIds
  Spread = FALSE
INVARIANTS NothingLostOrDoubled LossesUnserved
