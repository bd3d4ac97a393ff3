SPECIFICATION Spec
CONSTANTS
  FRAMES = 8
  BASE_PAGES = 1
  LEVELS = 3
  ENTRIES = 2
  LOW_END = 1
  USER_BASE = 1
  USER_TOP = 3
  HEAP_BASE = 4
  HEAP_END = 8
  Sizes = {9}      \* more than there are: of mapped memory there is none
  MaxContexts = 2
  MaxHeld = 1
  PmmChoice <- LowestRun
INVARIANT ContextsCanBeDestroyed
CHECK_DEADLOCK FALSE
