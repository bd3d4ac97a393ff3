SPECIFICATION Spec
CONSTANTS
  MAX_TASKS = 3
  MaxSpawns = 4
  MaxCareless = 1
INVARIANTS TableExact QueueWellFormed RunnableQueued
PROPERTY ImplementsRunQueue
CHECK_DEADLOCK FALSE
