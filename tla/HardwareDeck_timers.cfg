SPECIFICATION DeckSpec
CONSTANTS
  MAX_TASKS = 2
  MaxSpawns = 2
  MaxCareless = 0
  MAX_TIMERS = 2
  MaxTimers = 2
  MaxFires = 2
INVARIANTS OwnersQueuedOnce
PROPERTY ImplementsTimers TimersGoOff
CHECK_DEADLOCK FALSE
