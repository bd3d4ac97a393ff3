SPECIFICATION Spec
CONSTANTS
  KBSIZE = 3
  LINE = 5
  MAXARGS = 2
  Keys = {"a", "space", "enter", "backspace", "lshift", "rshift", "fake shift"}
  TaskCalls = 1
  MaxPresses = 5
INVARIANTS LinesAreWhatWasTyped NoStuckShift
PROPERTY KeysAreRead
CHECK_DEADLOCK FALSE
