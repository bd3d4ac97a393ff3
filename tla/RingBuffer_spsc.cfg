SPECIFICATION Spec
CONSTANTS
  m1 = m1
  m2 = m2
  execution = execution
  Garbage = Garbage
  Producers = {execution}
  Messages = {m1, m2}
  WORDS = 2
  SIZE = 4
  WRAP = 8
INVARIANTS NoSharedSlot RingInv
PROPERTY ImplementsFifo
