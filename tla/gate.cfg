CONSTANTS
  Task = {a, b, c}
SPECIFICATION FairSpec
INVARIANTS NoLostWakeup
PROPERTIES ImplementsReadersWriters WritersServed ReadersServed
