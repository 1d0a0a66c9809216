SPECIFICATION Spec
CONSTANTS
  a = a
  b = b
  Bytes = {a, b}
  None = None
  Capacity = 4
INVARIANTS
  StaysTrue
PROPERTIES
  QueueSpec
  CountExact
