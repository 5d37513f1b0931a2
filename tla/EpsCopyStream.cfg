CONSTANTS
  Slop = 4
  Lens = {0, 1, 2, 3, 4, 5, 6, 7, 8, 9, 10, 11}
  Reads = {1, 2, 3}
  Payloads = {0, 1, 2, 3, 4, 5, 7, 9, 12}
  MaxDepth = 2
SPECIFICATION Spec
INVARIANTS WindowIsInput SlopIsReadable EndsNested
PROPERTIES ImplementsCursor
CHECK_DEADLOCK FALSE
