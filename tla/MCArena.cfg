CONSTANTS
  Align = 8
  Guard = 32
  MemblockReserve = 16
  StateReserve = 80
  Slots = {s1, s2}
  Sizes = {0, 40, 300, 600}
  FirstSizes = {0}
  Buffers = {40, 200}
  MaxBlockSizes = {300, 32768}
  FailAfters = {0, 1900}
  MaxBlocks = 2
SPECIFICATION Spec
SYMMETRY SlotSymmetry
CONSTRAINT BlocksBounded
INVARIANTS ArenaInv AccountExact
PROPERTIES ImplementsHeap FreeSpaceKept
