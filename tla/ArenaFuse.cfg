CONSTANTS
  MaxArenas = 3
  FirstBytes = 352
  BlockBytes = {688}
  CleanupIds = {1, 2}
  FailAfters = {1100}
SPECIFICATION Spec
INVARIANTS ForestMatchesLists HeldIsAlive SpaceIsReported
PROPERTY ImplementsLifetimes
CHECK_DEADLOCK FALSE
