SPECIFICATION Spec
CONSTANTS
  Levels = 7
  Sizes <- MCSizes
  Pointers <- MCPointers
  MaxLive = 4
INVARIANTS
  Disjoint
  TreeExact
  Complete
  SearchExact
