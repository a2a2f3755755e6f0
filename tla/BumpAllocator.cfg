CONSTANTS
  HeapSize = 6
  HeapBase = 24
  WordAlign = 8
  UsizeLimit = 64
  Layouts <- SomeLayouts
SPECIFICATION HeapSpec
CHECK_DEADLOCK FALSE
INVARIANTS Disjoint PointersAligned
PROPERTIES ZeroedIsZero RefusedOnlyWhenFull
