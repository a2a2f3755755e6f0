CONSTANTS
  Words = {0, 1}
  Zero = 0
  Shapes <- Packed
  MaxLen = 3
  Corrupt = {}
  OwnedCursors = TRUE
SPECIFICATION Spec
PROPERTIES GrowAppendsZero
