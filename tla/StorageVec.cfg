CONSTANTS
  Words = {0, 1}
  Zero = 0
  Shapes <- PackedAndSpread
  MaxLen = 3
  Corrupt = {3, 4}
  OwnedCursors = FALSE
SPECIFICATION Spec
INVARIANTS ZeroPastEnd TryReadsOnlyOverflow
PROPERTIES IsASequence MalformedLengthIsInert
