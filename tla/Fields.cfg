CONSTANTS
  Width = 4
  FieldTypes <- AllTypes
  MaxFields = 3
  PinnedSlots = {0, 1, 2}
  RawKeys = {r1, r2}
  Words = {0, 1}
  Zero = 0
SYMMETRY Keys
SPECIFICATION FieldsSpec
INVARIANTS FieldsDisjoint
PROPERTIES IsARecord
