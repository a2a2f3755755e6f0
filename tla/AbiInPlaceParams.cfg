CONSTANTS
  Word = 2
  Usize = 48
  Leaves = {5, 6}
  MaxElements = 2
  Forged = {}
  MaxDamage = 0
  Payloads <- MCPayloads
  Messages <- MCMessages
  Types <- MCTypes
  MaxDepth = 9
SPECIFICATION Spec
INVARIANTS PointersAreFollowed
CHECK_DEADLOCK FALSE
