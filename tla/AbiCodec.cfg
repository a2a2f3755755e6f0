\* A message is decoded once.
CONSTANTS
  Word = 2
  Usize = 48
  Leaves = {5, 6}
  MaxElements = 2
  Forged = {0, 1, 6, 43, 45, 47}
  MaxDamage = 2
  Payloads <- MCPayloads
  Messages <- MCMessages
  Types <- MCTypes
  MaxDepth = 9
SPECIFICATION Spec
INVARIANTS ReadsBack NoStrayRead EncodingIsStandard
CHECK_DEADLOCK FALSE
