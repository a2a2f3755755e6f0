CONSTANTS
  Contracts = {c1, c2}
  Values = {0, 1}
  InitValue = 0
  MaxDepth = 4
  MaxFuel = 5
  Terminating = {c2}
SPECIFICATION Spec
INVARIANTS MutualExclusion SectionIsolated ViewSeesNoOpenSection LockOwned
PROPERTIES OnlyOwnerUnlocks
