\* The builder panics for good when it is given too many methods.
CONSTANTS
  Selectors = {s1, s2}
  MaxMethods = 3
  Programs <- SinglesAndChains
SPECIFICATION BothSpec
INVARIANTS ValueOnlyToPayable DslTypeOK SameFate
PROPERTIES IsAnEndpoint DslIsAnEndpoint
CHECK_DEADLOCK FALSE
