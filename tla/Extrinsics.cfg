\* Commands end, and then nothing need happen.
CONSTANTS
  c1 = c1
  c2 = c2
  Commands = {c1, c2}
  Plans <- Pairs
  MaxForeign = 1
  MaxReorgs = 1
  MaxFaults = 1
SPECIFICATION Spec
INVARIANTS TypeOK ReportsAreTrue RefusalsAreFinal EstimatesHold SequentialNoncesWork
PROPERTIES EveryCommandEnds
CHECK_DEADLOCK FALSE
