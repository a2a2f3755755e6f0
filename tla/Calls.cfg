\* A test begins methods and makes operations, MaxOps in all: one method of
\* three operations, so that an output buffer, an error and a return data are
\* each overwritten once and read after, or two methods of one operation, so
\* that a snapshot, a failed method, a restore and another method occur. Of two
\* callees the mock knows at most one: the other answers by default.
CONSTANTS
  Values = {v1, v2}
  Words = {"zero", "one", "sel"}
  Selector = "sel"
  Zero = "zero"
  One = "one"
  BufWords = 1
  MaxOps = 4
  MaxMocked = 1
  Callees = {"ecrecover", "p256_verify"}
  Mutabilities = {"view", "nonpayable"}
  Arities = {1}
  Rooms = {0, 1}
  Answers <- MCAnswers
SYMMETRY Symmetric
SPECIFICATION Spec
INVARIANT OutputIsTheAnswer
INVARIANT ErrorsAreTheirs
INVARIANT ViewMethodsKeepStorage
INVARIANT MockShowsTheChain
INVARIANT RestoredMockIsTheChain
CHECK_DEADLOCK FALSE
