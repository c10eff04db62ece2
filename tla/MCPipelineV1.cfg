SPECIFICATION Spec
CONSTANTS
  Options <- MCOptions
  ChanCap = 1
INVARIANT
  SuccessRanEveryTest
