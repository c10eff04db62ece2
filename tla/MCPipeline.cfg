SPECIFICATION Spec
CONSTANTS
  Options <- MCOptions
  ChanCap = 1
INVARIANTS
  TypeOK
  NoSendOnClosed
  InOrderOnce
  ExitZeroIsEarned
  DeferredFindDriver
  SuccessLeavesNothing
  SummaryIsLast
  YoungestFirst
PROPERTIES
  Termination
  ContractSpec
