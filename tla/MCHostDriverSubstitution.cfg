SPECIFICATION Spec
CONSTANTS
  A = A
  B = B
  x = x
  y = y
  BadKey = BadKey
  Unset = Unset
  NoRef = NoRef
  Keys <- MCKeys
  Pieces <- MCPieces
  Runs <- MCRuns
INVARIANT
  SubstitutedOnce
