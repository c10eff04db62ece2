SPECIFICATION Spec
CONSTANTS
  a = a
  b = b
  c = c
  MaxLinks = 6
  Fuel = 22
  Names <- MCNames
  Archives <- MCArchives
INVARIANTS
  TypeOK
  DirsStayOpen
  ModesAsShipped
  HardLinksAreMade
  ResolutionIsWalk
